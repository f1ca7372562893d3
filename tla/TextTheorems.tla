----------------------------- MODULE TextTheorems -----------------------------
(***************************************************************************)
(* Texts of any length: what is found in them, cut, joined and replaced.   *)
(***************************************************************************)
EXTENDS TextFunctions, SequenceTheorems, WellFoundedInduction, TLAPS

----------------------------------------------------------------------------
(* Numbers. *)

LEMMA SmallestIs ==
  ASSUME NEW S, S \subseteq Nat, S # {}
  PROVE  \E x \in S : \A y \in S : x <= y
<1>1. PICK x \in S : \A y \in S : ~(<<y, x>> \in OpToRel(<, Nat))
  BY NatLessThanWellFounded, WFMin
<1>2. \A y \in S : ~(y < x)
  BY <1>1 DEF OpToRel
<1> QED BY <1>2

LEMMA LargestIs ==
  ASSUME NEW m \in Nat, NEW S, S \subseteq 0..m, S # {}
  PROVE  \E x \in S : \A y \in S : y <= x
<1> DEFINE T == {d \in 0..m : m - d \in S}
<1>1. T \subseteq Nat /\ T # {}
  <2>1. PICK x \in S : TRUE
    OBVIOUS
  <2>2. m - x \in 0..m /\ m - (m - x) = x
    BY <2>1
  <2>3. m - x \in T
    BY <2>1, <2>2
  <2>4. T \subseteq 0..m /\ 0..m \subseteq Nat
    OBVIOUS
  <2> QED BY <2>3, <2>4, Zenon
<1>2. PICK d \in T : \A e \in T : d <= e
  BY <1>1, SmallestIs
<1>3. m - d \in S
  BY <1>2
<1>4. ASSUME NEW y \in S PROVE y <= m - d
  <2>1. m - y \in 0..m /\ m - (m - y) = y
    BY <1>4
  <2>2. d <= m - y
    BY <1>2, <1>4, <2>1
  <2> QED BY <1>2, <1>4, <2>2
<1> QED BY <1>3, <1>4

----------------------------------------------------------------------------
(* Find. *)

LEMMA MinIs ==
  ASSUME NEW S, S \subseteq Nat, S # {}
  PROVE  Min(S) \in S /\ \A y \in S : Min(S) <= y
BY SmallestIs DEF Min

LEMMA FindFromIs ==
  ASSUME NEW text, NEW word, Len(text) \in Nat, Len(word) \in Nat, NEW i \in Nat \ {0}
  PROVE  LET k == FindFrom(text, word, i)
             last == Len(text) - Len(word) + 1
         IN  \/ /\ k = 0
                /\ \A h \in i..last : SubSeq(text, h, h + Len(word) - 1) # word
             \/ /\ k \in i..last /\ k \in Nat \ {0}
                /\ SubSeq(text, k, k + Len(word) - 1) = word
                /\ \A h \in i..(k - 1) : SubSeq(text, h, h + Len(word) - 1) # word
<1> DEFINE last == Len(text) - Len(word) + 1
           hits == {k \in i..last : SubSeq(text, k, k + Len(word) - 1) = word}
           k == FindFrom(text, word, i)
<1>1. last \in Int /\ hits \subseteq Nat \ {0} /\ hits \subseteq i..last
  OBVIOUS
<1>2. CASE hits = {}
  <2>1. k = 0
    BY <1>2 DEF FindFrom
  <2> QED BY <1>2, <2>1
<1>3. CASE hits # {}
  <2>1. k = Min(hits)
    BY <1>3 DEF FindFrom
  <2>2. k \in hits /\ \A y \in hits : k <= y
    BY <1>1, <1>3, <2>1, MinIs
  <2>3. k \in i..last /\ k \in Nat \ {0} /\ SubSeq(text, k, k + Len(word) - 1) = word
    BY <1>1, <2>2
  <2>4. ASSUME NEW h \in i..(k - 1) PROVE SubSeq(text, h, h + Len(word) - 1) # word
    <3>1. h \in i..last /\ ~(k <= h)
      BY <1>1, <2>3
    <3> QED BY <2>2, <3>1
  <2> HIDE DEF k, last
  <2> QED BY <2>3, <2>4 DEF k, last
<1> QED BY <1>2, <1>3

----------------------------------------------------------------------------
(* Sequences one after the other. *)

LEMMA ConcatAssoc ==
  ASSUME NEW Char, NEW s \in Seq(Char), NEW t \in Seq(Char), NEW u \in Seq(Char)
  PROVE  (s \o t) \o u = s \o (t \o u)
BY SMT

Flat(flatten, seqs, m) ==
  flatten = [i \in 1..m |-> IF i = 1 THEN seqs[i] ELSE flatten[i - 1] \o seqs[i]]

LEMMA FlatExists ==
  ASSUME NEW seqs, NEW m \in Nat
  PROVE  \E flatten : Flat(flatten, seqs, m)
<1> DEFINE Bad == {n \in Nat : ~\E flatten : Flat(flatten, seqs, n)}
<1> SUFFICES ASSUME m \in Bad PROVE FALSE
  OBVIOUS
<1> HIDE DEF Bad
<1>1. Bad \subseteq Nat /\ Bad # {}
  BY DEF Bad
<1>2. PICK n \in Bad : \A l \in Bad : n <= l
  BY <1>1, SmallestIs
<1>3. n \in Nat
  BY <1>1, <1>2
<1>4. CASE n = 0
  <2> DEFINE g == [i \in 1..n |-> seqs[i]]
  <2>1. \A i \in 1..n : FALSE
    BY <1>4
  <2>2. Flat(g, seqs, n)
    BY <2>1 DEF Flat
  <2> QED BY <1>2, <2>2 DEF Bad
<1>5. CASE n # 0
  <2>1. n - 1 \in Nat /\ ~(n <= n - 1)
    BY <1>3, <1>5
  <2>2. PICK f : Flat(f, seqs, n - 1)
    BY <1>2, <2>1 DEF Bad
  <2> DEFINE Value(h, i) == IF i = 1 THEN seqs[i] ELSE h[i - 1] \o seqs[i]
             g == [i \in 1..n |-> IF i = n THEN Value(f, n) ELSE f[i]]
  <2>3. \A i \in 1..n : g[i] = Value(g, i)
    <3> SUFFICES ASSUME NEW i \in 1..n PROVE g[i] = Value(g, i)
      OBVIOUS
    <3>1. i # 1 => i - 1 \in 1..n /\ i - 1 # n
      BY <1>3
    <3>2. i # 1 => g[i - 1] = f[i - 1]
      BY <3>1
    <3>3. Value(g, i) = Value(f, i)
      BY <3>2
    <3>4. i # n => f[i] = Value(f, i)
      <4> SUFFICES ASSUME i # n PROVE f[i] = Value(f, i)
        OBVIOUS
      <4>1. i \in 1..(n - 1)
        BY <1>3
      <4> QED BY <2>2, <4>1 DEF Flat
    <3>5. g[i] = Value(f, i)
      BY <3>4
    <3> QED BY <3>3, <3>5
  <2>4. Flat(g, seqs, n)
    BY <2>3 DEF Flat
  <2> QED BY <1>2, <2>4 DEF Bad
<1> QED BY <1>4, <1>5

LEMMA FlattenIs ==
  ASSUME NEW Char, NEW seqs \in Seq(Seq(Char)), seqs # << >>
  PROVE  \E flatten :
           /\ \A i \in 1..Len(seqs) :
                flatten[i] = IF i = 1 THEN seqs[i] ELSE flatten[i - 1] \o seqs[i]
           /\ \A i \in 1..Len(seqs) : flatten[i] \in Seq(Char)
           /\ FlattenSeq(seqs) = flatten[Len(seqs)]
<1> DEFINE flatten == CHOOSE f : Flat(f, seqs, Len(seqs))
           Bad == {i \in 1..Len(seqs) : flatten[i] \notin Seq(Char)}
<1>1. Len(seqs) \in Nat /\ Len(seqs) # 0
  OBVIOUS
<1>2. Flat(flatten, seqs, Len(seqs))
  BY <1>1, FlatExists
<1>3. FlattenSeq(seqs) = flatten[Len(seqs)]
  BY <1>1, Zenon DEF FlattenSeq, Flat
<1> HIDE DEF flatten
<1>4. \A i \in 1..Len(seqs) : flatten[i] = IF i = 1 THEN seqs[i] ELSE flatten[i - 1] \o seqs[i]
  BY <1>2 DEF Flat
<1>5. Bad = {}
  <2> SUFFICES ASSUME Bad # {} PROVE FALSE
    OBVIOUS
  <2>1. Bad \subseteq Nat /\ Bad \subseteq 1..Len(seqs)
    OBVIOUS
  <2>2. PICK i \in Bad : \A j \in Bad : i <= j
    BY <2>1, SmallestIs
  <2>3. i \in 1..Len(seqs) /\ flatten[i] \notin Seq(Char) /\ seqs[i] \in Seq(Char)
    BY <2>2
  <2>4. CASE i = 1
    BY <1>4, <2>3, <2>4
  <2>5. CASE i # 1
    <3>1. i - 1 \in 1..Len(seqs) /\ ~(i <= i - 1)
      BY <1>1, <2>3, <2>5
    <3>2. flatten[i - 1] \in Seq(Char)
      BY <2>2, <3>1
    <3>3. flatten[i] = flatten[i - 1] \o seqs[i]
      BY <1>4, <2>3, <2>5
    <3> QED BY <2>3, <3>2, <3>3
  <2> QED BY <2>4, <2>5
<1> QED BY <1>3, <1>4, <1>5

LEMMA FlattenType ==
  ASSUME NEW Char, NEW seqs \in Seq(Seq(Char))
  PROVE  FlattenSeq(seqs) \in Seq(Char)
<1>1. CASE seqs = << >>
  BY <1>1 DEF FlattenSeq
<1>2. CASE seqs # << >>
  <2>1. Len(seqs) \in 1..Len(seqs)
    BY <1>2
  <2> QED BY <1>2, <2>1, FlattenIs
<1> QED BY <1>1, <1>2

LEMMA FlattenCons ==
  ASSUME NEW Char, NEW first \in Seq(Char), NEW seqs \in Seq(Seq(Char))
  PROVE  FlattenSeq(<<first>> \o seqs) = first \o FlattenSeq(seqs)
<1>0. \A s, t, u \in Seq(Char) : (s \o t) \o u = s \o (t \o u)
  BY ConcatAssoc, SMTT(30)
<1> DEFINE all == <<first>> \o seqs
           n == Len(seqs)
<1>1. /\ all \in Seq(Seq(Char)) /\ all # << >> /\ n \in Nat /\ Len(all) = n + 1
      /\ all[1] = first /\ \A i \in 1..n : all[i + 1] = seqs[i]
  OBVIOUS
<1>2. PICK f : /\ \A i \in 1..(n + 1) : f[i] = IF i = 1 THEN all[i] ELSE f[i - 1] \o all[i]
               /\ FlattenSeq(all) = f[n + 1]
  <2> HIDE DEF all, n
  <2>1. PICK f : /\ \A i \in 1..Len(all) : f[i] = IF i = 1 THEN all[i] ELSE f[i - 1] \o all[i]
                 /\ FlattenSeq(all) = f[Len(all)]
    BY <1>1, FlattenIs, Zenon
  <2> QED BY <1>1, <2>1
<1>3. CASE n = 0
  <2>1. seqs = << >> /\ FlattenSeq(seqs) = << >>
    BY <1>3 DEF FlattenSeq
  <2>2. f[1] = first
    BY <1>1, <1>2
  <2>3. FlattenSeq(all) = first
    BY <1>2, <1>3, <2>2
  <2> QED BY <2>1, <2>3
<1>4. CASE n # 0
  <2>1. seqs # << >>
    BY <1>4
  <2>2. PICK g : /\ \A i \in 1..n : g[i] = IF i = 1 THEN seqs[i] ELSE g[i - 1] \o seqs[i]
                 /\ \A i \in 1..n : g[i] \in Seq(Char)
                 /\ FlattenSeq(seqs) = g[n]
    BY <2>1, FlattenIs
  <2> DEFINE Bad == {i \in 1..n : f[i + 1] # first \o g[i]}
  <2>3. Bad = {}
    <3> SUFFICES ASSUME Bad # {} PROVE FALSE
      OBVIOUS
    <3>1. Bad \subseteq Nat /\ Bad \subseteq 1..n
      BY <1>1
    <3>2. PICK i \in Bad : \A j \in Bad : i <= j
      BY <3>1, SmallestIs
    <3>3. i \in 1..n /\ f[i + 1] # first \o g[i] /\ seqs[i] \in Seq(Char)
      <4>1. \A j \in 1..n : seqs[j] \in Seq(Char)
        OBVIOUS
      <4>2. i \in 1..n /\ f[i + 1] # first \o g[i]
        BY <3>2, Zenon
      <4> QED BY <4>1, <4>2
    <3> HIDE DEF all, n
    <3>4. i + 1 \in 1..(n + 1) /\ i + 1 # 1 /\ (i + 1) - 1 = i
      BY <1>1, <3>3
    <3>5. f[i + 1] = f[i] \o seqs[i]
      BY <1>1, <1>2, <3>3, <3>4
    <3>6. CASE i = 1
      <4>1. f[1] = first
        <5>1. 1 \in 1..(n + 1)
          BY <1>1
        <5> QED BY <1>1, <1>2, <5>1
      <4>2. g[i] = seqs[i]
        BY <2>2, <3>3, <3>6
      <4> QED BY <3>3, <3>5, <3>6, <4>1, <4>2
    <3>7. CASE i # 1
      <4>1. i - 1 \in 1..n /\ ~(i <= i - 1) /\ (i - 1) + 1 = i
        BY <1>1, <3>3, <3>7
      <4>2. f[i] = first \o g[i - 1]
        BY <3>2, <4>1
      <4>3. g[i] = g[i - 1] \o seqs[i] /\ g[i - 1] \in Seq(Char)
        BY <2>2, <3>3, <3>7, <4>1
      <4>4. (first \o g[i - 1]) \o seqs[i] = first \o (g[i - 1] \o seqs[i])
        <5>1. first \in Seq(Char) /\ g[i - 1] \in Seq(Char) /\ seqs[i] \in Seq(Char)
          BY <3>3, <4>3
        <5> QED BY <1>0, <5>1, Zenon
      <4> QED BY <3>3, <3>5, <4>2, <4>3, <4>4
    <3> QED BY <3>6, <3>7
  <2>4. n \in 1..n
    BY <1>1, <1>4
  <2>5. f[n + 1] = first \o g[n]
    BY <2>3, <2>4
  <2> QED BY <1>2, <2>2, <2>5
<1> QED BY <1>3, <1>4


----------------------------------------------------------------------------
(* Join. *)

LEMMA ConsIs ==
  ASSUME NEW S, NEW first \in S, NEW rest \in Seq(S)
  PROVE  /\ <<first>> \o rest \in Seq(S) /\ Len(<<first>> \o rest) = Len(rest) + 1
         /\ (<<first>> \o rest)[1] = first
         /\ \A i \in 1..Len(rest) : (<<first>> \o rest)[i + 1] = rest[i]
OBVIOUS

LEMMA FlattenOne ==
  ASSUME NEW Char, NEW first \in Seq(Char)
  PROVE  FlattenSeq(<<first>>) = first
<1> DEFINE seqs == <<first>>
<1>1. seqs \in Seq(Seq(Char)) /\ seqs # << >> /\ Len(seqs) = 1 /\ seqs[1] = first
  OBVIOUS
<1> HIDE DEF seqs
<1>2. PICK f : /\ \A i \in 1..Len(seqs) : f[i] = IF i = 1 THEN seqs[i] ELSE f[i - 1] \o seqs[i]
               /\ FlattenSeq(seqs) = f[Len(seqs)]
  BY <1>1, FlattenIs, Zenon
<1>3. FlattenSeq(seqs) = first
  BY <1>1, <1>2
<1> QED BY <1>3 DEF seqs

Spaced(list, separator) ==
  [i \in DOMAIN list |-> IF i < Len(list) THEN list[i] \o separator ELSE list[i]]

LEMMA SpacedType ==
  ASSUME NEW Char, NEW list \in Seq(Seq(Char)), NEW separator \in Seq(Char)
  PROVE  Spaced(list, separator) \in Seq(Seq(Char)) /\ Len(Spaced(list, separator)) = Len(list)
<1> DEFINE n == Len(list)
           F == [i \in 1..n |-> IF i < n THEN list[i] \o separator ELSE list[i]]
<1>1. n \in Nat /\ DOMAIN list = 1..n /\ \A i \in 1..n : list[i] \in Seq(Char)
  OBVIOUS
<1>2. Spaced(list, separator) = F
  BY <1>1 DEF Spaced
<1>3. \A i \in 1..n : (IF i < n THEN list[i] \o separator ELSE list[i]) \in Seq(Char)
  BY <1>1
<1> HIDE DEF n
<1>4. F \in [1..n -> Seq(Char)]
  BY <1>3
<1> HIDE DEF F
<1>5. F \in Seq(Seq(Char)) /\ Len(F) = n
  BY <1>1, <1>4
<1> QED BY <1>2, <1>5 DEF n

LEMMA JoinType ==
  ASSUME NEW Char, NEW list \in Seq(Seq(Char)), NEW separator \in Seq(Char)
  PROVE  Join(list, separator) \in Seq(Char)
<1>1. Join(list, separator) = FlattenSeq(Spaced(list, separator))
  BY Zenon DEF Join, Spaced
<1> QED BY <1>1, SpacedType, FlattenType, Zenon

LEMMA JoinNone ==
  ASSUME NEW separator
  PROVE  Join(<< >>, separator) = << >>
<1> DEFINE F == [i \in DOMAIN << >> |-> IF i < Len(<< >>) THEN << >>[i] \o separator ELSE << >>[i]]
<1>1. F = << >>
  OBVIOUS
<1> QED BY <1>1 DEF Join, FlattenSeq

LEMMA JoinOne ==
  ASSUME NEW Char, NEW word \in Seq(Char), NEW separator \in Seq(Char)
  PROVE  Join(<<word>>, separator) = word
<1> DEFINE S == Spaced(<<word>>, separator)
<1>1. S = <<word>>
  <2>1. S = [i \in 1..1 |-> word]
    BY DEF Spaced
  <2> QED BY <2>1
<1>2. Join(<<word>>, separator) = FlattenSeq(S)
  BY Zenon DEF Join, Spaced
<1> QED BY <1>1, <1>2, FlattenOne

LEMMA JoinCons ==
  ASSUME NEW Char, NEW word \in Seq(Char), NEW separator \in Seq(Char),
         NEW list \in Seq(Seq(Char)), list # << >>
  PROVE  Join(<<word>> \o list, separator) = word \o separator \o Join(list, separator)
<1> DEFINE all == <<word>> \o list
           S == Spaced(all, separator)
           T == Spaced(list, separator)
           n == Len(list)
<1>1. /\ all \in Seq(Seq(Char)) /\ n \in Nat \ {0} /\ Len(all) = n + 1
      /\ all[1] = word /\ \A i \in 1..n : all[i + 1] = list[i]
  OBVIOUS
<1>2. S \in Seq(Seq(Char)) /\ Len(S) = n + 1 /\ T \in Seq(Seq(Char)) /\ Len(T) = n
  <2> HIDE DEF all, S, T, n
  <2> QED BY <1>1, SpacedType DEF S, T, n
<1>3. \A i \in 1..(n + 1) : S[i] = IF i < n + 1 THEN all[i] \o separator ELSE all[i]
  <2> HIDE DEF all, n
  <2>1. DOMAIN all = 1..(n + 1)
    BY <1>1
  <2> QED BY <1>1, <2>1 DEF Spaced
<1>4. \A i \in 1..n : T[i] = IF i < n THEN list[i] \o separator ELSE list[i]
  BY DEF Spaced
<1>5. S = <<word \o separator>> \o T
  <2> HIDE DEF all, S, T, n
  <2>1. S[1] = word \o separator
    <3>1. 1 \in 1..(n + 1) /\ 1 < n + 1
      BY <1>1
    <3> QED BY <1>1, <1>3, <3>1
  <2>2. \A i \in 1..n : S[i + 1] = T[i]
    <3> SUFFICES ASSUME NEW i \in 1..n PROVE S[i + 1] = T[i]
      OBVIOUS
    <3>1. i + 1 \in 1..(n + 1) /\ (i + 1 < n + 1 <=> i < n)
      BY <1>1
    <3> QED BY <1>1, <1>3, <1>4, <3>1
  <2> DEFINE U == <<word \o separator>> \o T
  <2>3. /\ U \in Seq(Seq(Char)) /\ Len(U) = n + 1
        /\ U[1] = word \o separator /\ \A i \in 1..n : U[i + 1] = T[i]
    <3> DEFINE F == word \o separator
               W == Seq(Char)
    <3>1. F \in W /\ T \in Seq(W)
      BY <1>2
    <3> HIDE DEF F, W
    <3>2. /\ <<F>> \o T \in Seq(Seq(Char)) /\ Len(<<F>> \o T) = Len(T) + 1
          /\ (<<F>> \o T)[1] = F /\ \A i \in 1..Len(T) : (<<F>> \o T)[i + 1] = T[i]
      <4>1. <<F>> \o T \in Seq(W) /\ Len(<<F>> \o T) = Len(T) + 1
        BY <3>1
      <4>2. (<<F>> \o T)[1] = F /\ \A i \in 1..Len(T) : (<<F>> \o T)[i + 1] = T[i]
        BY <3>1
      <4> QED BY <4>1, <4>2, Zenon DEF W
    <3>3. U = <<F>> \o T
      BY Zenon DEF F
    <3>4. Len(T) = n
      BY <1>2
    <3> HIDE DEF U
    <3>5. U \in Seq(Seq(Char)) /\ Len(U) = n + 1 /\ U[1] = F /\ \A i \in 1..n : U[i + 1] = T[i]
      BY <3>2, <3>3, <3>4, Zenon
    <3> QED BY <3>5, Zenon DEF F
  <2> HIDE DEF U
  <2>4. \A i \in 1..(n + 1) : S[i] = U[i]
    <3> SUFFICES ASSUME NEW i \in 1..(n + 1) PROVE S[i] = U[i]
      OBVIOUS
    <3>1. i # 1 => i - 1 \in 1..n /\ (i - 1) + 1 = i
      BY <1>1
    <3> QED BY <2>1, <2>2, <2>3, <3>1
  <2>5. S = U
    BY <1>1, <1>2, <2>3, <2>4, SeqEqual
  <2> QED BY <2>5 DEF U
<1>6. Join(all, separator) = FlattenSeq(S) /\ Join(list, separator) = FlattenSeq(T)
  BY Zenon DEF Join, Spaced
<1>7. word \o separator \in Seq(Char)
  OBVIOUS
<1> HIDE DEF all, S, T
<1>8. FlattenSeq(S) = (word \o separator) \o FlattenSeq(T)
  BY <1>2, <1>5, <1>7, FlattenCons
<1> QED BY <1>6, <1>8 DEF all


----------------------------------------------------------------------------
(* Loops that go on behind what they have found. *)

Forward(to, m) == \A i \in 1..m : to[i] = 0 \/ to[i] \in (i + 1)..m

Loop(f, m, to, base, front) ==
  f = [i \in 1..m |-> IF to[i] = 0 THEN base[i] ELSE front[i] \o f[to[i]]]

LEMMA LoopExists ==
  ASSUME NEW m \in Nat, NEW to, NEW base, NEW front, Forward(to, m)
  PROVE  \E f : Loop(f, m, to, base, front)
<1> DEFINE Value(f, i) == IF to[i] = 0 THEN base[i] ELSE front[i] \o f[to[i]]
           Bad == {k \in 1..(m + 1) : ~\E f : f = [i \in k..m |-> Value(f, i)]}
<1>1. ASSUME NEW i \in 1..m, NEW f, NEW g, \A j \in (i + 1)..m : f[j] = g[j]
      PROVE  Value(f, i) = Value(g, i)
  BY <1>1 DEF Forward
<1> HIDE DEF Value, Bad
<1>2. Bad = {}
  <2> SUFFICES ASSUME Bad # {} PROVE FALSE
    OBVIOUS
  <2>1. Bad \subseteq 0..(m + 1)
    BY DEF Bad
  <2>2. PICK k \in Bad : \A l \in Bad : l <= k
    <3>1. m + 1 \in Nat
      OBVIOUS
    <3> QED BY <2>1, <3>1, LargestIs, Zenon
  <2>3. k \in 1..(m + 1)
    BY <2>2 DEF Bad
  <2>4. CASE k = m + 1
    <3> DEFINE g == [i \in k..m |-> base[i]]
    <3>1. \A i \in k..m : g[i] = Value(g, i)
      BY <2>4
    <3>2. g = [i \in k..m |-> Value(g, i)]
      BY <3>1
    <3> QED BY <2>2, <3>2 DEF Bad
  <2>5. CASE k # m + 1
    <3>1. k + 1 \in 1..(m + 1) /\ ~(k + 1 <= k)
      BY <2>3, <2>5
    <3>2. PICK f : f = [i \in (k + 1)..m |-> Value(f, i)]
      BY <2>2, <3>1 DEF Bad
    <3> DEFINE g == [i \in k..m |-> IF i = k THEN Value(f, k) ELSE f[i]]
    <3>3. \A i \in k..m : g[i] = Value(g, i)
      <4> SUFFICES ASSUME NEW i \in k..m PROVE g[i] = Value(g, i)
        OBVIOUS
      <4>1. i \in 1..m /\ (\A j \in (i + 1)..m : j \in k..m /\ j # k)
            /\ (i # k => i \in (k + 1)..m)
        BY <2>3
      <4>2. \A j \in (i + 1)..m : f[j] = g[j]
        BY <4>1
      <4> HIDE DEF g
      <4>3. Value(f, i) = Value(g, i)
        BY <1>1, <4>1, <4>2
      <4>4. i # k => f[i] = Value(f, i)
        BY <3>2, <4>1
      <4> QED BY <4>3, <4>4 DEF g
    <3>4. g = [i \in k..m |-> Value(g, i)]
      BY <3>3
    <3> QED BY <2>2, <3>4 DEF Bad
  <2> QED BY <2>4, <2>5
<1>3. 1 \in 1..(m + 1)
  OBVIOUS
<1>4. \E f : f = [i \in 1..m |-> Value(f, i)]
  BY <1>2, <1>3 DEF Bad
<1> QED BY <1>4 DEF Value, Loop

\* Where the loops of parseSplit and parseReplace go on.
Behind(text, word, i) ==
  IF FindFrom(text, word, i) = 0 THEN 0 ELSE FindFrom(text, word, i) + Len(word)

LEMMA BehindIs ==
  ASSUME NEW Char, NEW text \in Seq(Char), NEW word \in Seq(Char), word # << >>,
         NEW i \in 1..(Len(text) + 1)
  PROVE  LET k == FindFrom(text, word, i)
         IN  \/ k = 0 /\ Behind(text, word, i) = 0
             \/ /\ k \in i..Len(text) /\ Behind(text, word, i) = k + Len(word)
                /\ k + Len(word) \in (i + 1)..(Len(text) + 1)
<1>1. Len(text) \in Nat /\ Len(word) \in Nat \ {0} /\ i \in Nat \ {0}
  OBVIOUS
<1> QED BY <1>1, FindFromIs DEF Behind

SplitLoop(split, text, delim) ==
  split = [currStart \in 1..(Len(text) + 1) |->
             LET currEnd == FindFrom(text, delim, currStart)
             IN  IF currEnd = 0 THEN <<From(text, currStart)>>
                 ELSE <<SubSeq(text, currStart, currEnd - 1)>> \o split[currEnd + Len(delim)]]

LEMMA SplitIs ==
  ASSUME NEW Char, NEW text \in Seq(Char), NEW delim \in Seq(Char), delim # << >>
  PROVE  \E split :
           /\ \A i \in 1..(Len(text) + 1) :
                split[i] = LET k == FindFrom(text, delim, i)
                           IN  IF k = 0 THEN <<From(text, i)>>
                               ELSE <<SubSeq(text, i, k - 1)>> \o split[k + Len(delim)]
           /\ Split(text, delim) = split[1]
<1> DEFINE m == Len(text) + 1
           to == [i \in 1..m |-> Behind(text, delim, i)]
           base == [i \in 1..m |-> <<From(text, i)>>]
           front == [i \in 1..m |-> <<SubSeq(text, i, FindFrom(text, delim, i) - 1)>>]
<1>1. m \in Nat /\ Len(delim) \in Nat
  OBVIOUS
<1>2. Forward(to, m)
  BY BehindIs DEF Forward
<1>3. PICK f : Loop(f, m, to, base, front)
  <2> HIDE DEF m, to, base, front
  <2> QED BY <1>1, <1>2, LoopExists, Zenon
<1>4. \A i \in 1..m :
        (IF to[i] = 0 THEN base[i] ELSE front[i] \o f[to[i]])
          = LET k == FindFrom(text, delim, i)
            IN  IF k = 0 THEN <<From(text, i)>>
                ELSE <<SubSeq(text, i, k - 1)>> \o f[k + Len(delim)]
  <2> SUFFICES ASSUME NEW i \in 1..m
               PROVE  (IF to[i] = 0 THEN base[i] ELSE front[i] \o f[to[i]])
                        = LET k == FindFrom(text, delim, i)
                          IN  IF k = 0 THEN <<From(text, i)>>
                              ELSE <<SubSeq(text, i, k - 1)>> \o f[k + Len(delim)]
    OBVIOUS
  <2>1. FindFrom(text, delim, i) = 0 <=> to[i] = 0
    BY BehindIs
  <2>2. FindFrom(text, delim, i) # 0 => to[i] = FindFrom(text, delim, i) + Len(delim)
    BY BehindIs
  <2> QED BY <2>1, <2>2
<1> HIDE DEF to, base, front
<1>5. SplitLoop(f, text, delim)
  BY <1>3, <1>4 DEF SplitLoop, Loop
<1> DEFINE split == CHOOSE g : SplitLoop(g, text, delim)
<1>6. SplitLoop(split, text, delim)
  BY <1>5
<1>7. Split(text, delim) = split[1]
  BY Zenon DEF Split, SplitLoop
<1> HIDE DEF split
<1>8. \A i \in 1..m : split[i] = LET k == FindFrom(text, delim, i)
                                IN  IF k = 0 THEN <<From(text, i)>>
                                    ELSE <<SubSeq(text, i, k - 1)>> \o split[k + Len(delim)]
  BY <1>6 DEF SplitLoop
<1> QED BY <1>7, <1>8

ReplaceLoop(replace, text, search, replacement) ==
  replace = [currStart \in 1..(Len(text) + 1) |->
               LET currEnd == FindFrom(text, search, currStart)
               IN  IF currEnd = 0 THEN From(text, currStart)
                   ELSE SubSeq(text, currStart, currEnd - 1) \o replacement
                          \o replace[currEnd + Len(search)]]

LEMMA ReplaceIs ==
  ASSUME NEW Char, NEW text \in Seq(Char), NEW search \in Seq(Char), search # << >>,
         NEW replacement
  PROVE  \E replace :
           /\ \A i \in 1..(Len(text) + 1) :
                replace[i] = LET k == FindFrom(text, search, i)
                             IN  IF k = 0 THEN From(text, i)
                                 ELSE SubSeq(text, i, k - 1) \o replacement
                                        \o replace[k + Len(search)]
           /\ Replace(text, search, replacement) = replace[1]
<1> DEFINE m == Len(text) + 1
           to == [i \in 1..m |-> Behind(text, search, i)]
           base == [i \in 1..m |-> From(text, i)]
           front == [i \in 1..m |-> SubSeq(text, i, FindFrom(text, search, i) - 1) \o replacement]
<1>1. m \in Nat /\ Len(search) \in Nat
  OBVIOUS
<1>2. Forward(to, m)
  BY BehindIs DEF Forward
<1>3. PICK f : Loop(f, m, to, base, front)
  <2> HIDE DEF m, to, base, front
  <2> QED BY <1>1, <1>2, LoopExists, Zenon
<1>4. \A i \in 1..m :
        (IF to[i] = 0 THEN base[i] ELSE front[i] \o f[to[i]])
          = LET k == FindFrom(text, search, i)
            IN  IF k = 0 THEN From(text, i)
                ELSE SubSeq(text, i, k - 1) \o replacement \o f[k + Len(search)]
  <2> SUFFICES ASSUME NEW i \in 1..m
               PROVE  (IF to[i] = 0 THEN base[i] ELSE front[i] \o f[to[i]])
                        = LET k == FindFrom(text, search, i)
                          IN  IF k = 0 THEN From(text, i)
                              ELSE SubSeq(text, i, k - 1) \o replacement \o f[k + Len(search)]
    OBVIOUS
  <2>1. FindFrom(text, search, i) = 0 <=> to[i] = 0
    BY BehindIs
  <2>2. FindFrom(text, search, i) # 0 => to[i] = FindFrom(text, search, i) + Len(search)
    BY BehindIs
  <2> QED BY <2>1, <2>2
<1> HIDE DEF to, base, front
<1>5. ReplaceLoop(f, text, search, replacement)
  BY <1>3, <1>4 DEF ReplaceLoop, Loop
<1> DEFINE replace == CHOOSE g : ReplaceLoop(g, text, search, replacement)
<1>6. ReplaceLoop(replace, text, search, replacement)
  BY <1>5
<1>7. Replace(text, search, replacement) = replace[1]
  BY Zenon DEF Replace, ReplaceLoop
<1> HIDE DEF replace
<1>8. \A i \in 1..m : replace[i] = LET k == FindFrom(text, search, i)
                                  IN  IF k = 0 THEN From(text, i)
                                      ELSE SubSeq(text, i, k - 1) \o replacement
                                             \o replace[k + Len(search)]
  BY <1>6 DEF ReplaceLoop
<1> QED BY <1>7, <1>8


\* What is cut off is a text, and something is left to do behind it.
LEMMA PieceIs ==
  ASSUME NEW Char, NEW text \in Seq(Char), NEW i \in 1..(Len(text) + 1),
         NEW k \in i..(Len(text) + 1)
  PROVE  /\ SubSeq(text, i, k - 1) \in Seq(Char) /\ Len(SubSeq(text, i, k - 1)) = k - i
         /\ \A h \in 1..(k - i) : SubSeq(text, i, k - 1)[h] = text[i + h - 1]
         /\ From(text, i) \in Seq(Char) /\ Len(From(text, i)) = Len(text) - i + 1
<1>1. /\ Len(text) \in Nat /\ i \in Int /\ k - 1 \in Int /\ Len(text) \in Int
      /\ \A h \in i..(k - 1) : text[h] \in Char
      /\ \A h \in i..Len(text) : text[h] \in Char
  OBVIOUS
<1>2. /\ SubSeq(text, i, k - 1) \in Seq(Char)
      /\ Len(SubSeq(text, i, k - 1)) = IF i <= k - 1 THEN (k - 1) - i + 1 ELSE 0
      /\ \A h \in 1..((k - 1) - i + 1) : SubSeq(text, i, k - 1)[h] = text[i + h - 1]
  BY <1>1, SubSeqProperties
<1>3. /\ From(text, i) \in Seq(Char)
      /\ Len(From(text, i)) = IF i <= Len(text) THEN Len(text) - i + 1 ELSE 0
  BY <1>1, SubSeqProperties DEF From
<1> QED BY <1>1, <1>2, <1>3

\* The words from each place on: one, or one with those behind the delimiter it ends at.
WordsFrom(split, text, delim) ==
  \A i \in 1..(Len(text) + 1) :
    \/ FindFrom(text, delim, i) = 0 /\ split[i] = <<From(text, i)>>
    \/ /\ FindFrom(text, delim, i) \in i..Len(text)
       /\ FindFrom(text, delim, i) + Len(delim) \in (i + 1)..(Len(text) + 1)
       /\ split[i] = <<SubSeq(text, i, FindFrom(text, delim, i) - 1)>>
                       \o split[FindFrom(text, delim, i) + Len(delim)]

LEMMA SplitWords ==
  ASSUME NEW Char, NEW text \in Seq(Char), NEW delim \in Seq(Char), delim # << >>
  PROVE  \E split :
           /\ WordsFrom(split, text, delim)
           /\ \A i \in 1..(Len(text) + 1) : split[i] \in Seq(Seq(Char)) /\ split[i] # << >>
           /\ Split(text, delim) = split[1]
<1> DEFINE m == Len(text) + 1
           K(i) == FindFrom(text, delim, i)
<1>1. PICK split :
        /\ \A i \in 1..m : split[i] = LET k == K(i)
                                      IN  IF k = 0 THEN <<From(text, i)>>
                                          ELSE <<SubSeq(text, i, k - 1)>> \o split[k + Len(delim)]
        /\ Split(text, delim) = split[1]
  BY SplitIs, ZenonT(60)
<1>2. \A i \in 1..m : \/ K(i) = 0
                      \/ K(i) \in i..Len(text) /\ K(i) + Len(delim) \in (i + 1)..m
  BY BehindIs
<1>3. m \in Nat
  OBVIOUS
<1> HIDE DEF m, K
<1> DEFINE Bad == {i \in 1..m : ~(split[i] \in Seq(Seq(Char)) /\ split[i] # << >>)}
<1>4. Bad = {}
  <2> SUFFICES ASSUME Bad # {} PROVE FALSE
    OBVIOUS
  <2>1. PICK i \in Bad : \A j \in Bad : j <= i
    <3>1. Bad \subseteq 0..m
      BY <1>3
    <3> HIDE DEF Bad
    <3> QED BY <1>3, <3>1, LargestIs, Zenon
  <2>2. CASE K(i) = 0
    <3>1. From(text, i) \in Seq(Char)
      BY PieceIs DEF m
    <3>2. <<From(text, i)>> \in Seq(Seq(Char)) /\ <<From(text, i)>> # << >>
      BY <3>1
    <3> QED BY <1>1, <2>2, <3>2
  <2>3. CASE K(i) \in i..Len(text) /\ K(i) + Len(delim) \in (i + 1)..m
    <3> DEFINE word == SubSeq(text, i, K(i) - 1)
               rest == split[K(i) + Len(delim)]
    <3>1. word \in Seq(Char)
      BY <2>3, PieceIs DEF m
    <3>2. rest \in Seq(Seq(Char))
      <4>1. K(i) + Len(delim) \in 1..m /\ ~(K(i) + Len(delim) <= i)
        BY <1>3, <2>3
      <4> QED BY <2>1, <4>1
    <3>3. split[i] = <<word>> \o rest
      <4>1. i \in 1..m /\ K(i) # 0
        BY <2>3
      <4> QED BY <1>1, <4>1
    <3> HIDE DEF word, rest
    <3>4. /\ <<word>> \o rest \in Seq(Seq(Char)) /\ Len(<<word>> \o rest) = Len(rest) + 1
          /\ Len(rest) \in Nat
      BY <3>1, <3>2, ConsIs
    <3>5. Len(split[i]) # 0
      BY <3>3, <3>4
    <3>6. split[i] # << >>
      BY <3>5
    <3> QED BY <3>3, <3>4, <3>6
  <2> QED BY <1>2, <2>2, <2>3
<1>5. \A i \in 1..m : \/ K(i) = 0 /\ split[i] = <<From(text, i)>>
                      \/ /\ K(i) \in i..Len(text) /\ K(i) + Len(delim) \in (i + 1)..m
                         /\ split[i] = <<SubSeq(text, i, K(i) - 1)>> \o split[K(i) + Len(delim)]
  <2> SUFFICES ASSUME NEW i \in 1..m, K(i) # 0
               PROVE  /\ K(i) \in i..Len(text) /\ K(i) + Len(delim) \in (i + 1)..m
                      /\ split[i] = <<SubSeq(text, i, K(i) - 1)>> \o split[K(i) + Len(delim)]
    BY <1>1
  <2> QED BY <1>1, <1>2
<1>6. WordsFrom(split, text, delim)
  BY <1>5 DEF WordsFrom, m, K
<1> QED BY <1>1, <1>4, <1>6 DEF m

\* replace() is a split() at the text searched and a join() with the other one, for
\* all texts: parseReplace and parseSplit find the same hits, whatever the text
\* searched for, and however it overlaps itself.
THEOREM ReplacesAsSplitAndJoin ==
  ASSUME NEW Char, NEW text \in Seq(Char), NEW search \in Seq(Char), search # << >>,
         NEW replacement \in Seq(Char)
  PROVE  Replace(text, search, replacement) = Join(Split(text, search), replacement)
<1>0. \A s, t, u \in Seq(Char) : (s \o t) \o u = s \o (t \o u)
  BY ConcatAssoc, SMTT(30)
<1> DEFINE m == Len(text) + 1
           K(i) == FindFrom(text, search, i)
<1>a. PICK split :
        /\ WordsFrom(split, text, search)
        /\ \A i \in 1..m : split[i] \in Seq(Seq(Char)) /\ split[i] # << >>
        /\ Split(text, search) = split[1]
  BY SplitWords, Zenon
<1>1. /\ \A i \in 1..m : \/ K(i) = 0 /\ split[i] = <<From(text, i)>>
                         \/ /\ K(i) \in i..Len(text) /\ K(i) + Len(search) \in (i + 1)..m
                            /\ split[i] = <<SubSeq(text, i, K(i) - 1)>> \o split[K(i) + Len(search)]
      /\ \A i \in 1..m : split[i] \in Seq(Seq(Char)) /\ split[i] # << >>
      /\ Split(text, search) = split[1]
  BY <1>a DEF WordsFrom
<1>2. PICK replace :
        /\ \A i \in 1..m : replace[i] = LET k == K(i)
                                        IN  IF k = 0 THEN From(text, i)
                                            ELSE SubSeq(text, i, k - 1) \o replacement
                                                   \o replace[k + Len(search)]
        /\ Replace(text, search, replacement) = replace[1]
  BY ReplaceIs
<1>3. m \in Nat /\ 1 \in 1..m
  OBVIOUS
<1>4. \A i \in 1..m : From(text, i) \in Seq(Char)
  BY PieceIs
<1>5. \A i \in 1..m : K(i) \in i..Len(text) => SubSeq(text, i, K(i) - 1) \in Seq(Char)
  BY PieceIs
<1> HIDE DEF m, K
<1> DEFINE Bad == {i \in 1..m : replace[i] # Join(split[i], replacement)}
<1>6. Bad = {}
  <2> SUFFICES ASSUME Bad # {} PROVE FALSE
    OBVIOUS
  <2>1. PICK i \in Bad : \A j \in Bad : j <= i
    <3>1. Bad \subseteq 0..m
      BY <1>3
    <3> HIDE DEF Bad
    <3> QED BY <1>3, <3>1, LargestIs, Zenon
  <2>2. CASE K(i) = 0
    <3>1. split[i] = <<From(text, i)>> /\ replace[i] = From(text, i)
      <4>1. i \in 1..m /\ ~(K(i) \in i..Len(text))
        BY <2>2
      <4> QED BY <1>1, <1>2, <2>2, <4>1
    <3>2. Join(<<From(text, i)>>, replacement) = From(text, i)
      BY <1>4, JoinOne
    <3> QED BY <3>1, <3>2
  <2>3. CASE K(i) # 0
    <3> DEFINE word == SubSeq(text, i, K(i) - 1)
               j == K(i) + Len(search)
    <3>1. K(i) \in i..Len(text) /\ j \in (i + 1)..m
      BY <1>1, <2>3
    <3>2. j \in 1..m /\ ~(j <= i)
      BY <1>3, <3>1
    <3>3. replace[j] = Join(split[j], replacement)
      BY <2>1, <3>2
    <3>4. word \in Seq(Char)
      BY <1>5, <3>1
    <3>5. split[j] \in Seq(Seq(Char)) /\ split[j] # << >>
      BY <1>1, <3>2
    <3>6. split[i] = <<word>> \o split[j]
      BY <1>1, <2>3
    <3>7. replace[i] = word \o replacement \o replace[j]
      BY <1>2, <2>3
    <3> HIDE DEF word, j
    <3>8. Join(<<word>> \o split[j], replacement) = word \o replacement \o Join(split[j], replacement)
      BY <3>4, <3>5, JoinCons, Zenon
    <3> QED BY <3>3, <3>6, <3>7, <3>8, Zenon DEF Bad
  <2> QED BY <2>2, <2>3
<1> QED BY <1>1, <1>2, <1>3, <1>6, Zenon

\* k is where word is found in text from i on.
FoundAt(k, text, word, i) ==
  LET last == Len(text) - Len(word) + 1
  IN  \/ /\ k = 0
         /\ \A h \in i..last : SubSeq(text, h, h + Len(word) - 1) # word
      \/ /\ k \in i..last /\ k \in Nat \ {0}
         /\ SubSeq(text, k, k + Len(word) - 1) = word
         /\ \A h \in i..(k - 1) : SubSeq(text, h, h + Len(word) - 1) # word

LEMMA FoundIs ==
  ASSUME NEW text, NEW word, Len(text) \in Nat, Len(word) \in Nat, NEW i \in Nat \ {0}
  PROVE  FoundAt(FindFrom(text, word, i), text, word, i)
BY FindFromIs, ZenonT(60) DEF FoundAt

\* What is found in a piece of a text is what is found there in the text.
LEMMA FoundInPiece ==
  ASSUME NEW Char, NEW text \in Seq(Char), NEW word \in Seq(Char), word # << >>,
         NEW i \in 1..(Len(text) + 1), NEW end \in (i - 1)..Len(text)
  PROVE  LET k == FindFrom(text, word, i)
             found == Find(SubSeq(text, i, end), word)
         IN  /\ k = 0 => found = 0
             /\ k # 0 /\ end = k + Len(word) - 1 => found = k - i + 1
<1> DEFINE k == FindFrom(text, word, i)
           n == Len(text)
           w == Len(word)
           piece == SubSeq(text, i, end)
           found == Find(piece, word)
<1>1. /\ n \in Nat /\ w \in Nat \ {0} /\ i \in 1..(n + 1) /\ end \in (i - 1)..n
  OBVIOUS
<1>2. piece \in Seq(Char) /\ Len(piece) = end - i + 1
  <2>1. end + 1 \in i..(n + 1) /\ (end + 1) - 1 = end
    BY <1>1
  <2> QED BY <2>1, PieceIs
<1>3. \A h \in 1..(Len(piece) - w + 1) :
        /\ i + h - 1 \in i..(n - w + 1)
        /\ SubSeq(piece, h, h + w - 1) = SubSeq(text, i + h - 1, (i + h - 1) + w - 1)
  <2> SUFFICES ASSUME NEW h \in 1..(Len(piece) - w + 1)
               PROVE  /\ i + h - 1 \in i..(n - w + 1)
                      /\ SubSeq(piece, h, h + w - 1)
                           = SubSeq(text, i + h - 1, (i + h - 1) + w - 1)
    OBVIOUS
  <2>1. /\ h \in 1..(end - i + 1) /\ h + w - 1 \in 1..(end - i + 1)
        /\ i \in 1..n /\ end \in 1..n
        /\ i + (h + w - 1) - 1 = (i + h - 1) + w - 1 /\ i + h - 1 \in i..(n - w + 1)
    BY <1>1, <1>2
  <2>2. SubSeq(piece, h, h + w - 1) = SubSeq(text, i + h - 1, i + (h + w - 1) - 1)
    <3> DEFINE b == h + w - 1
    <3>1. b \in 1..(end - i + 1) /\ h \in 1..(end - i + 1) /\ i \in 1..Len(text) /\ end \in 1..Len(text)
      BY <2>1
    <3> HIDE DEF b
    <3>2. SubSeq(SubSeq(text, i, end), h, b) = SubSeq(text, i + h - 1, i + b - 1)
      BY <1>2, <3>1, SubSeqOfSubSeq
    <3> QED BY <3>2 DEF b
  <2> QED BY <2>1, <2>2
<1> DEFINE last == Len(piece) - w + 1
<1>4. \/ /\ found = 0
         /\ \A h \in 1..last : SubSeq(piece, h, h + w - 1) # word
      \/ /\ found \in 1..last /\ found \in Nat \ {0}
         /\ SubSeq(piece, found, found + w - 1) = word
         /\ \A h \in 1..(found - 1) : SubSeq(piece, h, h + w - 1) # word
  <2>1. Len(piece) \in Nat /\ 1 \in Nat \ {0}
    BY <1>2
  <2> HIDE DEF piece
  <2>2. FoundAt(found, piece, word, 1)
    BY <1>1, <2>1, FoundIs, Zenon DEF Find
  <2> QED BY <2>2 DEF FoundAt
<1>5. \/ /\ k = 0
         /\ \A h \in i..(n - w + 1) : SubSeq(text, h, h + w - 1) # word
      \/ /\ k \in i..(n - w + 1) /\ k \in Nat \ {0}
         /\ SubSeq(text, k, k + w - 1) = word
         /\ \A h \in i..(k - 1) : SubSeq(text, h, h + w - 1) # word
  <2>1. i \in Nat \ {0}
    BY <1>1
  <2>2. FoundAt(k, text, word, i)
    BY <1>1, <2>1, FoundIs, Zenon
  <2> QED BY <2>2 DEF FoundAt
<1> HIDE DEF k, found, piece, n, w
<1>6. ASSUME k = 0 PROVE found = 0
  <2>1. \A h \in i..(n - w + 1) : SubSeq(text, h, h + w - 1) # word
    BY <1>5, <1>6
  <2>2. \A h \in 1..last : SubSeq(piece, h, h + w - 1) # word
    BY <1>3, <2>1
  <2> QED BY <1>4, <2>2
<1>7. ASSUME k # 0, end = k + w - 1 PROVE found = k - i + 1
  <2>1. /\ k \in i..(n - w + 1) /\ k \in Nat \ {0} /\ SubSeq(text, k, k + w - 1) = word
        /\ \A h \in i..(k - 1) : SubSeq(text, h, h + w - 1) # word
    BY <1>5, <1>7
  <2>2. k - i + 1 \in 1..last /\ i + (k - i + 1) - 1 = k /\ last = k - i + 1
    BY <1>1, <1>2, <1>7, <2>1
  <2>3. SubSeq(piece, k - i + 1, (k - i + 1) + w - 1) = word
    BY <1>3, <2>1, <2>2
  <2>4. found \in 1..last /\ SubSeq(piece, found, found + w - 1) = word
    BY <1>4, <2>2, <2>3
  <2>5. SubSeq(text, i + found - 1, (i + found - 1) + w - 1) = word
    BY <1>3, <2>4
  <2>6. i + found - 1 \in i..k
    BY <1>1, <2>1, <2>2, <2>4
  <2>7. ~(i + found - 1 \in i..(k - 1))
    BY <2>1, <2>5
  <2> QED BY <1>1, <2>1, <2>4, <2>6, <2>7
<1> QED BY <1>6, <1>7 DEF k, found, piece, w

\* split() cuts a text at every delimiter, from left to right, and join() puts together
\* again what was cut: for all texts and every delimiter that is not empty, also where
\* the delimiter overlaps itself, begins or ends the text.
THEOREM SplitCuts ==
  ASSUME NEW Char, NEW text \in Seq(Char), NEW delim \in Seq(Char), delim # << >>
  PROVE  IsCutAt(Split(text, delim), text, delim)
<1>0. \A s, t, u \in Seq(Char) : (s \o t) \o u = s \o (t \o u)
  BY ConcatAssoc, SMTT(30)
<1> DEFINE n == Len(text)
           w == Len(delim)
           m == n + 1
           K(i) == FindFrom(text, delim, i)
<1>a. PICK split :
        /\ WordsFrom(split, text, delim)
        /\ \A i \in 1..m : split[i] \in Seq(Seq(Char)) /\ split[i] # << >>
        /\ Split(text, delim) = split[1]
  BY SplitWords, Zenon
<1>1. /\ \A i \in 1..m : \/ K(i) = 0 /\ split[i] = <<From(text, i)>>
                         \/ /\ K(i) \in i..n /\ K(i) + w \in (i + 1)..m
                            /\ split[i] = <<SubSeq(text, i, K(i) - 1)>> \o split[K(i) + w]
      /\ \A i \in 1..m : split[i] \in Seq(Seq(Char)) /\ split[i] # << >>
      /\ Split(text, delim) = split[1]
  BY <1>a DEF WordsFrom
<1>2. n \in Nat /\ w \in Nat \ {0} /\ m \in Nat /\ 1 \in 1..m /\ From(text, 1) = text
  BY SubSeqFull DEF From
<1>3. \A i \in 1..m : From(text, i) \in Seq(Char)
  BY PieceIs
<1>4. \A i \in 1..m : K(i) \in i..n => /\ SubSeq(text, i, K(i) - 1) \in Seq(Char)
                                       /\ Len(SubSeq(text, i, K(i) - 1)) = K(i) - i
  BY PieceIs
<1>5. \A i \in 1..m : /\ K(i) = 0 => Find(From(text, i), delim) = 0
                      /\ K(i) \in i..n /\ K(i) + w \in (i + 1)..m =>
                           /\ Find(SubSeq(text, i, K(i) + w - 1), delim) = K(i) - i + 1
                           /\ SubSeq(text, K(i), K(i) + w - 1) = delim
  <2> SUFFICES ASSUME NEW i \in 1..m
               PROVE  /\ K(i) = 0 => Find(From(text, i), delim) = 0
                      /\ K(i) \in i..n /\ K(i) + w \in (i + 1)..m =>
                           /\ Find(SubSeq(text, i, K(i) + w - 1), delim) = K(i) - i + 1
                           /\ SubSeq(text, K(i), K(i) + w - 1) = delim
    OBVIOUS
  <2>1. ASSUME K(i) = 0 PROVE Find(From(text, i), delim) = 0
    <3>1. n \in (i - 1)..Len(text)
      OBVIOUS
    <3> QED BY <2>1, <3>1, FoundInPiece DEF From
  <2>2. ASSUME K(i) \in i..n, K(i) + w \in (i + 1)..m
        PROVE  /\ Find(SubSeq(text, i, K(i) + w - 1), delim) = K(i) - i + 1
               /\ SubSeq(text, K(i), K(i) + w - 1) = delim
    <3>1. K(i) + w - 1 \in (i - 1)..Len(text) /\ K(i) # 0
      BY <2>2
    <3>2. Find(SubSeq(text, i, K(i) + w - 1), delim) = K(i) - i + 1
      BY <3>1, FoundInPiece
    <3>3. SubSeq(text, K(i), K(i) + w - 1) = delim
      <4>1. Len(text) \in Nat /\ Len(delim) \in Nat /\ i \in Nat \ {0}
        OBVIOUS
      <4> QED BY <3>1, <4>1, FindFromIs
    <3> QED BY <3>2, <3>3
  <2> QED BY <2>1, <2>2
<1>6. \A i \in 1..m : K(i) \in i..n /\ K(i) + w \in (i + 1)..m =>
        LET word == SubSeq(text, i, K(i) - 1)
        IN  /\ word \o delim = SubSeq(text, i, K(i) + w - 1)
            /\ (word \o delim) \o From(text, K(i) + w) = From(text, i)
  <2> SUFFICES ASSUME NEW i \in 1..m, K(i) \in i..n, K(i) + w \in (i + 1)..m
               PROVE  LET word == SubSeq(text, i, K(i) - 1)
                      IN  /\ word \o delim = SubSeq(text, i, K(i) + w - 1)
                          /\ (word \o delim) \o From(text, K(i) + w) = From(text, i)
    OBVIOUS
  <2> DEFINE a == K(i) - 1
             b == K(i) + w - 1
  <2>1. /\ i \in 1..(Len(text) + 1) /\ a \in (i - 1)..Len(text) /\ b \in a..Len(text)
        /\ a + 1 = K(i) /\ b \in (i - 1)..Len(text) /\ b + 1 = K(i) + w
        /\ Len(text) \in b..Len(text)
    <3> HIDE DEF K
    <3> QED BY <1>2
  <2>2. SubSeq(text, a + 1, b) = delim
    BY <1>5, <2>1
  <2> HIDE DEF a, b, K
  <2>3. SubSeq(text, i, a) \o SubSeq(text, a + 1, b) = SubSeq(text, i, b)
    BY <2>1, ConcatAdjacentSubSeq
  <2>4. SubSeq(text, i, b) \o SubSeq(text, b + 1, Len(text)) = SubSeq(text, i, Len(text))
    BY <2>1, ConcatAdjacentSubSeq
  <2>5. SubSeq(text, i, a) \o delim = SubSeq(text, i, b)
    BY <2>2, <2>3
  <2>6. SubSeq(text, i, b) \o From(text, K(i) + w) = From(text, i)
    BY <2>1, <2>4 DEF From
  <2> QED BY <2>5, <2>6 DEF a, b
<1> HIDE DEF m, n, w, K
<1> DEFINE Bad == {i \in 1..m : ~IsCutAt(split[i], From(text, i), delim)}
<1>7. Bad = {}
  <2> SUFFICES ASSUME Bad # {} PROVE FALSE
    OBVIOUS
  <2>1. PICK i \in Bad : \A j \in Bad : j <= i
    <3>1. Bad \subseteq 0..m
      BY <1>2
    <3> HIDE DEF Bad
    <3> QED BY <1>2, <3>1, LargestIs, Zenon
  <2>2. i \in 1..m /\ ~IsCutAt(split[i], From(text, i), delim)
    BY <2>1
  <2>3. CASE K(i) = 0
    <3> DEFINE rest == From(text, i)
    <3>1. split[i] = <<rest>> /\ rest \in Seq(Char) /\ Find(rest, delim) = 0
      <4>1. ~(K(i) \in i..n)
        BY <2>2, <2>3
      <4> QED BY <1>1, <1>3, <1>5, <2>2, <2>3, <4>1
    <3> HIDE DEF rest
    <3>2. Join(<<rest>>, delim) = rest
      BY <3>1, JoinOne
    <3>3. Len(<<rest>>) = 1 /\ Last(<<rest>>) = rest /\ 1..(Len(<<rest>>) - 1) = {}
      BY DEF Last
    <3>4. IsCutAt(<<rest>>, rest, delim)
      BY <3>1, <3>2, <3>3 DEF IsCutAt
    <3> QED BY <2>2, <3>1, <3>4 DEF rest
  <2>4. CASE K(i) # 0
    <3> DEFINE word == SubSeq(text, i, K(i) - 1)
               j == K(i) + w
               rest == split[j]
               all == <<word>> \o rest
               l == Len(rest)
    <3>1. K(i) \in i..n /\ j \in (i + 1)..m /\ split[i] = all
      BY <1>1, <2>2, <2>4
    <3>2. j \in 1..m /\ ~(j <= i)
      BY <1>2, <2>2, <3>1, SMTT(30)
    <3>3. IsCutAt(rest, From(text, j), delim)
      BY <2>1, <3>2
    <3>4. word \in Seq(Char) /\ Len(word) = K(i) - i
      BY <1>4, <2>2, <3>1
    <3>5. rest \in Seq(Seq(Char)) /\ rest # << >>
      BY <1>1, <3>2
    <3>6. /\ (word \o delim) \o From(text, j) = From(text, i)
          /\ Find(word \o delim, delim) = K(i) - i + 1
      BY <1>5, <1>6, <2>2, <3>1
    <3> HIDE DEF word, j, rest
    <3>7. /\ l \in Nat \ {0} /\ Len(all) = l + 1 /\ all[1] = word
          /\ \A h \in 1..l : all[h + 1] = rest[h]
      <4>1. /\ Len(all) = l + 1 /\ all[1] = word
            /\ \A h \in 1..l : all[h + 1] = rest[h]
        <5>1. \A seq \in Seq(Seq(Char)) :
                 /\ Len(<<word>> \o seq) = Len(seq) + 1 /\ (<<word>> \o seq)[1] = word
                 /\ \A h \in 1..Len(seq) : (<<word>> \o seq)[h + 1] = seq[h]
          <6> DEFINE W == Seq(Char)
          <6>1. word \in W
            BY <3>4
          <6> HIDE DEF W
          <6>2. \A seq \in Seq(W) :
                   /\ Len(<<word>> \o seq) = Len(seq) + 1 /\ (<<word>> \o seq)[1] = word
                   /\ \A h \in 1..Len(seq) : (<<word>> \o seq)[h + 1] = seq[h]
            BY <6>1
          <6> QED BY <6>2 DEF W
        <5> QED BY <3>5, <5>1, Zenon DEF all, l
      <4> QED BY <3>5, <4>1 DEF l
    <3>8. From(text, j) \in Seq(Char)
      BY <1>3, <3>2
    <3> HIDE DEF all, l
    <3>9. Join(all, delim) = From(text, i)
      <4>1. Join(all, delim) = word \o delim \o Join(rest, delim)
        BY <3>4, <3>5, JoinCons, Zenon DEF all
      <4>2. Join(rest, delim) = From(text, j)
        BY <3>3, Zenon DEF IsCutAt
      <4> QED BY <1>0, <3>4, <3>6, <3>8, <4>1, <4>2, Zenon
    <3>10. \A h \in 1..(Len(all) - 1) : Find(all[h] \o delim, delim) = Len(all[h]) + 1
      <4> SUFFICES ASSUME NEW h \in 1..(Len(all) - 1)
                   PROVE  Find(all[h] \o delim, delim) = Len(all[h]) + 1
        OBVIOUS
      <4>1. CASE h = 1
        BY <3>4, <3>6, <3>7, <4>1
      <4>2. CASE h # 1
        <5>1. h - 1 \in 1..(Len(rest) - 1) /\ h - 1 \in 1..l /\ (h - 1) + 1 = h
          BY <3>7, <4>2 DEF l
        <5>2. all[h] = rest[h - 1]
          BY <3>7, <5>1
        <5> QED BY <3>3, <5>1, <5>2 DEF IsCutAt
      <4> QED BY <4>1, <4>2
    <3>11. Find(Last(all), delim) = 0
      <4>1. Last(all) = all[l + 1] /\ Last(rest) = rest[l] /\ l \in 1..l
        BY <3>7 DEF Last, l
      <4>2. Last(all) = Last(rest)
        BY <3>7, <4>1
      <4> QED BY <3>3, <4>2 DEF IsCutAt
    <3>12. IsCutAt(all, From(text, i), delim)
      BY <3>9, <3>10, <3>11 DEF IsCutAt
    <3> QED BY <2>2, <3>1, <3>12
  <2> QED BY <2>3, <2>4
<1>8. IsCutAt(split[1], From(text, 1), delim)
  BY <1>2, <1>7
<1> QED BY <1>1, <1>2, <1>8

=============================================================================
