--------------------------- MODULE StatementsProofs ---------------------------
(***************************************************************************)
(* patternMatch matches as its comment says, whatever text and pattern,    *)
(* and so commands are executed only if the lists permit it; the clauses   *)
(* that are not run are skipped as far as they reach.                      *)
(***************************************************************************)
EXTENDS Statements, TextTheorems, FiniteSetTheorems

----------------------------------------------------------------------------
(* Numbers and stars. *)

LEMMA SkipStarsIs ==
  ASSUME NEW pattern, Len(pattern) \in Nat, NEW j \in 0..Len(pattern)
  PROVE  LET k == SkipStars(pattern, j)
         IN  /\ k \in j..Len(pattern)
             /\ \A h \in j..(k - 1) : pattern[h + 1] = Star
             /\ k = Len(pattern) \/ pattern[k + 1] # Star
<1> DEFINE m == Len(pattern)
           S == {k \in j..m : k = m \/ pattern[k + 1] # Star}
<1>1. m \in Nat /\ j \in 0..m
  OBVIOUS
<1> HIDE DEF m
<1>2. S \subseteq Nat /\ m \in S
  BY <1>1
<1>3. PICK k \in S : \A l \in S : k <= l
  BY <1>2, SmallestIs
<1>4. \A h \in j..(k - 1) : pattern[h + 1] = Star
  <2> SUFFICES ASSUME NEW h \in j..(k - 1) PROVE pattern[h + 1] = Star
    OBVIOUS
  <2>1. h \in j..m /\ ~(k <= h) /\ h # m
    BY <1>1, <1>3
  <2> QED BY <1>3, <2>1
<1>5. k \in j..m /\ (k = m \/ pattern[k + 1] # Star)
  BY <1>3
<1>6. \E x \in j..m :
        /\ \A h \in j..(x - 1) : pattern[h + 1] = Star
        /\ x = m \/ pattern[x + 1] # Star
  BY <1>4, <1>5
<1> QED BY <1>6 DEF SkipStars, m

----------------------------------------------------------------------------
(* The recursion of patternMatchInternal defines a function. *)

\* What it says of wPatternIndex j if it has been called for those behind.
Row(text, pattern, match, j) ==
  LET k == SkipStars(pattern, j)
  IN  IF j = Len(pattern) THEN {Len(text)}
      ELSE IF j = k
      THEN {i \in 0..(Len(text) - 1) :
              text[i + 1] = pattern[j + 1] /\ i + 1 \in match[j + 1]}
      ELSE IF k = Len(pattern) THEN 0..Len(text)
      ELSE {i \in 0..Len(text) : \E h \in i..(Len(text) - 1) : h \in match[k]}

Rows(text, pattern, match, k) == match = [j \in k..Len(pattern) |-> Row(text, pattern, match, j)]

LEMMA RowDepends ==
  ASSUME NEW text, NEW pattern, Len(pattern) \in Nat, NEW j \in 0..Len(pattern), NEW f, NEW g,
         \A k \in (j + 1)..Len(pattern) : f[k] = g[k]
  PROVE  Row(text, pattern, f, j) = Row(text, pattern, g, j)
<1> DEFINE m == Len(pattern)
           k == SkipStars(pattern, j)
<1>1. m \in Nat /\ j \in 0..m /\ k \in j..m
  BY SkipStarsIs
<1> HIDE DEF k
<1>2. j < k => f[k] = g[k]
  BY <1>1
<1>3. j < m => f[j + 1] = g[j + 1]
  BY <1>1
<1>4. CASE j = m
  BY <1>4 DEF Row
<1>5. CASE j # m /\ j = k
  <2>1. f[j + 1] = g[j + 1]
    BY <1>1, <1>3, <1>5
  <2> QED BY <1>5, <2>1, Zenon DEF Row, k
<1>6. CASE j # m /\ j # k
  <2>1. f[k] = g[k]
    BY <1>1, <1>2, <1>6
  <2> QED BY <1>6, <2>1, Zenon DEF Row, k
<1> QED BY <1>4, <1>5, <1>6

LEMMA RowsExist ==
  ASSUME NEW text, NEW pattern, Len(pattern) \in Nat
  PROVE  \E match : Rows(text, pattern, match, 0)
<1> DEFINE m == Len(pattern)
           Bad == {k \in 0..m : ~\E match : Rows(text, pattern, match, k)}
<1>1. m \in Nat
  OBVIOUS
<1> SUFFICES ASSUME 0 \in Bad PROVE FALSE
  BY <1>1
<1> HIDE DEF Bad
<1>2. Bad \subseteq 0..m /\ Bad # {}
  BY DEF Bad
<1>3. PICK k \in Bad : \A l \in Bad : l <= k
  BY <1>1, <1>2, LargestIs
<1>4. k \in 0..m
  BY <1>2, <1>3
<1>5. CASE k = m
  <2> DEFINE g == [j \in k..m |-> {Len(text)}]
  <2>1. \A j \in k..m : g[j] = Row(text, pattern, g, j)
    BY <1>1, <1>5 DEF Row
  <2>2. Rows(text, pattern, g, k)
    BY <2>1 DEF Rows
  <2> QED BY <1>3, <2>2 DEF Bad
<1>6. CASE k # m
  <2>1. k + 1 \in 0..m /\ ~(k + 1 <= k)
    BY <1>1, <1>4, <1>6
  <2>2. PICK f : Rows(text, pattern, f, k + 1)
    BY <1>3, <2>1 DEF Bad
  <2> DEFINE g == [j \in k..m |-> IF j = k THEN Row(text, pattern, f, k) ELSE f[j]]
  <2>3. \A j \in k..m : g[j] = Row(text, pattern, g, j)
    <3> SUFFICES ASSUME NEW j \in k..m PROVE g[j] = Row(text, pattern, g, j)
      OBVIOUS
    <3>1. j \in 0..m /\ (\A l \in (j + 1)..m : l \in k..m /\ l # k) /\ (j # k => j \in (k + 1)..m)
      BY <1>1, <1>4
    <3>2. \A l \in (j + 1)..m : f[l] = g[l]
      BY <3>1
    <3> HIDE DEF g
    <3>3. Row(text, pattern, f, j) = Row(text, pattern, g, j)
      BY <1>1, <3>1, <3>2, RowDepends
    <3>4. j # k => f[j] = Row(text, pattern, f, j)
      BY <2>2, <3>1 DEF Rows
    <3> QED BY <3>3, <3>4 DEF g
  <2>4. Rows(text, pattern, g, k)
    BY <2>3 DEF Rows
  <2> QED BY <1>3, <2>4 DEF Bad
<1> QED BY <1>5, <1>6

LEMMA PatternMatchIs ==
  ASSUME NEW text, NEW pattern, Len(pattern) \in Nat
  PROVE  \E match : /\ \A j \in 0..Len(pattern) : match[j] = Row(text, pattern, match, j)
                    /\ PatternMatch(text, pattern) <=> 0 \in match[0]
<1> DEFINE match == CHOOSE f : Rows(text, pattern, f, 0)
<1>1. Rows(text, pattern, match, 0)
  BY RowsExist
<1>2. \A j \in 0..Len(pattern) : match[j] = Row(text, pattern, match, j)
  BY <1>1 DEF Rows
<1>3. PatternMatch(text, pattern) <=> 0 \in match[0]
  BY Zenon DEF PatternMatch, Rows, Row
<1> QED BY <1>2, <1>3

----------------------------------------------------------------------------
(* Cuts of the rest of a text, from i on, for the rest of a pattern, from j on. *)

CutAt(text, pattern, cut, j) ==
  IF pattern[j + 1] = Star THEN cut[j] <= cut[j + 1]
  ELSE cut[j + 1] = cut[j] + 1 /\ text[cut[j] + 1] = pattern[j + 1]

IsCut(text, pattern, cut, i, j) ==
  /\ cut \in [j..Len(pattern) -> 0..Len(text)]
  /\ cut[j] = i /\ cut[Len(pattern)] = Len(text)
  /\ \A h \in j..(Len(pattern) - 1) : CutAt(text, pattern, cut, h)

Fits(text, pattern, i, j) == \E cut : IsCut(text, pattern, cut, i, j)

LEMMA FitsEnd ==
  ASSUME NEW text, NEW pattern, Len(text) \in Nat, Len(pattern) \in Nat, NEW i \in 0..Len(text)
  PROVE  Fits(text, pattern, i, Len(pattern)) <=> i = Len(text)
<1> DEFINE m == Len(pattern)
           n == Len(text)
<1>1. m \in Nat /\ n \in Nat /\ i \in 0..n
  OBVIOUS
<1>2. ASSUME i = n PROVE Fits(text, pattern, i, m)
  <2> DEFINE cut == [h \in m..m |-> n]
  <2>1. cut \in [m..m -> 0..n] /\ cut[m] = n /\ m..(m - 1) = {}
    BY <1>1
  <2> HIDE DEF cut
  <2>2. IsCut(text, pattern, cut, i, m)
    BY <1>2, <2>1 DEF IsCut
  <2> QED BY <2>2 DEF Fits
<1>3. ASSUME Fits(text, pattern, i, m) PROVE i = n
  BY <1>3 DEF Fits, IsCut
<1> QED BY <1>2, <1>3

\* A cut begins with a cut of what is behind the first character of the pattern.
LEMMA FitsStep ==
  ASSUME NEW text, NEW pattern, Len(text) \in Nat, Len(pattern) \in Nat,
         NEW i \in 0..Len(text), NEW j \in 0..(Len(pattern) - 1)
  PROVE  Fits(text, pattern, i, j) <=>
           \E h \in 0..Len(text) :
             /\ IF pattern[j + 1] = Star THEN i <= h ELSE h = i + 1 /\ text[i + 1] = pattern[j + 1]
             /\ Fits(text, pattern, h, j + 1)
<1> DEFINE m == Len(pattern)
           n == Len(text)
           Step(h) == IF pattern[j + 1] = Star THEN i <= h
                      ELSE h = i + 1 /\ text[i + 1] = pattern[j + 1]
<1>1. m \in Nat /\ n \in Nat /\ i \in 0..n /\ j \in 0..(m - 1)
  OBVIOUS
<1> HIDE DEF m, n
<1>2. j \in j..m /\ j + 1 \in j..m /\ j \in j..(m - 1) /\ m \in j..m /\ m \in (j + 1)..m /\ j + 1 \in (j + 1)..m
  BY <1>1
<1>3. ASSUME NEW cut, IsCut(text, pattern, cut, i, j)
      PROVE  \E h \in 0..n : Step(h) /\ Fits(text, pattern, h, j + 1)
  <2> DEFINE rest == [h \in (j + 1)..m |-> cut[h]]
  <2>1. /\ cut \in [j..m -> 0..n] /\ cut[j] = i /\ cut[m] = n
        /\ \A h \in j..(m - 1) : CutAt(text, pattern, cut, h)
    BY <1>3 DEF IsCut, m, n
  <2>2. cut[j + 1] \in 0..n /\ Step(cut[j + 1])
    BY <1>2, <2>1 DEF CutAt
  <2>3. rest \in [(j + 1)..m -> 0..n] /\ rest[j + 1] = cut[j + 1] /\ rest[m] = n
    BY <1>1, <1>2, <2>1
  <2>4. \A h \in (j + 1)..(m - 1) : CutAt(text, pattern, rest, h)
    <3> SUFFICES ASSUME NEW h \in (j + 1)..(m - 1) PROVE CutAt(text, pattern, rest, h)
      OBVIOUS
    <3>1. h \in (j + 1)..m /\ h + 1 \in (j + 1)..m /\ h \in j..(m - 1)
      BY <1>1
    <3>2. rest[h] = cut[h] /\ rest[h + 1] = cut[h + 1]
      BY <3>1
    <3> QED BY <2>1, <3>1, <3>2 DEF CutAt
  <2>5. IsCut(text, pattern, rest, cut[j + 1], j + 1)
    BY <2>3, <2>4, Zenon DEF IsCut, m, n
  <2> QED BY <2>2, <2>5 DEF Fits
<1>4. ASSUME NEW h \in 0..n, Step(h), NEW rest, IsCut(text, pattern, rest, h, j + 1)
      PROVE  Fits(text, pattern, i, j)
  <2> DEFINE cut == [x \in j..m |-> IF x = j THEN i ELSE rest[x]]
  <2>1. /\ rest \in [(j + 1)..m -> 0..n] /\ rest[j + 1] = h /\ rest[m] = n
        /\ \A x \in (j + 1)..(m - 1) : CutAt(text, pattern, rest, x)
    BY <1>4 DEF IsCut, m, n
  <2>2. cut \in [j..m -> 0..n] /\ cut[j] = i /\ cut[j + 1] = h /\ cut[m] = n
    <3>1. \A x \in j..m : x # j => x \in (j + 1)..m
      BY <1>1
    <3>2. j + 1 # j /\ m # j
      BY <1>1
    <3> QED BY <1>1, <1>2, <2>1, <3>1, <3>2
  <2>3. \A x \in j..(m - 1) : CutAt(text, pattern, cut, x)
    <3> SUFFICES ASSUME NEW x \in j..(m - 1) PROVE CutAt(text, pattern, cut, x)
      OBVIOUS
    <3>1. CASE x = j
      <4> HIDE DEF cut
      <4> QED BY <1>4, <2>2, <3>1 DEF CutAt
    <3>2. CASE x # j
      <4>1. x \in (j + 1)..(m - 1) /\ x \in j..m /\ x + 1 \in j..m /\ x + 1 # j
        BY <1>1, <3>2
      <4>2. cut[x] = rest[x] /\ cut[x + 1] = rest[x + 1]
        BY <3>2, <4>1
      <4> QED BY <2>1, <4>1, <4>2 DEF CutAt
    <3> QED BY <3>1, <3>2
  <2>4. IsCut(text, pattern, cut, i, j)
    BY <2>2, <2>3, Zenon DEF IsCut, m, n
  <2> QED BY <2>4 DEF Fits
<1>5. Fits(text, pattern, i, j) => \E h \in 0..n : Step(h) /\ Fits(text, pattern, h, j + 1)
  BY <1>3 DEF Fits
<1>6. (\E h \in 0..n : Step(h) /\ Fits(text, pattern, h, j + 1)) => Fits(text, pattern, i, j)
  BY <1>4 DEF Fits
<1> QED BY <1>5, <1>6 DEF n

LEMMA FitsChar ==
  ASSUME NEW text, NEW pattern, Len(text) \in Nat, Len(pattern) \in Nat,
         NEW i \in 0..Len(text), NEW j \in 0..(Len(pattern) - 1), pattern[j + 1] # Star
  PROVE  Fits(text, pattern, i, j) <=>
           i < Len(text) /\ text[i + 1] = pattern[j + 1] /\ Fits(text, pattern, i + 1, j + 1)
<1> DEFINE n == Len(text)
<1>1. n \in Nat /\ i \in 0..n
  OBVIOUS
<1>2. Fits(text, pattern, i, j) <=>
        \E h \in 0..n : h = i + 1 /\ text[i + 1] = pattern[j + 1] /\ Fits(text, pattern, h, j + 1)
  BY FitsStep
<1> HIDE DEF n
<1>3. i + 1 \in 0..n <=> i < n
  BY <1>1
<1> QED BY <1>2, <1>3, Zenon DEF n

LEMMA FitsStar ==
  ASSUME NEW text, NEW pattern, Len(text) \in Nat, Len(pattern) \in Nat,
         NEW i \in 0..Len(text), NEW j \in 0..(Len(pattern) - 1), pattern[j + 1] = Star
  PROVE  Fits(text, pattern, i, j) <=>
           \E h \in i..Len(text) : Fits(text, pattern, h, j + 1)
<1> DEFINE n == Len(text)
<1>1. n \in Nat /\ i \in 0..n
  OBVIOUS
<1>2. Fits(text, pattern, i, j) <=>
        \E h \in 0..n : i <= h /\ Fits(text, pattern, h, j + 1)
  BY FitsStep
<1> HIDE DEF n
<1>3. \A h : h \in i..n <=> h \in 0..n /\ i <= h
  BY <1>1
<1> QED BY <1>2, <1>3, Zenon DEF n

\* Several stars in a row are one.
LEMMA FitsStars ==
  ASSUME NEW text, NEW pattern, Len(text) \in Nat, Len(pattern) \in Nat,
         NEW k \in 0..Len(pattern), NEW j \in 0..Len(pattern), j < k,
         \A h \in j..(k - 1) : pattern[h + 1] = Star,
         NEW i \in 0..Len(text)
  PROVE  Fits(text, pattern, i, j) <=> \E h \in i..Len(text) : Fits(text, pattern, h, k)
<1> DEFINE m == Len(pattern)
           n == Len(text)
           Says(x, l) == Fits(text, pattern, x, l) <=> \E h \in x..n : Fits(text, pattern, h, k)
           Bad == {l \in j..(k - 1) : \E x \in 0..n : ~Says(x, l)}
<1>1. m \in Nat /\ n \in Nat /\ k \in 0..m /\ j \in 0..m /\ j < k
  OBVIOUS
<1> SUFFICES ASSUME Bad # {} PROVE FALSE
  <2>1. j \in j..(k - 1)
    BY <1>1
  <2> QED BY <2>1
<1> HIDE DEF Bad, m, n, Says
<1>2. Bad \subseteq 0..m
  BY <1>1 DEF Bad
<1>3. PICK l \in Bad : \A b \in Bad : b <= l
  BY <1>1, <1>2, LargestIs
<1>4. PICK x \in 0..n : ~Says(x, l)
  BY <1>3 DEF Bad
<1>5. l \in j..(k - 1) /\ pattern[l + 1] = Star
  BY <1>3 DEF Bad
<1>6. l \in 0..(m - 1) /\ l + 1 \in 0..m
  BY <1>1, <1>5
<1>7. Fits(text, pattern, x, l) <=> \E h \in x..n : Fits(text, pattern, h, l + 1)
  BY <1>5, <1>6, FitsStar DEF m, n
<1>8. CASE l + 1 = k
  BY <1>4, <1>7, <1>8 DEF Says
<1>9. CASE l + 1 # k
  <2>1. l + 1 \in j..(k - 1) /\ ~(l + 1 <= l)
    BY <1>1, <1>5, <1>9
  <2>2. \A h \in 0..n : Says(h, l + 1)
    BY <1>3, <2>1 DEF Bad
  <2>3. \A h \in x..n : h \in 0..n /\ h \in h..n /\ \A g \in h..n : g \in x..n
    BY <1>1
  <2>4. Fits(text, pattern, x, l) => \E h \in x..n : Fits(text, pattern, h, k)
    BY <1>7, <2>2, <2>3 DEF Says
  <2>5. x \in x..n
    BY <1>1
  <2>6. (\E h \in x..n : Fits(text, pattern, h, k)) => Fits(text, pattern, x, l)
    BY <1>7, <2>2, <2>3, <2>5 DEF Says
  <2> QED BY <1>4, <2>4, <2>6 DEF Says
<1> QED BY <1>8, <1>9

----------------------------------------------------------------------------
(* The recursion and the cuts agree. *)

LEMMA RowFits ==
  ASSUME NEW text, NEW pattern, Len(text) \in Nat, Len(pattern) \in Nat,
         NEW j \in 0..Len(pattern), NEW match, match[j] = Row(text, pattern, match, j),
         \A k \in (j + 1)..Len(pattern) : \A i \in 0..Len(text) :
           i \in match[k] <=> Fits(text, pattern, i, k),
         NEW i \in 0..Len(text)
  PROVE  i \in match[j] <=> Fits(text, pattern, i, j)
<1> DEFINE m == Len(pattern)
           n == Len(text)
           k == SkipStars(pattern, j)
<1>1. m \in Nat /\ n \in Nat /\ i \in 0..n /\ j \in 0..m
  OBVIOUS
<1>2. /\ k \in j..m
      /\ \A h \in j..(k - 1) : pattern[h + 1] = Star
      /\ k = m \/ pattern[k + 1] # Star
  BY SkipStarsIs
<1> HIDE DEF k
<1>3. CASE j = m
  <2>1. match[j] = {n}
    BY <1>3 DEF Row
  <2> QED BY <1>3, <2>1, FitsEnd
<1>4. CASE j # m /\ j = k
  <2>1. match[j] = {x \in 0..(n - 1) : text[x + 1] = pattern[j + 1] /\ x + 1 \in match[j + 1]}
    BY <1>4 DEF Row, k
  <2>2. j \in 0..(m - 1) /\ j + 1 \in (j + 1)..m /\ pattern[j + 1] # Star
    BY <1>1, <1>2, <1>4
  <2>3. Fits(text, pattern, i, j) <=>
          i < n /\ text[i + 1] = pattern[j + 1] /\ Fits(text, pattern, i + 1, j + 1)
    BY <2>2, FitsChar
  <2>4. i < n => i + 1 \in 0..n
    BY <1>1
  <2>5. i < n => (i + 1 \in match[j + 1] <=> Fits(text, pattern, i + 1, j + 1))
    BY <2>2, <2>4
  <2>6. i \in 0..(n - 1) <=> i < n
    BY <1>1
  <2> QED BY <2>1, <2>3, <2>5, <2>6, Zenon
<1>5. CASE j # m /\ j # k
  <2>1. j < k /\ k \in 0..m /\ (k = m \/ k \in 0..(m - 1)) /\ k \in (j + 1)..m
    BY <1>1, <1>2, <1>5
  <2>2. Fits(text, pattern, i, j) <=> \E h \in i..n : Fits(text, pattern, h, k)
    BY <1>2, <2>1, FitsStars
  <2>3. CASE k = m
    <3>1. match[j] = 0..n
      BY <1>5, <2>3, Zenon DEF Row, k
    <3>2. n \in i..n /\ n \in 0..n
      BY <1>1
    <3>3. Fits(text, pattern, n, m)
      BY <3>2, FitsEnd
    <3> QED BY <2>2, <2>3, <3>1, <3>2, <3>3, Zenon
  <2>4. CASE k # m
    <3>1. match[j] = {x \in 0..n : \E h \in x..(n - 1) : h \in match[k]}
      BY <1>5, <2>4, Zenon DEF Row, k
    <3>2. k \in 0..(m - 1) /\ pattern[k + 1] # Star
      BY <1>2, <2>1, <2>4
    <3>3. ASSUME NEW h \in i..n, Fits(text, pattern, h, k)
          PROVE  h \in i..(n - 1) /\ h \in match[k]
      <4>1. h \in 0..n
        BY <1>1
      <4>2. h < n
        BY <3>2, <3>3, <4>1, FitsChar
      <4>3. h \in match[k]
        BY <2>1, <3>3, <4>1
      <4> QED BY <1>1, <4>2, <4>3
    <3>4. ASSUME NEW h \in i..(n - 1), h \in match[k]
          PROVE  h \in i..n /\ Fits(text, pattern, h, k)
      <4>1. h \in 0..n /\ h \in i..n
        BY <1>1
      <4> QED BY <2>1, <3>4, <4>1
    <3> QED BY <1>1, <2>2, <3>1, <3>3, <3>4, Zenon
  <2> QED BY <2>3, <2>4
<1> QED BY <1>3, <1>4, <1>5

LEMMA MatchesExactly ==
  \A text, pattern : Len(text) \in Nat /\ Len(pattern) \in Nat =>
    (PatternMatch(text, pattern) <=> MatchesLikeAShell(text, pattern))
<1> SUFFICES ASSUME NEW text, NEW pattern, Len(text) \in Nat, Len(pattern) \in Nat
             PROVE  PatternMatch(text, pattern) <=> MatchesLikeAShell(text, pattern)
  OBVIOUS
<1> DEFINE m == Len(pattern)
           n == Len(text)
<1>1. PICK match : /\ \A j \in 0..m : match[j] = Row(text, pattern, match, j)
                   /\ PatternMatch(text, pattern) <=> 0 \in match[0]
  BY PatternMatchIs
<1> DEFINE Right(j) == \A i \in 0..n : i \in match[j] <=> Fits(text, pattern, i, j)
           Bad == {j \in 0..m : ~Right(j)}
<1>2. \A j \in 0..m : (\A k \in (j + 1)..m : Right(k)) => Right(j)
  BY <1>1, RowFits
<1>3. m \in Nat /\ n \in Nat
  OBVIOUS
<1> HIDE DEF m, n, Right, Bad
<1>4. Bad = {}
  <2> SUFFICES ASSUME Bad # {} PROVE FALSE
    OBVIOUS
  <2>1. Bad \subseteq 0..m
    BY DEF Bad
  <2>2. PICK j \in Bad : \A k \in Bad : k <= j
    BY <1>3, <2>1, LargestIs
  <2>3. j \in 0..m /\ ~Right(j)
    BY DEF Bad
  <2>4. \A k \in (j + 1)..m : k \in 0..m /\ ~(k <= j)
    BY <1>3, <2>3
  <2>5. \A k \in (j + 1)..m : Right(k)
    BY <2>2, <2>4 DEF Bad
  <2> QED BY <1>2, <2>3, <2>5
<1>5. 0 \in 0..m /\ 0 \in 0..n
  BY <1>3
<1>6. 0 \in match[0] <=> Fits(text, pattern, 0, 0)
  BY <1>4, <1>5 DEF Right, Bad
<1>7. MatchesLikeAShell(text, pattern) <=> Fits(text, pattern, 0, 0)
  BY Zenon DEF MatchesLikeAShell, Fits, IsCut, CutAt
<1> QED BY <1>1, <1>6, <1>7

\* patternMatch returns true exactly if the pattern matches the text as the comment on it
\* says, where * stands for any characters: for texts and patterns of any length, however many
\* stars there are and wherever they stand.  Trying the rests of the text that are not
\* empty is enough, and so is taking stars in a row for one.
THEOREM MatchingIsExact ==
  ASSUME NEW Char, NEW text \in Seq(Char), NEW pattern \in Seq(Char)
  PROVE  PatternMatch(text, pattern) <=> MatchesLikeAShell(text, pattern)
BY MatchesExactly

----------------------------------------------------------------------------
(* Permission. *)

\* The characters up to the first blank are the first of the words that blanks separate.
LEMMA FirstWordIs ==
  ASSUME NEW Char, Blank \in Char, NEW cmdLine \in Seq(Char)
  PROVE  FirstWord(cmdLine) = Head(Split(cmdLine, <<Blank>>))
<1> SUFFICES ASSUME NEW blank, blank = <<Blank>>
             PROVE  FirstWord(cmdLine) = Head(Split(cmdLine, blank))
  OBVIOUS
<1> DEFINE n == Len(cmdLine)
           k == FindFrom(cmdLine, blank, 1)
<1>1. blank \in Seq(Char) /\ blank # << >> /\ n \in Nat /\ Len(blank) = 1
  OBVIOUS
<1>2. PICK split :
        /\ WordsFrom(split, cmdLine, blank)
        /\ \A i \in 1..(n + 1) : split[i] \in Seq(Seq(Char)) /\ split[i] # << >>
        /\ Split(cmdLine, blank) = split[1]
  BY <1>1, SplitWords, Zenon
<1>3. 1 \in 1..(n + 1)
  BY <1>1
<1>4. \A i \in 1..n : SubSeq(cmdLine, i, i + Len(blank) - 1) = blank <=> cmdLine[i] = Blank
  <2> SUFFICES ASSUME NEW i \in 1..n
               PROVE  SubSeq(cmdLine, i, i + Len(blank) - 1) = blank <=> cmdLine[i] = Blank
    OBVIOUS
  <2>1. i + Len(blank) - 1 = i
    BY <1>1
  <2>2. SubSeq(cmdLine, i, i) = <<cmdLine[i]>>
    <3>1. /\ SubSeq(cmdLine, i, i) \in Seq(Char) /\ Len(SubSeq(cmdLine, i, i)) = 1
          /\ SubSeq(cmdLine, i, i)[1] = cmdLine[i]
      <4>1. i + 1 \in i..(n + 1) /\ (i + 1) - 1 = i /\ i \in 1..(n + 1) /\ 1 \in 1..((i + 1) - i)
            /\ i + 1 - 1 = i
        BY <1>1
      <4>2. /\ SubSeq(cmdLine, i, (i + 1) - 1) \in Seq(Char)
            /\ Len(SubSeq(cmdLine, i, (i + 1) - 1)) = (i + 1) - i
            /\ \A h \in 1..((i + 1) - i) : SubSeq(cmdLine, i, (i + 1) - 1)[h] = cmdLine[i + h - 1]
        BY <4>1, PieceIs
      <4> QED BY <4>1, <4>2
    <3> DEFINE piece == SubSeq(cmdLine, i, i)
    <3> HIDE DEF piece
    <3>2. piece \in Seq(Char) /\ Len(piece) = 1 /\ piece[1] = cmdLine[i]
      BY <3>1 DEF piece
    <3>3. piece = <<cmdLine[i]>>
      BY <3>2
    <3> QED BY <3>3 DEF piece
  <2> QED BY <2>1, <2>2
<1>5. k = SelectInSeq(cmdLine, LAMBDA c : c = Blank)
  <2>1. 1..(n - Len(blank) + 1) = 1..n
    BY <1>1
  <2>2. {i \in 1..(n - Len(blank) + 1) : SubSeq(cmdLine, i, i + Len(blank) - 1) = blank}
          = {i \in 1..n : cmdLine[i] = Blank}
    BY <1>4, <2>1
  <2> QED BY <2>2 DEF FindFrom, SelectInSeq
<1>6. FirstWord(cmdLine) = IF k = 0 THEN cmdLine ELSE SubSeq(cmdLine, 1, k - 1)
  BY <1>5 DEF FirstWord
<1> DEFINE word == SubSeq(cmdLine, 1, k - 1)
           rest == split[k + Len(blank)]
<1>a. \/ k = 0 /\ split[1] = <<From(cmdLine, 1)>>
      \/ /\ k \in 1..n /\ k + Len(blank) \in (1 + 1)..(n + 1)
         /\ split[1] = <<word>> \o rest
  BY <1>2, <1>3, Zenon DEF WordsFrom
<1>7. CASE k = 0
  <2>1. split[1] = <<From(cmdLine, 1)>>
    BY <1>1, <1>7, <1>a
  <2>2. From(cmdLine, 1) = cmdLine
    BY SubSeqFull DEF From
  <2> QED BY <1>2, <1>6, <1>7, <2>1, <2>2
<1>8. CASE k # 0
  <2>1. split[1] = <<word>> \o rest /\ k \in 1..(n + 1) /\ k + Len(blank) \in 1..(n + 1)
    <3> HIDE DEF word, rest, k
    <3>1. k \in 1..n /\ k + Len(blank) \in (1 + 1)..(n + 1) /\ split[1] = <<word>> \o rest
      BY <1>8, <1>a
    <3> QED BY <1>1, <3>1
  <2>2. word \in Seq(Char) /\ rest \in Seq(Seq(Char))
    <3> HIDE DEF k
    <3>1. word \in Seq(Char)
      BY <1>3, <2>1, PieceIs
    <3>2. rest \in Seq(Seq(Char))
      BY <1>2, <2>1
    <3> QED BY <3>1, <3>2
  <2> HIDE DEF word, rest, k
  <2>3. (<<word>> \o rest)[1] = word
    BY <2>2, ConsIs
  <2>4. Head(split[1]) = word
    BY <2>1, <2>3 DEF Head
  <2> QED BY <1>2, <1>6, <1>8, <2>4 DEF word
<1> QED BY <1>7, <1>8

\* isExecAllowed permits a command line exactly if there is a security configuration, no
\* pattern that denies matches the line, a pattern that allows does, and its first word is
\* a file of a trusted directory: for all lists, lines and files, whatever the order of
\* the lists.
THEOREM ExecIsPermitted ==
  ASSUME NEW Char, Blank \in Char, NEW cmdLine \in Seq(Char), NEW Files, NEW lists,
         lists.allow \in Seq(Seq(Char)), lists.deny \in Seq(Seq(Char))
  PROVE  IsExecAllowed(lists, cmdLine, Files) <=> Permitted(lists, cmdLine, Files)
<1> DEFINE Shell(p) == MatchesLikeAShell(cmdLine, p)
           File(dir) == dir \o <<Slash>> \o FirstWord(cmdLine) \in Files
<1>1. FirstWord(cmdLine) = Head(Split(cmdLine, <<Blank>>))
  BY FirstWordIs
<1>2. \A i \in DOMAIN lists.allow : lists.allow[i] \in Seq(Char)
  OBVIOUS
<1>3. \A i \in DOMAIN lists.deny : lists.deny[i] \in Seq(Char)
  OBVIOUS
<1>4. /\ \A i \in DOMAIN lists.allow : PatternMatch(cmdLine, lists.allow[i]) <=> Shell(lists.allow[i])
      /\ \A i \in DOMAIN lists.deny : PatternMatch(cmdLine, lists.deny[i]) <=> Shell(lists.deny[i])
  BY <1>2, <1>3, MatchingIsExact
<1> HIDE DEF Shell
<1>5. IsExecAllowed(lists, cmdLine, Files) <=>
        /\ lists.set
        /\ \A i \in DOMAIN lists.deny : ~Shell(lists.deny[i])
        /\ \E i \in DOMAIN lists.allow : Shell(lists.allow[i])
        /\ \E i \in DOMAIN lists.trusted : File(lists.trusted[i])
  BY <1>4 DEF IsExecAllowed, Matched
<1>6. Permitted(lists, cmdLine, Files) <=>
        /\ lists.set
        /\ \E p \in ToSet(lists.allow) : Shell(p)
        /\ ~\E p \in ToSet(lists.deny) : Shell(p)
        /\ \E dir \in ToSet(lists.trusted) : File(dir)
  BY <1>1, Zenon DEF Permitted, Shell
<1> HIDE DEF File
<1>7. (\E p \in ToSet(lists.allow) : Shell(p)) <=> \E i \in DOMAIN lists.allow : Shell(lists.allow[i])
  BY DEF ToSet
<1>8. (\E p \in ToSet(lists.deny) : Shell(p)) <=> \E i \in DOMAIN lists.deny : Shell(lists.deny[i])
  BY DEF ToSet
<1>9. (\E dir \in ToSet(lists.trusted) : File(dir))
        <=> \E i \in DOMAIN lists.trusted : File(lists.trusted[i])
  BY DEF ToSet
<1> QED BY <1>5, <1>6, <1>7, <1>8, <1>9

----------------------------------------------------------------------------
(* Skipping a clause. *)

\* The loop of skipToClosingBrace at one token, and at all of them.
SkippedFrom(Skip, t, pos) ==
  [countOpenBraces \in Nat |->
     IF countOpenBraces = 0 THEN Yields(<< >>, pos)
     ELSE IF Type(t, pos) = "eof" THEN Raises
     ELSE Skip[pos + 1][countOpenBraces + (IF Type(t, pos) = "{" THEN 1
                                           ELSE IF Type(t, pos) = "}" THEN -1 ELSE 0)]]

SkipLoop(Skip, t) == Skip = [pos \in 1..(Len(t) + 1) |-> 
  [countOpenBraces \in Nat |->
     IF countOpenBraces = 0 THEN Yields(<< >>, pos)
     ELSE IF Type(t, pos) = "eof" THEN Raises
     ELSE Skip[pos + 1][countOpenBraces + (IF Type(t, pos) = "{" THEN 1
                                           ELSE IF Type(t, pos) = "}" THEN -1 ELSE 0)]]]

LEMMA SkipUnfolds ==
  ASSUME NEW t
  PROVE  SkipToClosingBrace(t) = (CHOOSE Skip : SkipLoop(Skip, t))[1][1]
BY Zenon DEF SkipToClosingBrace, SkipLoop

LEMMA SkipExists ==
  ASSUME NEW Tokens, NEW t \in Seq(Tokens)
  PROVE  \E Skip : SkipLoop(Skip, t)
<1> DEFINE m == Len(t) + 1
           Bad == {k \in 1..(m + 1) : ~\E f : f = [pos \in k..m |-> SkippedFrom(f, t, pos)]}
<1>1. m \in Nat \ {0}
  OBVIOUS
<1>2. ASSUME NEW pos \in 1..m, NEW f, NEW g, pos + 1 <= m => f[pos + 1] = g[pos + 1]
      PROVE  SkippedFrom(f, t, pos) = SkippedFrom(g, t, pos)
  <2>1. CASE pos < m
    <3>1. f[pos + 1] = g[pos + 1]
      BY <1>1, <1>2, <2>1
    <3> QED BY <3>1 DEF SkippedFrom
  <2>2. CASE ~(pos < m)
    <3>1. Type(t, pos) = "eof"
      BY <2>2 DEF Type
    <3> QED BY <3>1 DEF SkippedFrom
  <2> QED BY <2>1, <2>2
<1> HIDE DEF m
<1>3. Bad = {}
  <2> SUFFICES ASSUME Bad # {} PROVE FALSE
    OBVIOUS
  <2>1. PICK k \in Bad : \A l \in Bad : l <= k
    <3>1. m + 1 \in Nat /\ Bad \subseteq 0..(m + 1)
      BY <1>1
    <3> HIDE DEF Bad
    <3> QED BY <3>1, LargestIs, Zenon
  <2>2. k \in 1..(m + 1)
    BY <2>1
  <2>3. CASE k = m + 1
    <3>1. k..m = {}
      BY <1>1, <2>3
    <3> DEFINE g == [pos \in k..m |-> Raises]
    <3>2. g = [pos \in k..m |-> SkippedFrom(g, t, pos)]
      BY <3>1
    <3> QED BY <2>1, <3>2
  <2>4. CASE k # m + 1
    <3>1. k + 1 \in 1..(m + 1) /\ ~(k + 1 <= k) /\ k \in 1..m
      BY <1>1, <2>2, <2>4
    <3>2. PICK f : f = [pos \in (k + 1)..m |-> SkippedFrom(f, t, pos)]
      BY <2>1, <3>1
    <3> DEFINE g == [pos \in k..m |-> IF pos = k THEN SkippedFrom(f, t, k) ELSE f[pos]]
    <3>3. \A pos \in k..m : g[pos] = SkippedFrom(g, t, pos)
      <4> SUFFICES ASSUME NEW pos \in k..m PROVE g[pos] = SkippedFrom(g, t, pos)
        OBVIOUS
      <4>1. pos \in 1..m /\ (pos # k => pos \in (k + 1)..m)
            /\ (pos + 1 <= m => pos + 1 \in k..m /\ pos + 1 # k)
        BY <1>1, <3>1
      <4>2. pos + 1 <= m => f[pos + 1] = g[pos + 1]
        BY <4>1
      <4>3. pos # k => f[pos] = SkippedFrom(f, t, pos)
        BY <3>2, <4>1
      <4>4. g[pos] = IF pos = k THEN SkippedFrom(f, t, k) ELSE f[pos]
        OBVIOUS
      <4> HIDE DEF g
      <4>5. SkippedFrom(f, t, pos) = SkippedFrom(g, t, pos)
        BY <1>2, <4>1, <4>2
      <4> QED BY <4>3, <4>4, <4>5
    <3>4. g = [pos \in k..m |-> SkippedFrom(g, t, pos)]
      BY <3>3
    <3> QED BY <2>1, <3>4
  <2> QED BY <2>3, <2>4
<1>4. 1 \in 1..(m + 1)
  BY <1>1
<1>5. \E f : f = [pos \in 1..m |-> SkippedFrom(f, t, pos)]
  BY <1>3, <1>4
<1> QED BY <1>5, Zenon DEF SkippedFrom, SkipLoop, m

\* What a token adds to the number of open braces.
Brace(t, pos) == IF Type(t, pos) = "{" THEN 1 ELSE IF Type(t, pos) = "}" THEN -1 ELSE 0

Skips(Skip, t) ==
  /\ \A pos \in 1..(Len(t) + 1) : Skip[pos][0] = Yields(<< >>, pos)
  /\ \A c \in Nat \ {0} : Skip[Len(t) + 1][c] = Raises
  /\ \A pos \in 1..Len(t) : \A c \in Nat \ {0} :
       Type(t, pos) # "eof" => Skip[pos][c] = Skip[pos + 1][c + Brace(t, pos)]

LEMMA SkipIs ==
  ASSUME NEW Tokens, NEW t \in Seq(Tokens)
  PROVE  \E Skip : SkipToClosingBrace(t) = Skip[1][1] /\ Skips(Skip, t)
<1> DEFINE Skip == CHOOSE f : SkipLoop(f, t)
<1>1. SkipLoop(Skip, t)
  BY SkipExists
<1>2. SkipToClosingBrace(t) = Skip[1][1]
  BY SkipUnfolds
<1> HIDE DEF Skip
<1>3. \A pos \in 1..(Len(t) + 1) : Skip[pos] = SkippedFrom(Skip, t, pos)
  BY <1>1 DEF SkipLoop, SkippedFrom
<1>4. \A pos \in 1..(Len(t) + 1) : \A c \in Nat :
        Skip[pos][c] = IF c = 0 THEN Yields(<< >>, pos)
                       ELSE IF Type(t, pos) = "eof" THEN Raises ELSE Skip[pos + 1][c + Brace(t, pos)]
  <2> SUFFICES ASSUME NEW pos \in 1..(Len(t) + 1), NEW c \in Nat
               PROVE  Skip[pos][c] = IF c = 0 THEN Yields(<< >>, pos)
                                     ELSE IF Type(t, pos) = "eof" THEN Raises
                                     ELSE Skip[pos + 1][c + Brace(t, pos)]
    OBVIOUS
  <2>1. SkippedFrom(Skip, t, pos)[c]
          = IF c = 0 THEN Yields(<< >>, pos)
            ELSE IF Type(t, pos) = "eof" THEN Raises ELSE Skip[pos + 1][c + Brace(t, pos)]
    BY Zenon DEF SkippedFrom, Brace
  <2> QED BY <1>3, <2>1
<1>5. Type(t, Len(t) + 1) = "eof" /\ Len(t) + 1 \in 1..(Len(t) + 1) /\ 0 \in Nat
      /\ 1..Len(t) \subseteq 1..(Len(t) + 1)
  BY DEF Type
<1>6. \A pos \in 1..(Len(t) + 1) : Skip[pos][0] = Yields(<< >>, pos)
  BY <1>4, <1>5
<1>7. \A c \in Nat \ {0} : Skip[Len(t) + 1][c] = Raises
  BY <1>4, <1>5
<1>8. \A pos \in 1..Len(t) : \A c \in Nat \ {0} : Type(t, pos) # "eof" =>
        Skip[pos][c] = Skip[pos + 1][c + Brace(t, pos)]
  BY <1>4, <1>5
<1>9. Skips(Skip, t)
  BY <1>6, <1>7, <1>8 DEF Skips
<1> QED BY <1>2, <1>9

LEMMA BracesStep ==
  ASSUME NEW Tokens, NEW t \in Seq(Tokens), NEW type, NEW p \in 0..(Len(t) - 1)
  PROVE  /\ Cardinality(Braces(t, p, type)) \in Nat
         /\ t[p + 1].type = type =>
              Cardinality(Braces(t, p + 1, type)) = Cardinality(Braces(t, p, type)) + 1
         /\ t[p + 1].type # type =>
              Cardinality(Braces(t, p + 1, type)) = Cardinality(Braces(t, p, type))
<1>1. Len(t) \in Nat /\ p \in Nat /\ p + 1 \in Nat
  OBVIOUS
<1>2. IsFiniteSet(1..p) /\ Cardinality(1..p) = p
  <2>0. 1 \in Int /\ p \in Int
    BY <1>1
  <2>1. /\ IsFiniteSet(1..p)
        /\ Cardinality(1..p) = IF 1 > p THEN 0 ELSE p - 1 + 1
    BY <2>0, FS_Interval, Zenon
  <2> QED BY <1>1, <2>1
<1>3. Braces(t, p, type) \subseteq 1..p
  BY DEF Braces
<1>4. /\ IsFiniteSet(Braces(t, p, type)) /\ Cardinality(Braces(t, p, type)) \in Nat
  BY <1>2, <1>3, FS_Subset, FS_CardinalityType
<1>6. CASE t[p + 1].type = type
  <2>1. Braces(t, p + 1, type) = Braces(t, p, type) \cup {p + 1} /\ p + 1 \notin Braces(t, p, type)
    BY <1>1, <1>6 DEF Braces
  <2> QED BY <1>1, <1>4, <1>6, <2>1, FS_AddElement
<1>7. CASE t[p + 1].type # type
  <2>1. Braces(t, p + 1, type) = Braces(t, p, type)
    <3>1. \A i \in 1..(p + 1) : i \in 1..p \/ i = p + 1
      BY <1>1
    <3> QED BY <1>1, <1>7, <3>1 DEF Braces
  <2> QED BY <1>1, <1>4, <1>7, <2>1
<1> QED BY <1>6, <1>7

\* The braces that are open behind the first p tokens.
Balance(t, p) == 1 + Cardinality(Braces(t, p, "{")) - Cardinality(Braces(t, p, "}"))

LEMMA BalanceIs ==
  ASSUME NEW Tokens, NEW t \in Seq(Tokens)
  PROVE  /\ Balance(t, 0) = 1
         /\ \A p \in 0..(Len(t) - 1) : Balance(t, p + 1) = Balance(t, p) + Brace(t, p + 1)
         /\ \A p \in 1..Len(t) : Closes(t, p) <=> Balance(t, p) = 0
<1> DEFINE Open(p) == Cardinality(Braces(t, p, "{"))
           Shut(p) == Cardinality(Braces(t, p, "}"))
<1>0. Len(t) \in Nat
  OBVIOUS
<1>1. Open(0) = 0 /\ Shut(0) = 0
  <2>1. Braces(t, 0, "{") = {} /\ Braces(t, 0, "}") = {}
    BY DEF Braces
  <2> QED BY <2>1, FS_EmptySet
<1>2. \A p \in 0..(Len(t) - 1) :
        /\ Open(p) \in Nat
        /\ t[p + 1].type = "{" => Open(p + 1) = Open(p) + 1
        /\ t[p + 1].type # "{" => Open(p + 1) = Open(p)
  BY BracesStep, Zenon
<1>3. \A p \in 0..(Len(t) - 1) :
        /\ Shut(p) \in Nat
        /\ t[p + 1].type = "}" => Shut(p + 1) = Shut(p) + 1
        /\ t[p + 1].type # "}" => Shut(p + 1) = Shut(p)
  BY BracesStep, Zenon
<1>4. \A p \in 1..Len(t) : Closes(t, p) <=> Shut(p) = Open(p) + 1
  BY DEF Closes
<1>5. \A p : Balance(t, p) = 1 + Open(p) - Shut(p)
  BY DEF Balance
<1> HIDE DEF Open, Shut
<1>6. \A p \in 0..(Len(t) - 1) : Balance(t, p + 1) = Balance(t, p) + Brace(t, p + 1)
  <2> SUFFICES ASSUME NEW p \in 0..(Len(t) - 1)
               PROVE  Balance(t, p + 1) = Balance(t, p) + Brace(t, p + 1)
    OBVIOUS
  <2>1. Type(t, p + 1) = t[p + 1].type
    BY <1>0 DEF Type
  <2>2. Open(p) \in Nat /\ Shut(p) \in Nat
    BY <1>2, <1>3
  <2>3. CASE t[p + 1].type = "{"
    <3>1. Open(p + 1) = Open(p) + 1 /\ Shut(p + 1) = Shut(p) /\ Brace(t, p + 1) = 1
      BY <1>2, <1>3, <2>1, <2>2, <2>3 DEF Brace
    <3> QED BY <1>5, <2>2, <3>1
  <2>4. CASE t[p + 1].type = "}"
    <3>1. Open(p + 1) = Open(p) /\ Shut(p + 1) = Shut(p) + 1 /\ Brace(t, p + 1) = -1
      BY <1>2, <1>3, <2>1, <2>2, <2>4 DEF Brace
    <3> QED BY <1>5, <2>2, <3>1
  <2>5. CASE t[p + 1].type \notin {"{", "}"}
    <3>1. Open(p + 1) = Open(p) /\ Shut(p + 1) = Shut(p) /\ Brace(t, p + 1) = 0
      BY <1>2, <1>3, <2>1, <2>2, <2>5 DEF Brace
    <3> QED BY <1>5, <2>2, <3>1
  <2> QED BY <2>3, <2>4, <2>5
<1>7. \A p \in 1..Len(t) : Closes(t, p) <=> Balance(t, p) = 0
  <2> SUFFICES ASSUME NEW p \in 1..Len(t) PROVE Closes(t, p) <=> Balance(t, p) = 0
    OBVIOUS
  <2>1. p - 1 \in 0..(Len(t) - 1) /\ (p - 1) + 1 = p
    BY <1>0
  <2>2. Open(p - 1) \in Nat /\ (Open(p) = Open(p - 1) + 1 \/ Open(p) = Open(p - 1))
    BY <1>2, <2>1
  <2>3. Shut(p - 1) \in Nat /\ (Shut(p) = Shut(p - 1) + 1 \/ Shut(p) = Shut(p - 1))
    BY <1>3, <2>1
  <2>4. Open(p) \in Nat /\ Shut(p) \in Nat
    BY <2>2, <2>3
  <2> QED BY <1>4, <1>5, <2>4
<1> QED BY <1>1, <1>5, <1>6, <1>7

\* skipToClosingBrace finds the brace that closes the clause, for all clauses, however
\* braces nest in it; without one it raises an exception.
THEOREM SkippingIsExact ==
  ASSUME NEW Tokens, NEW t \in Seq(Tokens), \A i \in 1..Len(t) : t[i].type # "eof"
  PROVE  LET ends == {p \in DOMAIN t : Closes(t, p)}
         IN  SkipToClosingBrace(t) = IF ends = {} THEN Raises ELSE Yields(<< >>, Min(ends) + 1)
<1> DEFINE n == Len(t)
           C(p) == Balance(t, p)
           ends == {p \in DOMAIN t : Closes(t, p)}
<1>a. PICK Skip : SkipToClosingBrace(t) = Skip[1][1] /\ Skips(Skip, t)
  BY SkipIs
<1>1. /\ SkipToClosingBrace(t) = Skip[1][1]
      /\ \A pos \in 1..(n + 1) : Skip[pos][0] = Yields(<< >>, pos)
      /\ \A c \in Nat \ {0} : Skip[n + 1][c] = Raises
      /\ \A pos \in 1..n : \A c \in Nat \ {0} : Type(t, pos) # "eof" =>
           Skip[pos][c] = Skip[pos + 1][c + Brace(t, pos)]
  BY <1>a DEF Skips
<1>2. n \in Nat /\ DOMAIN t = 1..n
  OBVIOUS
<1>3. \A p \in 0..(n - 1) : C(p + 1) = C(p) + Brace(t, p + 1)
  BY BalanceIs
<1>4. \A p \in 1..n : p \in ends <=> C(p) = 0
  BY <1>2, BalanceIs
<1>5. ends \subseteq 1..n
  BY <1>2
<1>6. \A p \in 1..n : Type(t, p) # "eof"
  BY <1>2 DEF Type
<1>7. Skip[1][1] = Skip[1][C(0)] /\ C(0) = 1
  BY BalanceIs
<1> HIDE DEF C, ends, n
<1> DEFINE Reached == {pos \in 1..(n + 1) :
                         /\ \A q \in 0..(pos - 1) : C(q) \in Nat \ {0}
                         /\ Skip[1][1] = Skip[pos][C(pos - 1)]}
<1>8. PICK pos \in Reached : \A other \in Reached : other <= pos
  <2>1. 1 \in Reached
    BY <1>2, <1>7
  <2>2. Reached \subseteq 0..(n + 1) /\ n + 1 \in Nat
    BY <1>2
  <2> HIDE DEF Reached
  <2> QED BY <2>1, <2>2, LargestIs, Zenon
<1>9. /\ pos \in 1..(n + 1) /\ \A q \in 0..(pos - 1) : C(q) \in Nat \ {0}
      /\ Skip[1][1] = Skip[pos][C(pos - 1)] /\ pos + 1 \notin Reached
      /\ C(pos - 1) \in Nat \ {0}
  <2>1. pos \in 1..(n + 1) /\ ~(pos + 1 <= pos) /\ pos - 1 \in 0..(pos - 1)
    BY <1>2, <1>8
  <2> QED BY <1>8, <2>1
<1>10. CASE pos = n + 1
  <2>1. ends = {}
    <3> SUFFICES ASSUME NEW p \in ends PROVE FALSE
      OBVIOUS
    <3>1. p \in 1..n /\ p \in 0..(pos - 1)
      BY <1>2, <1>5, <1>10
    <3> QED BY <1>4, <1>9, <3>1
  <2>2. Skip[1][1] = Raises
    BY <1>1, <1>9, <1>10
  <2> QED BY <1>1, <2>1, <2>2 DEF ends
<1>11. CASE pos # n + 1
  <2>1. pos \in 1..n /\ pos - 1 \in 0..(n - 1) /\ (pos - 1) + 1 = pos /\ pos + 1 \in 1..(n + 1)
        /\ (pos + 1) - 1 = pos
    BY <1>2, <1>9, <1>11
  <2>2. C(pos) = C(pos - 1) + Brace(t, pos)
    BY <1>3, <2>1
  <2>3. Skip[1][1] = Skip[pos + 1][C(pos)]
    BY <1>1, <1>6, <1>9, <2>1, <2>2
  <2>4. C(pos) \in Nat
    <3>1. Brace(t, pos) \in {-1, 0, 1}
      BY DEF Brace
    <3> QED BY <1>9, <2>2, <3>1
  <2>5. C(pos) = 0
    <3> SUFFICES ASSUME C(pos) # 0 PROVE FALSE
      OBVIOUS
    <3>1. \A q \in 0..((pos + 1) - 1) : q \in 0..(pos - 1) \/ q = pos
      BY <2>1
    <3>2. pos + 1 \in Reached
      BY <1>9, <2>1, <2>3, <2>4, <3>1
    <3> QED BY <1>9, <3>2
  <2>6. Skip[1][1] = Yields(<< >>, pos + 1)
    BY <1>1, <2>1, <2>3, <2>5
  <2>7. pos \in ends
    BY <1>4, <2>1, <2>5
  <2>8. \A p \in ends : pos <= p
    <3> SUFFICES ASSUME NEW p \in ends, ~(pos <= p) PROVE FALSE
      OBVIOUS
    <3>1. p \in 1..n /\ p \in 0..(pos - 1)
      BY <1>5, <2>1
    <3> QED BY <1>4, <1>9, <3>1
  <2>9. Min(ends) = pos
    <3>1. ends \subseteq Nat /\ ends # {}
      BY <1>5, <2>7
    <3> DEFINE low == Min(ends)
    <3>2. low \in ends /\ \A p \in ends : low <= p
      BY <3>1, MinIs
    <3> HIDE DEF low
    <3>3. low \in Nat /\ low <= pos /\ pos <= low
      BY <1>5, <2>7, <2>8, <3>2
    <3>4. low = pos
      BY <2>1, <3>3
    <3> QED BY <3>4 DEF low
  <2> QED BY <1>1, <2>6, <2>7, <2>9 DEF ends
<1> QED BY <1>10, <1>11

----------------------------------------------------------------------------
(* What every statement leaves. *)

\* A policy is as it was when the parse began.
PolicyIsGiven == \E start \in Start : policy = start.policy

LEMMA PolicyStays == StatementSpec => []PolicyIsGiven
<1>1. Init => PolicyIsGiven
  BY DEF Init, PolicyIsGiven
<1>2. PolicyIsGiven /\ [StatementNext]_vars => PolicyIsGiven'
  BY DEF PolicyIsGiven, StatementNext, SkipClause, ParseExecSource, Evaluate, NextStmt, vars
<1> QED BY <1>1, <1>2, PTL DEF StatementSpec

LEMMA NoKind == NoStmt.kind = "none"
BY DEF NoStmt

LEMMA KindsAre ==
  /\ \A cmd : ParseExecSource(cmd) => stmt'.kind = "source"
  /\ \A t : SkipClause(t) => stmt'.kind = "skip"
  /\ Evaluate => stmt'.kind \in {"assign", "if"}
  /\ NextStmt => stmt'.kind = "none"
<1>1. ASSUME NEW cmd, ParseExecSource(cmd) PROVE stmt'.kind = "source"
  BY <1>1 DEF ParseExecSource
<1>2. ASSUME NEW t, SkipClause(t) PROVE stmt'.kind = "skip"
  BY <1>2 DEF SkipClause
<1>3. Evaluate => stmt'.kind \in {"assign", "if"}
  BY DEF Evaluate
<1>4. NextStmt => stmt'.kind = "none"
  BY NoKind DEF NextStmt
<1> QED BY <1>1, <1>2, <1>3, <1>4

\* skipToClosingBrace leaves a clause that is not run behind the brace that closes it:
\* for all clauses, whatever braces and other tokens they have and whatever the
\* statements before.
THEOREM ClausesAreSkipped == StatementSpec => []SkipsOneClause
<1>1. Init => SkipsOneClause
  <2>1. Init => stmt = NoStmt
    BY Zenon DEF Init
  <2>2. "none" # "skip"
    OBVIOUS
  <2> QED BY <2>1, <2>2, NoKind, Zenon DEF SkipsOneClause
<1>2. SkipsOneClause /\ [StatementNext]_vars => SkipsOneClause'
  <2> SUFFICES ASSUME stmt.kind = "skip" =>
                        LET ends == {p \in DOMAIN stmt.tokens : Closes(stmt.tokens, p)}
                        IN  IF ends = {} THEN out.tag = "config"
                            ELSE out = Yields(<< >>, Min(ends) + 1),
                      [StatementNext]_vars, stmt'.kind = "skip"
               PROVE  LET ends == {p \in DOMAIN stmt'.tokens : Closes(stmt'.tokens, p)}
                      IN  IF ends = {} THEN out'.tag = "config"
                          ELSE out' = Yields(<< >>, Min(ends) + 1)
    BY Zenon DEF SkipsOneClause
  <2>1. CASE \E t \in Clause : SkipClause(t)
    <3>1. PICK t \in Clause : SkipClause(t)
      BY <2>1
    <3>2. stmt'.tokens = t /\ out' = SkipToClosingBrace(t)
      BY <3>1 DEF SkipClause
    <3> DEFINE Tokens == [type : STRING \ {"eof"}, text : Seq(Alphabet)]
    <3>3. t \in Seq(Tokens) /\ \A i \in 1..Len(t) : t[i].type # "eof"
      <4>1. t \in Seq(Tokens)
        BY StatementsAssumption DEF StatementsAssumption
      <4>2. \A i \in 1..Len(t) : t[i] \in Tokens
        <5> HIDE DEF Tokens
        <5> QED BY <4>1
      <4>3. \A token \in Tokens : token.type # "eof"
        OBVIOUS
      <4> HIDE DEF Tokens
      <4> QED BY <4>1, <4>2, <4>3
    <3> HIDE DEF Tokens
    <3> DEFINE ends == {p \in DOMAIN t : Closes(t, p)}
    <3>4. SkipToClosingBrace(t) = IF ends = {} THEN Raises ELSE Yields(<< >>, Min(ends) + 1)
      BY <3>3, SkippingIsExact, Zenon
    <3>5. {p \in DOMAIN stmt'.tokens : Closes(stmt'.tokens, p)} = ends
      BY <3>2, Zenon
    <3> HIDE DEF ends
    <3>6. IF ends = {} THEN out'.tag = "config" ELSE out' = Yields(<< >>, Min(ends) + 1)
      BY <3>2, <3>4 DEF Raises
    <3> QED BY <3>5, <3>6, Zenon
  <2>2. CASE (\E cmd \in Command : ParseExecSource(cmd)) \/ Evaluate \/ NextStmt
    <3>1. "none" # "skip" /\ "assign" # "skip" /\ "if" # "skip" /\ "source" # "skip"
      OBVIOUS
    <3> QED BY <2>2, <3>1, KindsAre, Zenon
  <2>3. CASE UNCHANGED vars
    <3>1. stmt' = stmt /\ out' = out
      BY <2>3 DEF vars
    <3> QED BY <3>1, Zenon
  <2> QED BY <2>1, <2>2, <2>3 DEF StatementNext
<1> QED BY <1>1, <1>2, PTL DEF StatementSpec

\* The source of a configuration is a command that is executed exactly if a security
\* configuration permits it: for all lists, lines and files, whatever the statements before.
THEOREM SourcesAlwaysPermitted == Blank \in Alphabet => (StatementSpec => []SourcesArePermitted)
<1> SUFFICES ASSUME Blank \in Alphabet PROVE StatementSpec => []SourcesArePermitted
  OBVIOUS
<1>1. Init => SourcesArePermitted
  <2>1. Init => stmt = NoStmt
    BY Zenon DEF Init
  <2>2. "none" # "source"
    OBVIOUS
  <2> QED BY <2>1, <2>2, NoKind, Zenon DEF SourcesArePermitted
<1>2. PolicyIsGiven /\ SourcesArePermitted /\ [StatementNext]_vars => SourcesArePermitted'
  <2> SUFFICES ASSUME PolicyIsGiven, [StatementNext]_vars, stmt'.kind = "source",
                      stmt.kind = "source" =>
                        (out.tag = "value" <=> Permitted(policy, stmt.tokens[1].text, Installed))
               PROVE  out'.tag = "value" <=> Permitted(policy', stmt'.tokens[1].text, Installed)
    BY Zenon DEF SourcesArePermitted, Arg
  <2>1. CASE \E cmd \in Command : ParseExecSource(cmd)
    <3>1. PICK cmd \in Command : ParseExecSource(cmd)
      BY <2>1
    <3>2. /\ stmt'.tokens[1].text = cmd /\ policy' = policy
          /\ out' = IF IsExecAllowed(policy, cmd, Installed) THEN Yields(<< >>, 1) ELSE Raises
      BY <3>1 DEF ParseExecSource, String
    <3>3. out'.tag = "value" <=> IsExecAllowed(policy, cmd, Installed)
      BY <3>2 DEF Yields, Raises
    <3>4. /\ cmd \in Seq(Alphabet) /\ policy.allow \in Seq(Seq(Alphabet))
          /\ policy.deny \in Seq(Seq(Alphabet)) /\ policy.trusted \in Seq(Seq(Alphabet))
      BY StatementsAssumption DEF StatementsAssumption, PolicyIsGiven
    <3>5. IsExecAllowed(policy, cmd, Installed) <=> Permitted(policy, cmd, Installed)
      BY <3>4, ExecIsPermitted, Zenon
    <3> QED BY <3>2, <3>3, <3>5, Zenon
  <2>2. CASE (\E t \in Clause : SkipClause(t)) \/ Evaluate \/ NextStmt
    <3>1. "none" # "source" /\ "assign" # "source" /\ "if" # "source" /\ "skip" # "source"
      OBVIOUS
    <3> QED BY <2>2, <3>1, KindsAre, Zenon
  <2>3. CASE UNCHANGED vars
    <3>1. stmt' = stmt /\ out' = out /\ policy' = policy
      BY <2>3 DEF vars
    <3> QED BY <3>1, Zenon
  <2> QED BY <2>1, <2>2, <2>3 DEF StatementNext
<1> QED BY <1>1, <1>2, PolicyStays, PTL DEF StatementSpec

=============================================================================
