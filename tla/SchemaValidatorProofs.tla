----------------------- MODULE SchemaValidatorProofs -----------------------
(***************************************************************************)
(* Theorems about the tables that parseSchema leaves behind, and about     *)
(* what validate makes of them.                                            *)
(***************************************************************************)
EXTENDS SchemaValidator, ConfigTreeTheorems, SequenceTheorems, TLAPS

\* The tables hold what was parsed for as long as the parse goes well, every rule
\* with a name and a type that is registered, and are in order once it has ended
\* well.
TablesInv ==
  /\ SchemaTypeOK
  /\ phase \in {"parsing", "ready"} =>
       /\ given = Range(idRules) \cup Range(ignoreRules)
       /\ \A rule \in Range(idRules) : rule.name # Root /\ rule.type \in DOMAIN types
       /\ \A rule \in Range(ignoreRules) : rule.name # Root
  /\ phase = "ready" => RulesSorted(idRules) /\ ~HasDuplicates(idRules)

LEMMA RangeOfAppend ==
  ASSUME NEW S, NEW s \in Seq(S), NEW x
  PROVE  Range(Append(s, x)) = Range(s) \cup {x}
<1>1. /\ DOMAIN Append(s, x) = 1..(Len(s) + 1) /\ DOMAIN s = 1..Len(s) /\ Len(s) \in Nat
      /\ \A i \in 1..Len(s) : Append(s, x)[i] = s[i]
      /\ Append(s, x)[Len(s) + 1] = x
  OBVIOUS
<1>2. \A i \in 1..(Len(s) + 1) : i \in 1..Len(s) \/ i = Len(s) + 1
  BY <1>1
<1>3. 1..Len(s) \subseteq 1..(Len(s) + 1) /\ Len(s) + 1 \in 1..(Len(s) + 1)
  BY <1>1
<1> QED BY <1>1, <1>2, <1>3, Zenon DEF Range

\* The type invariant survives whatever is added to a table.
LEMMA AppendIdRule ==
  ASSUME idRules \in Seq(IdRule), NEW rule \in IdRule
  PROVE  Append(idRules, rule) \in Seq(IdRule)
OBVIOUS

----------------------------------------------------------------------------
(* One lemma per action. *)

LEMMA BeginParseKeepsInv == TablesInv /\ BeginParse => TablesInv'
<1> SUFFICES ASSUME TablesInv, BeginParse PROVE TablesInv'
  OBVIOUS
<1>1. Range(<< >>) = {}
  BY DEF Range
<1> QED BY <1>1 DEF TablesInv, SchemaTypeOK, BeginParse

LEMMA ParseIdRuleKeepsInv ==
  ASSUME TablesInv, NEW rule \in IdRule, ParseIdRule(rule)
  PROVE  TablesInv'
<1>1. Range(idRules') = Range(idRules) \cup {rule}
  BY RangeOfAppend DEF TablesInv, SchemaTypeOK, ParseIdRule
<1> QED BY <1>1 DEF TablesInv, SchemaTypeOK, ParseIdRule, AtItem

LEMMA IdRuleFailsKeepsInv ==
  ASSUME TablesInv, NEW rule \in IdRule, IdRuleFails(rule)
  PROVE  TablesInv'
BY DEF TablesInv, SchemaTypeOK, IdRuleFails

LEMMA ParseIgnoreRuleKeepsInv ==
  ASSUME TablesInv, NEW rule \in IgnoreRule, ParseIgnoreRule(rule)
  PROVE  TablesInv'
<1>1. Range(ignoreRules') = Range(ignoreRules) \cup {rule}
  BY RangeOfAppend DEF TablesInv, SchemaTypeOK, ParseIgnoreRule
<1> QED BY <1>1 DEF TablesInv, SchemaTypeOK, ParseIgnoreRule, AtItem

LEMMA IgnoreRuleFailsKeepsInv ==
  ASSUME TablesInv, NEW rule \in IgnoreRule, IgnoreRuleFails(rule)
  PROVE  TablesInv'
BY DEF TablesInv, SchemaTypeOK, IgnoreRuleFails

LEMMA ParseTypedefKeepsInv ==
  ASSUME TablesInv, NEW type \in TypeName, NEW base \in TypeName, ParseTypedef(type, base)
  PROVE  TablesInv'
BY DEF TablesInv, SchemaTypeOK, ParseTypedef

LEMMA RegisterTypeKeepsInv ==
  ASSUME TablesInv, NEW type \in DOMAIN Custom, RegisterType(type)
  PROVE  TablesInv'
BY CustomTypes DEF TablesInv, SchemaTypeOK, RegisterType, RulesSorted, HasDuplicates

LEMMA ItemFailsKeepsInv == TablesInv /\ ItemFails => TablesInv'
BY DEF TablesInv, SchemaTypeOK, ItemFails

\* Sorting moves the rules about; none is lost.
LEMMA SortedTable ==
  ASSUME NEW S, NEW s \in Seq(S), NEW place \in Bijection(DOMAIN s, DOMAIN s)
  PROVE  LET t == [i \in DOMAIN s |-> s[place[i]]]
         IN  t \in Seq(S) /\ Range(t) = Range(s)
<1> DEFINE t == [i \in DOMAIN s |-> s[place[i]]]
<1>1. DOMAIN s = 1..Len(s) /\ Len(s) \in Nat /\ \A i \in DOMAIN s : s[i] \in S
  OBVIOUS
<1>2. \A i \in DOMAIN s : place[i] \in DOMAIN s
  BY DEF Bijection, Injection, IsInjective, Surjection
<1>3. \A j \in DOMAIN s : \E i \in DOMAIN s : place[i] = j
  BY DEF Bijection, Surjection
<1>4. DOMAIN t = 1..Len(s) /\ \A i \in 1..Len(s) : t[i] \in S
  BY <1>1, <1>2
<1>5. t \in Seq(S)
  BY <1>1, <1>4
<1>6. Range(t) = Range(s)
  BY <1>2, <1>3 DEF Range
<1> QED BY <1>5, <1>6

LEMMA EndParseKeepsInv == TablesInv /\ EndParse => TablesInv'
<1> SUFFICES ASSUME TablesInv, EndParse PROVE TablesInv'
  OBVIOUS
<1>1. PICK place \in Bijection(DOMAIN idRules, DOMAIN idRules) :
        LET table == [i \in DOMAIN idRules |-> idRules[place[i]]]
        IN  /\ RulesSorted(table)
            /\ idRules' = table
            /\ phase' = IF HasDuplicates(table) THEN "failed" ELSE "ready"
  BY DEF EndParse
<1>2. idRules' \in Seq(IdRule) /\ Range(idRules') = Range(idRules)
  BY <1>1, SortedTable DEF TablesInv, SchemaTypeOK
<1>3. RulesSorted(idRules') /\ (phase' = "ready" => ~HasDuplicates(idRules'))
  BY <1>1
<1>4. phase' \in {"failed", "ready"}
  BY <1>1
<1> QED BY <1>2, <1>3, <1>4 DEF TablesInv, SchemaTypeOK, EndParse, RulesSorted, HasDuplicates

LEMMA NextTablesInv == TablesInv /\ [Next]_vars => TablesInv'
<1> SUFFICES ASSUME TablesInv, [Next]_vars PROVE TablesInv'
  OBVIOUS
<1>1. CASE BeginParse
  BY <1>1, BeginParseKeepsInv
<1>2. CASE \E rule \in IdRule : ParseIdRule(rule)
  BY <1>2, ParseIdRuleKeepsInv
<1>3. CASE \E rule \in IdRule : IdRuleFails(rule)
  BY <1>3, IdRuleFailsKeepsInv
<1>4. CASE \E rule \in IgnoreRule : ParseIgnoreRule(rule)
  BY <1>4, ParseIgnoreRuleKeepsInv
<1>5. CASE \E rule \in IgnoreRule : IgnoreRuleFails(rule)
  BY <1>5, IgnoreRuleFailsKeepsInv
<1>6. CASE \E type, base \in TypeName : ParseTypedef(type, base)
  BY <1>6, ParseTypedefKeepsInv
<1>7. CASE ItemFails
  BY <1>7, ItemFailsKeepsInv
<1>8. CASE EndParse
  BY <1>8, EndParseKeepsInv
<1>9. CASE \E type \in DOMAIN Custom : RegisterType(type)
  BY <1>9, RegisterTypeKeepsInv
<1>10. CASE UNCHANGED vars
  BY <1>10 DEF vars, TablesInv, SchemaTypeOK, RulesSorted, HasDuplicates
<1> QED BY <1>1, <1>2, <1>3, <1>4, <1>5, <1>6, <1>7, <1>8, <1>9, <1>10 DEF Next

LEMMA InitTablesInv == Init => TablesInv
BY BuiltInTypes DEF Init, TablesInv, SchemaTypeOK

\* In every state the tables have their types, and those of a parsed schema are
\* sorted and free of neighbours with one name.
THEOREM TablesInvHolds == Spec => []TablesInv
BY InitTablesInv, NextTablesInv, PTL DEF Spec

----------------------------------------------------------------------------
(* Results. *)

\* Comparing neighbours is enough: in a sorted table equal names are next to
\* each other, since Order tells all names apart.
LEMMA NeighboursSuffice ==
  ASSUME NEW s \in Seq(IdRule), RulesSorted(s), ~HasDuplicates(s)
  PROVE  \A i, j \in DOMAIN s : i < j => s[i].name # s[j].name
<1>1. DOMAIN s = 1..Len(s) /\ Len(s) \in Nat
  OBVIOUS
<1>2. ASSUME NEW i \in DOMAIN s
      PROVE  s[i].name \in DOMAIN Order /\ Order[s[i].name] \in Nat
  <2>1. s[i] \in IdRule
    BY <1>1
  <2>2. s[i].name \in RuleName \cup {Root}
    BY <2>1 DEF IdRule
  <2>3. Order \in [RuleName \cup {Root} -> Nat]
    BY NamesAreOrdered
  <2> QED BY <2>2, <2>3
<1>3. \A m, n \in DOMAIN Order : m # n => Order[m] # Order[n]
  BY NamesAreOrdered DEF IsInjective
<1> SUFFICES ASSUME NEW i \in DOMAIN s, NEW j \in DOMAIN s, i < j
             PROVE  s[i].name # s[j].name
  OBVIOUS
<1>4. i \in 1..(Len(s) - 1) /\ i + 1 \in DOMAIN s /\ i < i + 1 /\ (i + 1 = j \/ i + 1 < j)
  BY <1>1
<1>5. s[i].name # s[i + 1].name
  BY <1>4 DEF HasDuplicates
<1>6. Order[s[i].name] <= Order[s[i + 1].name] /\ Order[s[i].name] # Order[s[i + 1].name]
  BY <1>2, <1>3, <1>4, <1>5 DEF RulesSorted
<1>7. Order[s[i + 1].name] <= Order[s[j].name]
  BY <1>2, <1>4 DEF RulesSorted
<1>8. Order[s[i].name] # Order[s[j].name]
  <2>1. /\ Order[s[i].name] \in Nat /\ Order[s[i + 1].name] \in Nat
        /\ Order[s[j].name] \in Nat
    BY <1>2, <1>4
  <2> QED BY <2>1, <1>6, <1>7
<1> QED BY <1>8

\* A parsed schema is in the tables, each rule once.
THEOREM SchemasAreKept == Spec => []TablesAreSchema
<1>1. TablesInv => TablesAreSchema
  <2> SUFFICES ASSUME TablesInv, phase = "ready"
               PROVE  IsInjective([i \in DOMAIN idRules |-> idRules[i].name])
    BY DEF TablesInv, TablesAreSchema
  <2>1. idRules \in Seq(IdRule) /\ DOMAIN idRules = 1..Len(idRules) /\ Len(idRules) \in Nat
    BY DEF TablesInv, SchemaTypeOK
  <2>2. \A i, j \in DOMAIN idRules : i < j => idRules[i].name # idRules[j].name
    BY <2>1, NeighboursSuffice DEF TablesInv
  <2>3. \A i, j \in DOMAIN idRules : i < j \/ j < i \/ i = j
    BY <2>1
  <2> QED BY <2>2, <2>3, Zenon DEF IsInjective
<1> QED BY <1>1, TablesInvHolds, PTL

\* A search in the tables of a parsed schema returns the rule of that name.
FoundIsTheRule ==
  phase = "ready" =>
    \A i \in DOMAIN idRules : FoundRules(idRules[i].name) = {idRules[i]}

LEMMA SearchIsExact == TablesInv => FoundIsTheRule
<1> SUFFICES ASSUME TablesInv, phase = "ready", NEW i \in DOMAIN idRules
             PROVE  FoundRules(idRules[i].name) = {idRules[i]}
  BY DEF FoundIsTheRule
<1>1. idRules \in Seq(IdRule) /\ DOMAIN idRules = 1..Len(idRules) /\ Len(idRules) \in Nat
  BY DEF TablesInv, SchemaTypeOK
<1>2. \A j, k \in DOMAIN idRules : j < k => idRules[j].name # idRules[k].name
  BY <1>1, NeighboursSuffice DEF TablesInv
<1>3. \A j \in DOMAIN idRules : i < j \/ j < i \/ i = j
  BY <1>1
<1>4. {rule \in Range(idRules) : rule.name = idRules[i].name} = {idRules[i]}
  BY <1>2, <1>3, Zenon DEF Range
<1> QED BY <1>4 DEF FoundRules, TablesInv

\* findIdRule needs a sorted table without two rules of a name: in every table a parsed
\* schema can give, the search for the name of a rule returns that rule.
THEOREM SearchesAreExact == Spec => []FoundIsTheRule
BY SearchIsExact, TablesInvHolds, PTL

\* Types are registered once and never change.
THEOREM MeaningsAreKept == Spec => TypesKeepMeaning
<1>1. [Next]_vars => (\A type \in DOMAIN types :
                        type \in DOMAIN types' /\ types'[type] = types[type])
  BY DEF Next, vars, BeginParse, ParseIdRule, IdRuleFails, ParseIgnoreRule, IgnoreRuleFails,
         ParseTypedef, RegisterType, ItemFails, EndParse
<1> QED BY <1>1, PTL DEF Spec, TypesKeepMeaning

----------------------------------------------------------------------------
(***************************************************************************)
(* validate accepts a configuration exactly if it conforms to the schema   *)
(* that was parsed.  The code looks at one entry at a time and compares    *)
(* unexpanded names; the meaning of a schema speaks of whole trees: of the *)
(* entries a rule is about, and of the scopes an entry lies in.  The       *)
(* lemmas bring the two together, first for names, then for one ignore     *)
(* rule, one entry and one demanded rule.                                  *)
(***************************************************************************)
----------------------------------------------------------------------------
(* Paths below a scope, and their unexpanded names. *)

\* Two paths with the same names are the same path.
LEMMA SamePath ==
  ASSUME NEW p \in Path, NEW q \in Path, Len(p) = Len(q), \A i \in 1..Len(p) : p[i] = q[i]
  PROVE  p = q
BY DEF Path

\* The names of two paths joined.
LEMMA ConcatOfPaths ==
  ASSUME NEW p \in Path, NEW q \in Path
  PROVE  /\ p \o q \in Path /\ Len(p \o q) = Len(p) + Len(q)
         /\ \A i \in 1..Len(p) : (p \o q)[i] = p[i]
         /\ \A i \in 1..Len(q) : (p \o q)[Len(p) + i] = q[i]
BY DEF Path

\* What is below base is base and a rest that is not empty.
LEMMA RestOfEntry ==
  ASSUME NEW base \in Path, NEW p \in Path, IsStrictPrefix(base, p)
  PROVE  /\ RestBelow(base, p) \in Path /\ RestBelow(base, p) # Root
         /\ Len(RestBelow(base, p)) = Len(p) - Len(base) /\ Len(base) < Len(p)
         /\ p = base \o RestBelow(base, p)
         /\ \A i \in 1..(Len(p) - Len(base)) : RestBelow(base, p)[i] = p[Len(base) + i]
<1>1. Len(base) \in Nat /\ Len(p) \in Nat /\ Len(base) <= Len(p) /\ base # p
  BY DEF Path, IsStrictPrefix, IsPrefix
<1>2. ASSUME NEW i \in 1..Len(base) PROVE p[i] = base[i]
  <2>1. SubSeq(base, 1, Len(base)) = SubSeq(p, 1, Len(base))
    BY DEF IsStrictPrefix, IsPrefix
  <2>2. SubSeq(base, 1, Len(base))[i] = base[i] /\ SubSeq(p, 1, Len(base))[i] = p[i]
    BY <1>1 DEF Path
  <2> QED BY <2>1, <2>2
<1>3. Len(base) # Len(p)
  BY <1>1, <1>2, SamePath
<1>4. Len(base) < Len(p)
  BY <1>1, <1>3
<1> DEFINE rest == SubSeq(p, Len(base) + 1, Len(p))
<1>5. /\ rest \in Path /\ Len(rest) = Len(p) - Len(base)
      /\ \A i \in 1..(Len(p) - Len(base)) : rest[i] = p[Len(base) + i]
  BY <1>1, <1>4 DEF Path
<1> HIDE DEF rest
<1>6. rest # Root
  BY <1>1, <1>4, <1>5 DEF Root
<1>7. Len(base \o rest) = Len(p) /\ \A i \in 1..Len(p) : (base \o rest)[i] = p[i]
  <2>1. /\ Len(base \o rest) = Len(base) + Len(rest)
        /\ \A i \in 1..Len(base) : (base \o rest)[i] = base[i]
        /\ \A i \in 1..Len(rest) : (base \o rest)[Len(base) + i] = rest[i]
    BY <1>5, ConcatOfPaths
  <2>2. ASSUME NEW i \in 1..Len(p), i > Len(base) PROVE (base \o rest)[i] = p[i]
    <3>1. i - Len(base) \in 1..Len(rest) /\ Len(base) + (i - Len(base)) = i
      BY <1>1, <1>4, <1>5, <2>2
    <3> QED BY <2>1, <3>1, <1>5
  <2>3. \A i \in 1..Len(p) : i \in 1..Len(base) \/ i > Len(base)
    BY <1>1
  <2> QED BY <1>1, <1>2, <1>4, <1>5, <2>1, <2>2, <2>3
<1>8. p = base \o rest
  BY <1>1, <1>5, <1>7, SamePath, ConcatOfPaths
<1> QED BY <1>4, <1>5, <1>6, <1>8 DEF RestBelow, rest

\* Unexpanding changes each name and nothing else.
LEMMA UnexpandedPath ==
  ASSUME NEW p \in Path
  PROVE  /\ Unexpand(p) \in Path /\ Len(Unexpand(p)) = Len(p)
         /\ \A i \in 1..Len(p) : Unexpand(p)[i] = Plain[p[i]]
<1>1. DOMAIN p = 1..Len(p) /\ Len(p) \in Nat /\ \A i \in 1..Len(p) : p[i] \in Name
  BY DEF Path
<1>2. \A n \in Name : Plain[n] \in Name
  BY PlainNames
<1> QED BY <1>1, <1>2 DEF Unexpand, Path

\* Below a scope whose name is plain, unexpanding a path is unexpanding the rest.
LEMMA UnexpandBelow ==
  ASSUME NEW base \in Path, Unexpand(base) = base, NEW p \in Path, IsStrictPrefix(base, p),
         NEW name \in Path
  PROVE  (Unexpand(p) = base \o name) <=> (Unexpand(RestBelow(base, p)) = name)
<1> DEFINE rest == RestBelow(base, p)
<1>1. rest \in Path /\ p = base \o rest /\ Len(rest) = Len(p) - Len(base)
  BY RestOfEntry
<1> HIDE DEF rest
<1>2. Len(base) \in Nat /\ Len(rest) \in Nat /\ Len(p) = Len(base) + Len(rest) /\ Len(name) \in Nat
  BY <1>1 DEF Path
<1>3. /\ Unexpand(p) \in Path /\ Len(Unexpand(p)) = Len(p)
      /\ \A i \in 1..Len(p) : Unexpand(p)[i] = Plain[p[i]]
  BY UnexpandedPath
<1>4. /\ Unexpand(rest) \in Path /\ Len(Unexpand(rest)) = Len(rest)
      /\ \A i \in 1..Len(rest) : Unexpand(rest)[i] = Plain[rest[i]]
  BY <1>1, UnexpandedPath
<1>5. \A i \in 1..Len(base) : Plain[base[i]] = base[i]
  <2>1. \A i \in 1..Len(base) : Unexpand(base)[i] = Plain[base[i]]
    BY UnexpandedPath
  <2> QED BY <2>1, Zenon
<1>6. \A i \in 1..Len(base) : p[i] = base[i]
  BY <1>1, ConcatOfPaths
<1>7. \A i \in 1..Len(rest) : p[Len(base) + i] = rest[i]
  BY <1>1, ConcatOfPaths
<1>8. Unexpand(p) = base \o Unexpand(rest)
  <2> DEFINE q == base \o Unexpand(rest)
  <2>1. /\ q \in Path /\ Len(q) = Len(base) + Len(Unexpand(rest))
        /\ \A i \in 1..Len(base) : q[i] = base[i]
        /\ \A i \in 1..Len(Unexpand(rest)) : q[Len(base) + i] = Unexpand(rest)[i]
    BY <1>4, ConcatOfPaths
  <2> HIDE DEF q
  <2>2. ASSUME NEW i \in 1..Len(p) PROVE Unexpand(p)[i] = q[i]
    <3>1. CASE i <= Len(base)
      <4>1. i \in 1..Len(base)
        BY <1>2, <3>1
      <4> QED BY <2>1, <1>3, <1>5, <1>6, <3>1, <4>1
    <3>2. CASE i > Len(base)
      <4>1. i - Len(base) \in 1..Len(rest) /\ Len(base) + (i - Len(base)) = i
        BY <1>2, <3>2
      <4>2. q[i] = Plain[rest[i - Len(base)]]
        BY <2>1, <1>4, <4>1
      <4>3. p[i] = rest[i - Len(base)]
        BY <1>7, <4>1
      <4> QED BY <1>3, <4>2, <4>3
    <3> QED BY <3>1, <3>2, <1>2
  <2>3. Unexpand(p) = q
    BY <1>2, <1>3, <1>4, <2>1, <2>2, SamePath
  <2> QED BY <2>3 DEF q
<1>9. ASSUME base \o Unexpand(rest) = base \o name PROVE Unexpand(rest) = name
  <2> DEFINE s == Unexpand(rest)
  <2>1. s \in Path /\ Len(s) \in Nat
    BY <1>4 DEF Path
  <2> HIDE DEF s
  <2>2. Len(base \o s) = Len(base) + Len(s) /\ Len(base \o name) = Len(base) + Len(name)
    BY <2>1, ConcatOfPaths
  <2>3. Len(s) = Len(name)
    BY <1>9, <2>1, <2>2, <1>2 DEF s
  <2>4. ASSUME NEW i \in 1..Len(s) PROVE s[i] = name[i]
    <3>1. (base \o s)[Len(base) + i] = s[i] /\ (base \o name)[Len(base) + i] = name[i]
      BY <1>2, <2>1, <2>3, ConcatOfPaths
    <3> QED BY <3>1, <1>9 DEF s
  <2>5. s = name
    BY <2>1, <2>3, <2>4, SamePath
  <2> QED BY <2>5 DEF s
<1> QED BY <1>8, <1>9 DEF rest

\* name comes before the unexpanded rest exactly if the first names of rest
\* unexpand to it.
LEMMA UnexpandedFront ==
  ASSUME NEW rest \in Path, NEW name \in Path
  PROVE  IsStrictPrefix(name, Unexpand(rest))
           <=> Len(name) < Len(rest) /\ Unexpand(SubSeq(rest, 1, Len(name))) = name
<1> DEFINE s == Unexpand(rest)
           n == Len(name)
<1>1. s \in Path /\ Len(s) = Len(rest) /\ \A i \in 1..Len(rest) : s[i] = Plain[rest[i]]
  BY UnexpandedPath
<1>2. n \in Nat /\ Len(rest) \in Nat
  BY DEF Path
<1>3. IsStrictPrefix(name, s) => n < Len(rest)
  BY <1>1, RestOfEntry
<1>4. SubSeq(name, 1, n) = name
  BY FirstNames, <1>2
<1>5. ASSUME n < Len(rest)
      PROVE  /\ Unexpand(SubSeq(rest, 1, n)) = SubSeq(s, 1, n)
             /\ Len(SubSeq(s, 1, n)) = n
  <2> DEFINE front == SubSeq(rest, 1, n)
             t == SubSeq(s, 1, n)
  <2>1. front \in Path /\ Len(front) = n /\ t \in Path /\ Len(t) = n
    BY <1>1, <1>2, <1>5, FirstNames
  <2>2. \A i \in 1..n : front[i] = rest[i] /\ t[i] = s[i]
    BY <1>1, <1>2, <1>5 DEF Path
  <2> HIDE DEF front, t
  <2>3. /\ Unexpand(front) \in Path /\ Len(Unexpand(front)) = n
        /\ \A i \in 1..n : Unexpand(front)[i] = Plain[front[i]]
    BY <2>1, UnexpandedPath
  <2>4. \A i \in 1..n : i \in 1..Len(rest)
    BY <1>2, <1>5
  <2>5. Unexpand(front) = t
    BY <1>1, <2>1, <2>2, <2>3, <2>4, SamePath
  <2> QED BY <2>1, <2>5 DEF front, t
<1> HIDE DEF s, n
<1>6. ASSUME n < Len(rest) PROVE IsStrictPrefix(name, s) <=> SubSeq(s, 1, n) = name
  BY <1>1, <1>2, <1>4, <1>6 DEF IsStrictPrefix, IsPrefix, n
<1> QED BY <1>3, <1>5, <1>6 DEF s, n

\* The rest below base of what was joined to it.
LEMMA RestBelowConcat ==
  ASSUME NEW base \in Path, NEW vec \in Path
  PROVE  RestBelow(base, base \o vec) = vec
<1> DEFINE p == base \o vec
           rest == SubSeq(p, Len(base) + 1, Len(p))
<1>1. /\ p \in Path /\ Len(p) = Len(base) + Len(vec)
      /\ \A i \in 1..Len(vec) : p[Len(base) + i] = vec[i]
  BY ConcatOfPaths
<1> HIDE DEF p
<1>2. Len(base) \in Nat /\ Len(vec) \in Nat
  BY DEF Path
<1>3. /\ rest \in Path /\ Len(rest) = Len(vec)
      /\ \A i \in 1..Len(vec) : rest[i] = p[Len(base) + i]
  BY <1>1, <1>2 DEF Path
<1> HIDE DEF rest
<1>4. rest = vec
  BY <1>1, <1>3, SamePath
<1> QED BY <1>4 DEF RestBelow, rest, p

----------------------------------------------------------------------------
(* Ignore rules. *)

\* What shouldIgnore asks of one rule.
IgnoredBy(t, scope, rest, rule) ==
  /\ rule.name # Root /\ IsStrictPrefix(rule.name, Unexpand(rest))
  /\ \/ rule.symbol = "Everything"
     \/ rule.symbol = "Variables" /\ Len(rest) = Len(rule.name) + 1
          /\ IsVariable(t, scope \o rest)
     \/ rule.symbol = "Scopes"
          /\ (Len(rest) > Len(rule.name) + 1 \/ FindItem(t, scope \o rest).type = "Scope")

\* The scope that lies n names below base on the way to p.
LEMMA ScopeOnTheWay ==
  ASSUME NEW t, IsTree(t), Rooted(t), NEW base \in Path, NEW p \in EntriesBelow(t, base),
         NEW rest, rest = RestBelow(base, p), NEW n \in 1..(Len(rest) - 1)
  PROVE  /\ IsScope(t, SubSeq(p, 1, Len(base) + n))
         /\ SubSeq(p, 1, Len(base) + n) # Root
         /\ Len(SubSeq(p, 1, Len(base) + n)) = Len(base) + n
         /\ \A name : SubSeq(p, 1, Len(base) + n) \in Instances(t, base, name)
                       <=> Unexpand(SubSeq(rest, 1, n)) = name
<1> DEFINE outer == SubSeq(p, 1, Len(base) + n)
           vec == SubSeq(rest, 1, n)
<1>1. p \in DOMAIN t /\ p \in Path /\ IsStrictPrefix(base, p)
  BY DEF EntriesBelow, IsTree
<1>2. rest \in Path /\ p = base \o rest /\ Len(rest) = Len(p) - Len(base)
  BY <1>1, RestOfEntry
<1>3. Len(base) \in Nat /\ Len(p) \in Nat /\ Len(rest) \in Nat /\ n \in Nat /\ n >= 1
  BY <1>1, <1>2 DEF Path
<1>4. vec \in Path /\ Len(vec) = n /\ vec # Root
  BY <1>2, <1>3, FirstNames
<1>5. outer = base \o vec
  <2>1. Len(base) + n \in 0..(Len(base) + Len(rest)) /\ Len(base) + n > Len(base)
    BY <1>2, <1>3
  <2>2. (Len(base) + n) - Len(base) = n
    BY <1>3
  <2>3. SubSeq(base \o rest, 1, Len(base) + n) = base \o SubSeq(rest, 1, (Len(base) + n) - Len(base))
    BY <1>2, <2>1, FirstNamesOfConcat
  <2> QED BY <1>2, <2>2, <2>3
<1>6. IsScope(t, outer)
  <2>1. Len(base) + n \in 1..(Len(p) - 1)
    BY <1>2, <1>3
  <2> QED BY <1>1, <2>1 DEF Rooted
<1> HIDE DEF outer, vec
<1>7. outer # Root /\ IsStrictPrefix(base, outer) /\ Len(outer) = Len(base) + n
  BY <1>4, <1>5, BelowIsLonger
<1>8. RestBelow(base, outer) = vec
  BY <1>4, <1>5, RestBelowConcat
<1>9. outer \in EntriesBelow(t, base)
  BY <1>6, <1>7 DEF IsScope, EntriesBelow
<1>10. \A name : outer \in Instances(t, base, name) <=> Unexpand(vec) = name
  BY <1>8, <1>9 DEF Instances
<1> QED BY <1>6, <1>7, <1>10 DEF outer, vec

\* A rule ignores an entry exactly if it exempts it: what is asked of the entry's
\* name and type says in which scope it lies and what is on the way.
LEMMA IgnoredIsExempt ==
  ASSUME NEW t, IsTree(t), Rooted(t), NEW base \in Path, NEW p \in EntriesBelow(t, base),
         NEW rule \in IgnoreRule, rule.name # Root
  PROVE  IgnoredBy(t, base, RestBelow(base, p), rule) <=> Exempt(t, base, rule, p)
<1> DEFINE rest == RestBelow(base, p)
           name == rule.name
           k == Len(name)
           Outer(n) == SubSeq(p, 1, Len(base) + n)
           Inner(n) == SubSeq(p, 1, Len(base) + n + 1)
           Kind(n) == CASE rule.symbol = "Everything" -> TRUE
                        [] rule.symbol = "Scopes"     -> IsScope(t, Inner(n))
                        [] rule.symbol = "Variables"  -> Inner(n) = p /\ IsVariable(t, p)
           Asked == \/ rule.symbol = "Everything"
                    \/ rule.symbol = "Variables" /\ Len(rest) = k + 1 /\ IsVariable(t, base \o rest)
                    \/ rule.symbol = "Scopes"
                         /\ (Len(rest) > k + 1 \/ FindItem(t, base \o rest).type = "Scope")
<1>1. p \in DOMAIN t /\ p \in Path /\ IsStrictPrefix(base, p) /\ t[p] \in Item
  BY DEF EntriesBelow, IsTree
<1>2. rest \in Path /\ p = base \o rest /\ Len(rest) = Len(p) - Len(base) /\ Len(base) < Len(p)
  BY <1>1, RestOfEntry
<1>3. name \in Path /\ name # Root /\ rule.symbol \in Symbol
  BY RuleNames DEF IgnoreRule
<1> HIDE DEF rest, name
<1>4. Len(base) \in Nat /\ Len(p) \in Nat /\ Len(rest) \in Nat /\ k \in Nat /\ k >= 1
  BY <1>1, <1>2, <1>3 DEF Path, Root
<1> HIDE DEF k
<1>5. ASSUME NEW n \in 1..(Len(rest) - 1)
      PROVE  Outer(n) \in Instances(t, base, name) <=> Unexpand(SubSeq(rest, 1, n)) = name
  BY ScopeOnTheWay DEF rest
<1>6. ASSUME NEW n \in 1..(Len(rest) - 1), Unexpand(SubSeq(rest, 1, n)) = name
      PROVE  n = k
  <2>1. SubSeq(rest, 1, n) \in Path /\ Len(SubSeq(rest, 1, n)) = n
    BY <1>2, <1>4, FirstNames
  <2> QED BY <2>1, <1>6, UnexpandedPath DEF k
<1>7. IsStrictPrefix(name, Unexpand(rest))
        <=> k \in 1..(Len(rest) - 1) /\ Unexpand(SubSeq(rest, 1, k)) = name
  <2>1. k < Len(rest) <=> k \in 1..(Len(rest) - 1)
    BY <1>4
  <2> QED BY <1>2, <1>3, <2>1, UnexpandedFront DEF k
<1>8. ASSUME k \in 1..(Len(rest) - 1) PROVE Asked <=> Kind(k)
  <2>1. CASE Len(rest) = k + 1
    <3>1. Inner(k) = p
      <4>1. Len(base) + k + 1 = Len(p) /\ Len(p) \in 0..Len(p)
        BY <1>2, <1>4, <2>1
      <4> QED BY <4>1, <1>1, FirstNames
    <3>2. IsScope(t, p) <=> t[p].type = "Scope"
      BY <1>1, <1>2, <1>4 DEF IsScope, Root, IsTree
    <3>3. ~(Len(rest) > k + 1)
      BY <2>1, <1>4
    <3> QED BY <1>1, <1>2, <1>3, <2>1, <3>1, <3>2, <3>3 DEF FindItem, Symbol
  <2>2. CASE Len(rest) > k + 1
    <3>1. k + 1 \in 1..(Len(rest) - 1) /\ Len(base) + (k + 1) = Len(base) + k + 1
      BY <1>2, <1>4, <2>2
    <3>2. IsScope(t, Inner(k)) /\ Len(Inner(k)) = Len(base) + (k + 1)
      <4>1. /\ IsScope(t, SubSeq(p, 1, Len(base) + (k + 1)))
            /\ Len(SubSeq(p, 1, Len(base) + (k + 1))) = Len(base) + (k + 1)
        BY <3>1, ScopeOnTheWay DEF rest
      <4> QED BY <3>1, <4>1
    <3>3. Inner(k) # p /\ Len(rest) # k + 1
      BY <1>2, <1>4, <2>2, <3>1, <3>2
    <3> QED BY <1>3, <2>2, <3>2, <3>3 DEF Symbol
  <2>3. Len(rest) = k + 1 \/ Len(rest) > k + 1
    BY <1>4, <1>8
  <2> HIDE DEF Asked, Kind
  <2> QED BY <2>1, <2>2, <2>3
<1>9. IgnoredBy(t, base, rest, rule) <=> IsStrictPrefix(name, Unexpand(rest)) /\ Asked
  BY <1>3 DEF IgnoredBy, name, k
<1>10. Exempt(t, base, rule, p)
         <=> \E n \in 1..(Len(rest) - 1) : Outer(n) \in Instances(t, base, name) /\ Kind(n)
  BY <1>2 DEF Exempt, name
<1> HIDE DEF Asked, Kind, Outer
<1> QED BY <1>5, <1>6, <1>7, <1>8, <1>9, <1>10 DEF rest, name

----------------------------------------------------------------------------
(* The verdict on an entry, and on what is demanded. *)

\* The instances in which validate does what the schema says.
PlainCalls ==
  /\ SoundsUid = {}
  /\ \A call \in Calls : call.local = Root /\ Unexpand(call.scope) = call.scope

\* The tables hold the rules of the schema, each kind in its own.
LEMMA RulesOfSchema ==
  ASSUME TablesInv, phase = "ready"
  PROVE  given \cap IdRule = Range(idRules) /\ given \cap IgnoreRule = Range(ignoreRules)
<1>1. ASSUME NEW rule \in IdRule PROVE rule \notin IgnoreRule
  <2>1. DOMAIN rule = {"name", "required", "type"}
    BY DEF IdRule
  <2>2. \A other \in IgnoreRule : DOMAIN other = {"symbol", "name"}
    BY DEF IgnoreRule
  <2>3. "symbol" \notin {"name", "required", "type"}
    OBVIOUS
  <2> QED BY <2>1, <2>2, <2>3
<1>2. Range(idRules) \subseteq IdRule /\ Range(ignoreRules) \subseteq IgnoreRule
  BY DEF TablesInv, SchemaTypeOK, Range
<1>3. given = Range(idRules) \cup Range(ignoreRules)
  BY DEF TablesInv
<1> QED BY <1>1, <1>2, <1>3

\* What is demanded of a rule's name is looked for in the right places.
LEMMA DemandIsChecked ==
  ASSUME NEW t, IsTree(t), NEW base \in Path, Unexpand(base) = base, SoundsUid = {},
         NEW name \in Path, name # Root
  PROVE  (IF HasUidText(name) THEN RequiredUidEntry(t, base, name) ELSE base \o name \in DOMAIN t)
           <=> Present(t, base, name)
<1>1. HasUidText(name) <=> HasUid(name)
  BY DEF HasUidText, HasUid
<1>2. HasUidText(<<Last(name)>>) <=> Last(name) \in UidName
  <2>1. DOMAIN <<Last(name)>> = {1} /\ <<Last(name)>>[1] = Last(name)
    OBVIOUS
  <2> QED BY <2>1 DEF HasUidText
<1>3. Front(name) \in Path
  BY FrontOfPath
<1>4. ASSUME NEW q
      PROVE  q \in EntriesBelow(t, base) /\ Unexpand(q) = base \o Front(name)
               <=> q \in Instances(t, base, Front(name))
  <2>1. q \in EntriesBelow(t, base) => q \in Path /\ IsStrictPrefix(base, q)
    BY DEF EntriesBelow, IsTree
  <2>2. q \in EntriesBelow(t, base) =>
          (Unexpand(q) = base \o Front(name) <=> Unexpand(RestBelow(base, q)) = Front(name))
    BY <1>3, <2>1, UnexpandBelow
  <2> QED BY <2>2 DEF Instances
<1>5. RequiredUidEntry(t, base, name)
        <=> Last(name) \in UidName \/
              \A q \in Instances(t, base, Front(name)) : IsScope(t, q) => Append(q, Last(name)) \in DOMAIN t
  BY <1>2, <1>4 DEF RequiredUidEntry
<1> QED BY <1>1, <1>5 DEF Present

\* One entry: it is exempt, or a rule allows it, or it is refused.
EntryConforms(t, base, p) ==
  (\E rule \in given \cap IgnoreRule : Exempt(t, base, rule, p)) \/ Allowed(t, base, p)

\* An entry is accepted exactly if it conforms.
LEMMA EntryIsJudged ==
  ASSUME TablesInv, phase = "ready", NEW t, IsTree(t), Rooted(t),
         NEW call \in Calls, call.local = Root, NEW p \in EntriesBelow(t, call.scope)
  PROVE  EntryVerdicts(t, call, p) = {IF EntryConforms(t, call.scope, p) THEN "ok" ELSE "config"}
<1> DEFINE base == call.scope
           rest == RestBelow(base, p)
           name == Unexpand(rest)
<1>1. base \in Path /\ Base(call) = base
  BY CallsNameScopes DEF Base, Path, Root
<1>2. p \in DOMAIN t /\ p \in Path /\ IsStrictPrefix(base, p)
  BY DEF EntriesBelow, IsTree
<1>3. rest \in Path /\ rest # Root
  BY <1>1, <1>2, RestOfEntry
<1>4. given \cap IdRule = Range(idRules) /\ given \cap IgnoreRule = Range(ignoreRules)
  BY RulesOfSchema
<1>5. ShouldIgnore(t, base, rest) <=> \E rule \in given \cap IgnoreRule : Exempt(t, base, rule, p)
  <2>1. \A rule \in Range(ignoreRules) : rule \in IgnoreRule /\ rule.name # Root
    BY DEF TablesInv, SchemaTypeOK, Range
  <2>2. ASSUME NEW rule \in Range(ignoreRules)
        PROVE  IgnoredBy(t, base, rest, rule) <=> Exempt(t, base, rule, p)
    BY <1>1, <2>1, IgnoredIsExempt
  <2>3. ShouldIgnore(t, base, rest) <=> \E rule \in Range(ignoreRules) : IgnoredBy(t, base, rest, rule)
    BY DEF ShouldIgnore, IgnoredBy
  <2> QED BY <1>4, <2>2, <2>3
<1> HIDE DEF base, rest, name
<1>6. ASSUME NEW rule \in Range(idRules), rule.name = name
      PROVE  /\ FoundRules(name) = {rule}
             /\ {RuleVerdict(r, t[p]) : r \in FoundRules(name)}
                  = {IF t[p] \in types[rule.type] THEN "ok" ELSE "config"}
             /\ Allowed(t, base, p) <=> t[p] \in types[rule.type]
  <2>1. PICK i \in DOMAIN idRules : rule = idRules[i]
    BY DEF Range
  <2>2. FoundRules(name) = {rule}
    BY <1>6, <2>1, SearchIsExact DEF FoundIsTheRule
  <2>3. \A r \in Range(idRules) : r.name = name => r = rule
    BY <2>2 DEF FoundRules
  <2>4. rule.type \in DOMAIN types /\ rule # NoRule
    BY DEF TablesInv, NoRule
  <2>5. {RuleVerdict(r, t[p]) : r \in FoundRules(name)} = {RuleVerdict(rule, t[p])}
    BY <2>2
  <2>6. \A r \in Range(idRules) : p \in Instances(t, base, r.name) <=> r.name = name
    BY DEF Instances, base, rest, name
  <2>7. Allowed(t, base, p) <=> t[p] \in types[rule.type]
    BY <1>4, <1>6, <2>3, <2>6 DEF Allowed
  <2> QED BY <2>2, <2>4, <2>5, <2>7 DEF RuleVerdict
<1>7. ASSUME \A rule \in Range(idRules) : rule.name # name
      PROVE  /\ {RuleVerdict(r, t[p]) : r \in FoundRules(name)} = {"config"}
             /\ ~Allowed(t, base, p)
  <2>1. FoundRules(name) = {NoRule}
    BY <1>7 DEF FoundRules
  <2>2. {RuleVerdict(r, t[p]) : r \in FoundRules(name)} = {RuleVerdict(NoRule, t[p])}
    BY <2>1
  <2>3. RuleVerdict(NoRule, t[p]) = "config"
    BY DEF RuleVerdict
  <2>4. \A r \in Range(idRules) : p \notin Instances(t, base, r.name)
    BY <1>7 DEF Instances, base, rest, name
  <2> QED BY <1>4, <2>2, <2>3, <2>4 DEF Allowed
<1>8. EntryVerdicts(t, call, p) =
        IF ShouldIgnore(t, base, rest) THEN {"ok"}
        ELSE {RuleVerdict(r, t[p]) : r \in FoundRules(name)}
  BY <1>1 DEF EntryVerdicts, base, rest, name
<1>9. CASE \E rule \in Range(idRules) : rule.name = name
  BY <1>5, <1>6, <1>8, <1>9 DEF EntryConforms, base
<1>10. CASE \A rule \in Range(idRules) : rule.name # name
  BY <1>5, <1>7, <1>8, <1>10 DEF EntryConforms, base
<1> QED BY <1>9, <1>10

\* What the force mode demands is there exactly if validateForceMode accepts it.
LEMMA ForceModeIsChecked ==
  ASSUME TablesInv, phase = "ready", SoundsUid = {}, NEW t, IsTree(t),
         NEW base \in Path, Unexpand(base) = base, NEW mode \in ForceMode
  PROVE  ForceModeOK(t, base, mode) <=> \A rule \in Demanded(mode) : Present(t, base, rule.name)
<1>1. given \cap IdRule = Range(idRules)
  BY RulesOfSchema
<1>2. ASSUME NEW rule \in Range(idRules)
      PROVE  (IF HasUidText(rule.name) THEN RequiredUidEntry(t, base, rule.name)
              ELSE base \o rule.name \in DOMAIN t) <=> Present(t, base, rule.name)
  <2>1. rule \in IdRule
    BY DEF TablesInv, SchemaTypeOK, Range
  <2>2. rule.name \in Path /\ rule.name # Root
    BY <2>1, RuleNames DEF IdRule, TablesInv
  <2> QED BY <2>2, DemandIsChecked
<1>3. Demanded(mode) = {rule \in Range(idRules) : mode = "Required" \/ (mode = "None" /\ rule.required)}
  BY <1>1 DEF Demanded
<1>4. ForceModeOK(t, base, mode)
        <=> (mode # "Optional" =>
               \A rule \in Range(idRules) :
                 mode = "Required" \/ rule.required => Present(t, base, rule.name))
  BY <1>2 DEF ForceModeOK
<1> QED BY <1>3, <1>4 DEF ForceMode

\* All listed entries and all that is demanded together.
LEMMA VerdictIsConformance ==
  ASSUME TablesInv, phase = "ready", PlainCalls,
         NEW t \in Trees, NEW call \in Calls, NEW mode \in ForceMode
  PROVE  Verdicts(t, call, mode) = {IF Conforms(t, call, mode) THEN "ok" ELSE "config"}
<1> DEFINE base == call.scope
           verdicts == [p \in Listed(t, call) |-> EntryVerdicts(t, call, p)]
           allOk == \A p \in DOMAIN verdicts : "ok" \in verdicts[p]
           force == ForceModeOK(t, base, mode)
<1>1. IsTree(t) /\ Rooted(t) /\ call.local = Root /\ Unexpand(base) = base /\ SoundsUid = {}
  BY TreesAreTrees DEF PlainCalls
<1>2. base \in Path /\ Base(call) = base
  BY <1>1, CallsNameScopes DEF Base, Path, Root
<1>3. Listed(t, call) \subseteq EntriesBelow(t, base)
  BY <1>2 DEF Listed
<1>4. ASSUME NEW p \in Listed(t, call)
      PROVE  EntryVerdicts(t, call, p) = {IF EntryConforms(t, base, p) THEN "ok" ELSE "config"}
  BY <1>1, <1>3, EntryIsJudged
<1>5. force <=> \A rule \in Demanded(mode) : Present(t, base, rule.name)
  BY <1>1, <1>2, ForceModeIsChecked
<1>6. ASSUME NEW p \in EntriesBelow(t, base)
      PROVE  p \in Listed(t, call) <=> (call.recurse \/ Front(p) = base) /\ t[p].type \in call.mask
  <2>1. p \in Path /\ IsStrictPrefix(base, p)
    BY <1>1 DEF EntriesBelow, IsTree
  <2>2. Len(p) = Len(base) + 1 <=> Front(p) = base
    <3>1. Len(base) \in Nat /\ Len(p) \in Nat /\ Len(base) < Len(p)
      BY <1>2, <2>1, RestOfEntry DEF Path
    <3>2. p # Root
      BY <3>1 DEF Root
    <3>3. Front(p) \in Path /\ Len(Front(p)) = Len(p) - 1 /\ Front(p) = SubSeq(p, 1, Len(p) - 1)
      BY <2>1, <3>2, FrontOfPath DEF Front
    <3>4. ASSUME Len(p) = Len(base) + 1 PROVE Front(p) = base
      <4>1. SubSeq(base, 1, Len(base)) = SubSeq(p, 1, Len(base))
        BY <2>1 DEF IsStrictPrefix, IsPrefix
      <4>2. SubSeq(base, 1, Len(base)) = base
        BY <1>2, <3>1, FirstNames
      <4>3. Len(p) - 1 = Len(base)
        BY <3>1, <3>4
      <4> QED BY <3>3, <4>1, <4>2, <4>3
    <3> QED BY <3>1, <3>3, <3>4
  <2> QED BY <1>2, <2>2 DEF Listed
<1>7. Conforms(t, call, mode)
        <=> IsScope(t, base) /\ (\A p \in Listed(t, call) : EntryConforms(t, base, p)) /\ force
  BY <1>2, <1>3, <1>5, <1>6 DEF Conforms, EntryConforms
<1>8. Verdicts(t, call, mode) =
        IF ~IsScope(t, base) THEN {"config"}
        ELSE ((UNION Range(verdicts)) \ {"ok"})
               \cup (IF allOk THEN {IF force THEN "ok" ELSE "config"} ELSE {})
  BY <1>2 DEF Verdicts
<1>9. DOMAIN verdicts = Listed(t, call) /\ \A p \in Listed(t, call) : verdicts[p] = EntryVerdicts(t, call, p)
  OBVIOUS
<1> HIDE DEF verdicts, force, base
<1>10. allOk <=> \A p \in Listed(t, call) : EntryConforms(t, base, p)
  BY <1>4, <1>9
<1>11. ASSUME allOk PROVE (UNION Range(verdicts)) \ {"ok"} = {}
  BY <1>4, <1>9, <1>10, <1>11 DEF Range
<1>12. ASSUME ~allOk PROVE (UNION Range(verdicts)) \ {"ok"} = {"config"}
  <2>1. \A p \in Listed(t, call) : verdicts[p] \subseteq {"ok", "config"}
    BY <1>4, <1>9
  <2>2. PICK p \in Listed(t, call) : verdicts[p] = {"config"}
    BY <1>4, <1>9, <1>10, <1>12
  <2>3. verdicts[p] \in Range(verdicts)
    BY <1>9 DEF Range
  <2>4. UNION Range(verdicts) \subseteq {"ok", "config"}
    BY <1>9, <2>1 DEF Range
  <2>5. "config" \in UNION Range(verdicts)
    BY <2>2, <2>3
  <2> QED BY <2>4, <2>5
<1> HIDE DEF allOk
<1>13. CASE IsScope(t, base) /\ allOk
  BY <1>7, <1>8, <1>10, <1>11, <1>13
<1>14. CASE IsScope(t, base) /\ ~allOk
  BY <1>7, <1>8, <1>10, <1>12, <1>14
<1>15. CASE ~IsScope(t, base)
  BY <1>7, <1>8, <1>15
<1> QED BY <1>13, <1>14, <1>15

\* validate accepts exactly the configurations that conform to the schema it has
\* parsed, for every schema, tree, type mask and force mode, where no name sounds
\* like an uid- name and the scope is plain and given without a local name.
THEOREM ValidatesExactly == Spec => [](PlainCalls => ValidatesAsDefined)
<1>1. TablesInv => (PlainCalls => ValidatesAsDefined)
  BY VerdictIsConformance DEF ValidatesAsDefined
<1> QED BY <1>1, TablesInvHolds, PTL

=============================================================================
