--------------------------- MODULE SchemaValidator ---------------------------
(***************************************************************************)
(* SchemaValidator and SchemaParser: the tables of rules that parseSchema  *)
(* builds from a schema, and the verdict of validate on a configuration.   *)
(*                                                                         *)
(* A schema is chosen while it is parsed, one rule per step.  validate     *)
(* changes nothing, so it is an operator on the tables and on the tree of  *)
(* a configuration that has no fallback and is not being parsed.  A type   *)
(* stands for a type name with its arguments.                              *)
(***************************************************************************)
EXTENDS ConfigTree, FiniteSets, Functions

CONSTANTS
  Plain,      \* [name -> the name unexpandUid makes of it]
  UidName,    \* unexpanded names that begin with "uid-"
  SoundsUid,  \* names that have "uid-" in the middle
  RuleName,   \* names a rule may have
  Order,      \* [rule name, or none -> its place in the order of strcmp]
  BuiltIn,    \* types registered by the constructor, with what they accept
  Custom,     \* types that a subclass may register
  TypeName,   \* names of types, of those that are not registered too
  Trees,      \* configurations that may be validated
  Calls,      \* the scopes validate may be asked for, and the entries it is to list
  MaxRules    \* bound: rules of a schema

ASSUME PlainNames == Plain \in [Name -> Name] /\ \A n \in Name : Plain[Plain[n]] = Plain[n]
ASSUME UidNames ==
  /\ UidName \subseteq Name /\ SoundsUid \subseteq Name
  /\ \A n \in Name : Plain[n] # n => Plain[n] \in UidName
ASSUME RuleNames == RuleName \subseteq Path \ {Root}
ASSUME NamesAreOrdered == Order \in [RuleName \cup {Root} -> Nat] /\ IsInjective(Order)
ASSUME BuiltInTypes ==
  /\ DOMAIN BuiltIn \subseteq TypeName
  /\ \A type \in DOMAIN BuiltIn : BuiltIn[type] \subseteq Item
ASSUME CustomTypes ==
  /\ DOMAIN Custom \subseteq TypeName
  /\ \A type \in DOMAIN Custom : Custom[type] \subseteq Item
ASSUME NoneIsNoType == None \notin TypeName
ASSUME TreesAreTrees == \A t \in Trees : IsTree(t) /\ Rooted(t)
ASSUME CallsNameScopes ==
  Calls \subseteq [scope : Path, local : Path, recurse : BOOLEAN,
                   mask : SUBSET {"String", "List", "Scope"}]
ASSUME RuleBound == MaxRules \in Nat

VARIABLES
  idRules,      \* m_idRules up to m_idRulesCurrSize
  ignoreRules,  \* m_ignoreRules up to m_ignoreRulesCurrSize
  types,        \* m_types: [name -> the items the type accepts]
  phase,        \* what became of parseSchema: "none", "parsing", "ready", "failed"
  given         \* the rules of the schema parsed so far (history)

vars == <<idRules, ignoreRules, types, phase, given>>

----------------------------------------------------------------------------
(* Rules. *)

\* What a rule may be when its parsing stopped half-way: the name and the type
\* are set one after the other.
IdRule == [name : RuleName \cup {Root}, required : BOOLEAN, type : TypeName \cup {None}]

Symbol == {"Everything", "Scopes", "Variables"}
IgnoreRule == [symbol : Symbol, name : RuleName \cup {Root}]

SchemaTypeOK ==
  /\ idRules \in Seq(IdRule)
  /\ ignoreRules \in Seq(IgnoreRule)
  /\ DOMAIN types \subseteq TypeName
  /\ \A type \in DOMAIN types : types[type] \subseteq Item
  /\ phase \in {"none", "parsing", "ready", "failed"}
  /\ given \subseteq IdRule \cup IgnoreRule

Init ==
  /\ idRules = << >>
  /\ ignoreRules = << >>
  /\ types = BuiltIn
  /\ phase = "none"
  /\ given = {}

----------------------------------------------------------------------------
(* parseSchema. *)

\* Mutant: the tables are not emptied.
BeginParseKeeps ==
  /\ phase # "parsing"
  /\ phase' = "parsing"
  /\ given' = {}
  /\ UNCHANGED <<idRules, ignoreRules, types>>

\* The tables are replaced; what was in them is forgotten.
BeginParse ==
  /\ phase # "parsing"
  /\ idRules' = << >>
  /\ ignoreRules' = << >>
  /\ phase' = "parsing"
  /\ given' = {}
  /\ UNCHANGED types

\* The schema may have another item.
AtItem == phase = "parsing" /\ Len(idRules) + Len(ignoreRules) < MaxRules

HasUid(name) == \E i \in DOMAIN name : name[i] \in UidName

\* parseIdRule: the rule is in the table before it is parsed.  @required is
\* refused for a name that ends with an uid- name.
ParseIdRule(rule) ==
  /\ AtItem
  /\ rule.name # Root
  /\ rule.type \in DOMAIN types
  /\ rule.required => Last(rule.name) \notin UidName
  /\ idRules' = Append(idRules, rule)
  /\ given' = given \cup {rule}
  /\ UNCHANGED <<ignoreRules, types, phase>>

\* It stopped somewhere: what it had set by then stays in the table.
IdRuleFails(rule) ==
  /\ AtItem
  /\ rule.type # None =>
       rule.name # Root /\ (rule.required => Last(rule.name) \notin UidName)
  /\ idRules' = Append(idRules, rule)
  /\ phase' = "failed"
  /\ UNCHANGED <<ignoreRules, types, given>>

ParseIgnoreRule(rule) ==
  /\ AtItem
  /\ rule.name # Root
  /\ ignoreRules' = Append(ignoreRules, rule)
  /\ given' = given \cup {rule}
  /\ UNCHANGED <<idRules, types, phase>>

IgnoreRuleFails(rule) ==
  /\ AtItem
  /\ ignoreRules' = Append(ignoreRules, rule)
  /\ phase' = "failed"
  /\ UNCHANGED <<idRules, types, given>>

\* Mutant: a type is registered again under the same name.
ParseTypedefAgain(type, base) ==
  /\ phase = "parsing"
  /\ IF base \in DOMAIN types
     THEN /\ types' = [t \in DOMAIN types \cup {type} |->
                         IF t = type THEN types[base] ELSE types[t]]
          /\ UNCHANGED phase
     ELSE phase' = "failed" /\ UNCHANGED types
  /\ UNCHANGED <<idRules, ignoreRules, given>>

\* parseUserTypeDef: the new type accepts what its base accepts.
ParseTypedef(type, base) ==
  /\ phase = "parsing"
  /\ IF base \in DOMAIN types /\ type \notin DOMAIN types
     THEN /\ types' = [t \in DOMAIN types \cup {type} |->
                         IF t = type THEN types[base] ELSE types[t]]
          /\ UNCHANGED phase
     ELSE phase' = "failed" /\ UNCHANGED types
  /\ UNCHANGED <<idRules, ignoreRules, given>>

\* registerType, by a subclass; a name that is taken is refused and nothing changes.
RegisterType(type) ==
  /\ phase # "parsing"
  /\ type \notin DOMAIN types
  /\ types' = [t \in DOMAIN types \cup {type} |-> IF t = type THEN Custom[type] ELSE types[t]]
  /\ UNCHANGED <<idRules, ignoreRules, phase, given>>

\* An item that is no rule, or a type definition that is malformed.
ItemFails ==
  /\ phase = "parsing"
  /\ phase' = "failed"
  /\ UNCHANGED <<idRules, ignoreRules, types, given>>

RulesSorted(table) ==
  \A i, j \in DOMAIN table : i < j => Order[table[i].name] <= Order[table[j].name]

HasDuplicates(table) ==
  \E i \in 1..(Len(table) - 1) : table[i].name = table[i + 1].name

\* Mutant: the rules are not sorted.
EndParseUnsorted ==
  /\ phase = "parsing"
  /\ phase' = IF HasDuplicates(idRules) THEN "failed" ELSE "ready"
  /\ UNCHANGED <<idRules, ignoreRules, types, given>>

\* The rules are sorted, then neighbours compared.
EndParse ==
  /\ phase = "parsing"
  /\ \E place \in Bijection(DOMAIN idRules, DOMAIN idRules) :
       LET table == [i \in DOMAIN idRules |-> idRules[place[i]]]
       IN  /\ RulesSorted(table)
           /\ idRules' = table
           /\ phase' = IF HasDuplicates(table) THEN "failed" ELSE "ready"
  /\ UNCHANGED <<ignoreRules, types, given>>

Next ==
  \/ BeginParse
  \/ \E rule \in IdRule : ParseIdRule(rule) \/ IdRuleFails(rule)
  \/ \E rule \in IgnoreRule : ParseIgnoreRule(rule) \/ IgnoreRuleFails(rule)
  \/ \E type, base \in TypeName : ParseTypedef(type, base)
  \/ \E type \in DOMAIN Custom : RegisterType(type)
  \/ ItemFails
  \/ EndParse

Spec == Init /\ [][Next]_vars

----------------------------------------------------------------------------
(* validate, on the tree t. *)

\* The scope that is validated.
Base(call) == call.scope \o call.local

Unexpand(p) == [i \in DOMAIN p |-> Plain[p[i]]]

\* The rest of the path p below base.
RestBelow(base, p) == SubSeq(p, Len(base) + 1, Len(p))

\* listLocallyScopedNames: everything below base, or only what is directly in it,
\* and of that what has a type of the mask.  Scopes are entered whatever the mask.
EntriesBelow(t, base) == {p \in DOMAIN t : IsStrictPrefix(base, p)}
Listed(t, call) ==
  {p \in EntriesBelow(t, Base(call)) :
     t[p].type \in call.mask /\ (call.recurse \/ Len(p) = Len(Base(call)) + 1)}

NoRule == [name |-> Root, required |-> FALSE, type |-> None]

\* findIdRule: a binary search.  In a table that is not sorted it may miss the
\* rule, and of several with the name it returns any.
FoundRules(name) ==
  LET matches == {rule \in Range(idRules) : rule.name = name}
  IN  IF matches # {} /\ RulesSorted(idRules) THEN matches ELSE matches \cup {NoRule}

\* shouldIgnore: type(scope, expandedName) is asked for the name rest relative
\* to scope, although it is relative to scope and local.
ShouldIgnore(t, scope, rest) ==
  \E rule \in Range(ignoreRules) :
    /\ rule.name # Root /\ IsStrictPrefix(rule.name, Unexpand(rest))
    /\ \/ rule.symbol = "Everything"
       \/ rule.symbol = "Variables" /\ Len(rest) = Len(rule.name) + 1
            /\ IsVariable(t, scope \o rest)
       \/ rule.symbol = "Scopes"
            /\ (Len(rest) > Len(rule.name) + 1 \/ FindItem(t, scope \o rest).type = "Scope")

\* A type that is not registered is an assertion.
RuleVerdict(rule, item) ==
  CASE rule = NoRule -> "config"
    [] rule # NoRule /\ rule.type \notin DOMAIN types -> "foreign"
    [] OTHER -> IF item \in types[rule.type] THEN "ok" ELSE "config"

EntryVerdicts(t, call, p) ==
  LET rest == RestBelow(Base(call), p)
  IN  IF ShouldIgnore(t, call.scope, rest) THEN {"ok"}
      ELSE {RuleVerdict(rule, t[p]) : rule \in FoundRules(Unexpand(rest))}

HasUidText(name) == \E i \in DOMAIN name : name[i] \in UidName \cup SoundsUid

\* validateRequiredUidEntry: the scopes are listed by a pattern, with which
\* unexpanded names are compared.
RequiredUidEntry(t, base, name) ==
  HasUidText(<<Last(name)>>) \/
    \A q \in EntriesBelow(t, base) :
      IsScope(t, q) /\ Unexpand(q) = base \o Front(name)
        => Append(q, Last(name)) \in DOMAIN t

ForceMode == {"None", "Optional", "Required"}

\* validateForceMode.
ForceModeOK(t, base, mode) ==
  mode # "Optional" =>
    \A rule \in Range(idRules) :
      mode = "Required" \/ rule.required =>
        IF HasUidText(rule.name) THEN RequiredUidEntry(t, base, rule.name)
        ELSE base \o rule.name \in DOMAIN t

\* Entries are looked at one by one and the first that is not right raises its
\* exception; which comes first is left open.
Verdicts(t, call, mode) ==
  LET verdicts == [p \in Listed(t, call) |-> EntryVerdicts(t, call, p)]
      allOk    == \A p \in DOMAIN verdicts : "ok" \in verdicts[p]
  IN  IF ~IsScope(t, Base(call)) THEN {"config"}
      ELSE ((UNION Range(verdicts)) \ {"ok"})
             \cup (IF allOk THEN {IF ForceModeOK(t, Base(call), mode) THEN "ok" ELSE "config"} ELSE {})

----------------------------------------------------------------------------
(* What a schema means. *)

\* The entries a rule of the schema is about: those whose unexpanded name,
\* relative to the validated scope, is that of the rule.
Instances(t, base, name) ==
  {p \in EntriesBelow(t, base) : Unexpand(RestBelow(base, p)) = name}

\* An entry in a scope of the rule's name: any, one that is or lies in a scope
\* directly in it, or a variable directly in it.
Exempt(t, base, rule, p) ==
  \E n \in 1..(Len(p) - Len(base) - 1) :
    LET outer == SubSeq(p, 1, Len(base) + n)
        inner == SubSeq(p, 1, Len(base) + n + 1)
    IN  /\ outer \in Instances(t, base, rule.name)
        /\ CASE rule.symbol = "Everything" -> TRUE
             [] rule.symbol = "Scopes"     -> IsScope(t, inner)
             [] rule.symbol = "Variables"  -> inner = p /\ IsVariable(t, p)

Allowed(t, base, p) ==
  \E rule \in given \cap IdRule : p \in Instances(t, base, rule.name) /\ t[p] \in types[rule.type]

\* An entry with uid- names is demanded in each of its scopes; if its own name
\* is one, there may be none.
Present(t, base, name) ==
  IF HasUid(name)
  THEN Last(name) \in UidName \/
         \A q \in Instances(t, base, Front(name)) :
           IsScope(t, q) => Append(q, Last(name)) \in DOMAIN t
  ELSE base \o name \in DOMAIN t

Demanded(mode) ==
  {rule \in given \cap IdRule :
     mode = "Required" \/ (mode = "None" /\ rule.required)}

\* Each entry that is to be listed is exempt or allowed, and all that is demanded
\* is there, listed or not.
Conforms(t, call, mode) ==
  LET base == Base(call) IN
  /\ IsScope(t, base)
  /\ \A p \in EntriesBelow(t, base) :
       (call.recurse \/ Front(p) = base) /\ t[p].type \in call.mask =>
       (\E rule \in given \cap IgnoreRule : Exempt(t, base, rule, p)) \/ Allowed(t, base, p)
  /\ \A rule \in Demanded(mode) : Present(t, base, rule.name)

----------------------------------------------------------------------------
(* Properties. *)

\* After a successful parseSchema the tables hold the rules of that schema,
\* each once, and nothing of an earlier schema or of one that failed.
TablesAreSchema ==
  phase = "ready" =>
    /\ given = Range(idRules) \cup Range(ignoreRules)
    /\ IsInjective([i \in DOMAIN idRules |-> idRules[i].name])

\* A type keeps its meaning: a typedef never changes what the rules already in
\* the tables accept.
TypesKeepMeaning ==
  [][\A type \in DOMAIN types : type \in DOMAIN types' /\ types'[type] = types[type]]_vars

\* With the tables of a parsed schema validate accepts exactly the
\* configurations that conform to the schema, in every mode, and raises nothing
\* but a ConfigurationException on the others.
ValidatesAsDefined ==
  phase = "ready" =>
    \A t \in Trees, call \in Calls, mode \in ForceMode :
      Verdicts(t, call, mode) =
        {IF Conforms(t, call, mode) THEN "ok" ELSE "config"}

\* What validate accepts has every entry that the schema demands.
DemandsAreEnforced ==
  phase = "ready" =>
    \A t \in Trees, call \in Calls, mode \in ForceMode :
      "ok" \in Verdicts(t, call, mode) =>
        \A rule \in Demanded(mode) : Present(t, Base(call), rule.name)

\* An entry that an ignore rule is about is not looked at.
ExemptIsIgnored ==
  phase = "ready" =>
    \A t \in Trees, call \in Calls :
      LET base == Base(call)
      IN  \A p \in EntriesBelow(t, base), rule \in given \cap IgnoreRule :
            Exempt(t, base, rule, p) => ShouldIgnore(t, call.scope, RestBelow(base, p))

\* The type of every rule that is found is registered: the assertion in
\* validate.
RulesHaveTypes ==
  phase # "parsing" =>
    \A t \in Trees, call \in Calls, mode \in ForceMode :
      "foreign" \notin Verdicts(t, call, mode)

=============================================================================
