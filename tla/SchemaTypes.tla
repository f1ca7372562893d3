----------------------------- MODULE SchemaTypes -----------------------------
(***************************************************************************)
(* The built-in types of a schema and those made by @typedef: checkRule on *)
(* the arguments of a rule, validate and isA on an entry, and then the     *)
(* look-up of that entry by the program, which reads the text once more.   *)
(*                                                                         *)
(* One rule and one entry are followed; SchemaValidator models how the     *)
(* validator comes to them.  The arguments of a rule are texts.            *)
(***************************************************************************)
EXTENDS Durations, Functions

CONSTANTS
  Typedefs,      \* [name, type, args]: what a schema may define
  Rules,         \* [type, args]: the type of a rule
  Entries,       \* entries of the configuration
  Defaults,      \* what a program may give as default for a number
  OutOfRange     \* what a build may make of a float that does not fit an int

ASSUME OutOfRangeInts == OutOfRange \subseteq Int
ASSUME ArgumentsAreTexts ==
  /\ \A d \in Typedefs : d.name # "" /\ d.args \in Seq(Text)
  /\ \A r \in Rules : r.args \in Seq(Text)
  /\ \A e \in Entries : e.text \in Text /\ e.list \in Seq(Text)

VARIABLES
  types,        \* m_types: [name -> [cfgType, base, args]], base "" of a built-in type
  rule,         \* the rule, once its type accepts it
  entry,        \* the entry the rule is about
  outOfRange,   \* what this build makes of a float that does not fit
  verdict,      \* of validate on rule and entry: "none", "ok", "config", "assert"
  answer        \* of the look-up that fits the rule

vars == <<types, rule, entry, outOfRange, verdict, answer>>

NoRule   == [type |-> "", args |-> <<>>]
NoAnswer == [tag |-> "none", value |-> NaN]

----------------------------------------------------------------------------
(* What checkRule makes of the arguments: "ok" or an exception. *)

Demand(condition) == IF condition THEN "ok" ELSE "config"

NoArguments(args)   == Demand(args = <<>>)
SomeArguments(args) == Demand(args # <<>>)

\* None or two: the bounds, in an order that the type does not refuse.
MinMax(args, Read(_), Refuses(_, _)) ==
  LET min == Read(args[1])
      max == Read(args[2])
  IN  IF args = <<>> THEN "ok"
      ELSE IF Len(args) # 2 THEN "config"
      ELSE IF ~Succeeds(min) THEN min.tag
      ELSE IF ~Succeeds(max) THEN max.tag
      ELSE Demand(~Refuses(min.value, max.value))

\* Whether a value is within the bounds, which the type reads again.
Within(text, args, Read(_), Inside(_, _, _)) ==
  LET val == Read(text)
      min == Read(args[1])
      max == Read(args[2])
  IN  IF ~Succeeds(val) THEN val.tag
      ELSE IF args = <<>> THEN "ok"
      ELSE IF ~Succeeds(min) THEN min.tag
      ELSE IF ~Succeeds(max) THEN max.tag
      ELSE Inside(val.value, min.value, max.value)

ScopeCheckRule(args)   == NoArguments(args)
BooleanCheckRule(args) == NoArguments(args)
BooleanIsA(text)       == Demand(IsBoolean(text))

EnumCheckRule(args)  == SomeArguments(args)
Spellings(args)      == [i \in DOMAIN args |-> args[i].spelling]
EnumIsA(text, args)  == Demand(IsEnum(text, Spellings(args)))

IntCheckRule(args) == MinMax(args, StringToInt, LAMBDA min, max : Less(max, min))
IntIsA(text, args) ==
  Within(text, args, StringToInt,
         LAMBDA val, min, max : Demand(~Less(val, min) /\ ~Less(max, val)))

FloatCheckRule(args) == MinMax(args, StringToFloat, LAMBDA min, max : Less(max, min))
FloatIsA(text, args) ==
  Within(text, args, StringToFloat,
         LAMBDA val, min, max : Demand(~Less(val, min) /\ ~Less(max, val)))

\* The bounds are lengths.
StringCheckRule(args) ==
  MinMax(args, StringToInt, LAMBDA min, max : min.n < 0 \/ max.n < 0 \/ Less(max, min))
StringIsA(text, args) ==
  IF Len(args) # 2 THEN "ok"
  ELSE Demand(/\ Len(text.spelling) >= StringToInt(args[1]).value.n
              /\ Len(text.spelling) <= StringToInt(args[2]).value.n)

FloatWithUnitsCheckRule(args) == SomeArguments(args)
FloatWithUnitsIsA(text, args) == Demand(IsFloatWithUnits(text, Spellings(args)))
IntWithUnitsCheckRule(args)   == SomeArguments(args)
IntWithUnitsIsA(text, args)   == Demand(IsIntWithUnits(text, Spellings(args)))
UnitsWithFloatCheckRule(args) == SomeArguments(args)
UnitsWithFloatIsA(text, args) == Demand(IsUnitsWithFloat(text, Spellings(args)))
UnitsWithIntCheckRule(args)   == SomeArguments(args)
UnitsWithIntIsA(text, args)   == Demand(IsUnitsWithInt(text, Spellings(args)))

\* Mutant: an infinite minimum is taken for a number.
RefusesDurationsOfNumbers(min, max) ==
  \/ min < -1 \/ max < -1
  \/ max # Infinite /\ min > max

\* -1 is taken for infinite, in durations and in memory sizes.
RefusesDurations(min, max) ==
  \/ min < -1 \/ max < -1
  \/ max # Infinite /\ (min = Infinite \/ min > max)

\* Mutant: infinite is not known to be the greatest value.
InsideFiniteDurations(val, min, max) ==
  IF min = Infinite
  THEN IF max # Infinite THEN "assert" ELSE Demand(val = Infinite)
  ELSE Demand(val >= min /\ (val <= max \/ max = Infinite))

InsideDurations(val, min, max) ==
  IF min = Infinite
  THEN IF max # Infinite THEN "assert" ELSE Demand(val = Infinite)
  ELSE Demand(\/ val = Infinite /\ max = Infinite
              \/ val >= min /\ (val <= max \/ max = Infinite))

InsideSizes(val, min, max) == Demand(min <= val /\ val <= max)

DurationMicrosecondsCheckRule(args) ==
  MinMax(args, LAMBDA t : StringToDurationMicroseconds(t, outOfRange), RefusesDurations)
DurationMicrosecondsIsA(text, args) ==
  Within(text, args, LAMBDA t : StringToDurationMicroseconds(t, outOfRange), InsideDurations)
DurationMillisecondsCheckRule(args) ==
  MinMax(args, LAMBDA t : StringToDurationMilliseconds(t, outOfRange), RefusesDurations)
DurationMillisecondsIsA(text, args) ==
  Within(text, args, LAMBDA t : StringToDurationMilliseconds(t, outOfRange), InsideDurations)
DurationSecondsCheckRule(args) ==
  MinMax(args, LAMBDA t : StringToDurationSeconds(t, outOfRange), RefusesDurations)
DurationSecondsIsA(text, args) ==
  Within(text, args, LAMBDA t : StringToDurationSeconds(t, outOfRange), InsideDurations)

MemorySizeBytesCheckRule(args) ==
  MinMax(args, LAMBDA t : StringToMemorySizeBytes(t, outOfRange), RefusesDurations)
MemorySizeBytesIsA(text, args) ==
  Within(text, args, LAMBDA t : StringToMemorySizeBytes(t, outOfRange), InsideSizes)
MemorySizeKBCheckRule(args) ==
  MinMax(args, LAMBDA t : StringToMemorySizeKB(t, outOfRange), RefusesDurations)
MemorySizeKBIsA(text, args) ==
  Within(text, args, LAMBDA t : StringToMemorySizeKB(t, outOfRange), InsideSizes)
MemorySizeMBCheckRule(args) ==
  MinMax(args, LAMBDA t : StringToMemorySizeMB(t, outOfRange), RefusesDurations)
MemorySizeMBIsA(text, args) ==
  Within(text, args, LAMBDA t : StringToMemorySizeMB(t, outOfRange), InsideSizes)

----------------------------------------------------------------------------
(* Types. *)

BuiltIn ==
  {"scope", "string", "int", "float", "boolean", "enum",
   "int_with_units", "float_with_units", "units_with_int", "units_with_float",
   "durationMicroseconds", "durationMilliseconds", "durationSeconds",
   "memorySizeBytes", "memorySizeKB", "memorySizeMB", "list", "table", "tuple"}

CfgType(type) ==
  IF type = "scope" THEN "Scope"
  ELSE IF type \in {"list", "table", "tuple"} THEN "List" ELSE "String"

RegisteredBuiltins ==
  [type \in BuiltIn |-> [cfgType |-> CfgType(type), base |-> "", args |-> <<>>]]

IsStringBased(arg) ==
  arg.spelling \in DOMAIN types /\ types[arg.spelling].cfgType = "String"

ListCheckRule(args) == Demand(Len(args) = 1 /\ IsStringBased(args[1]))

\* Pairs of the type of a column and its name.
ColumnTypes(args) == [i \in 1..(Len(args) \div 2) |-> args[2 * i - 1]]
AreColumns(args) ==
  /\ args # <<>> /\ Len(args) % 2 = 0
  /\ \A i \in DOMAIN ColumnTypes(args) : IsStringBased(ColumnTypes(args)[i])
TableCheckRule(args) == Demand(AreColumns(args))
TupleCheckRule(args) == Demand(AreColumns(args))

TypedefCheckRule(args) == NoArguments(args)

CheckRule(type, args) ==
  CASE type = "scope"   -> ScopeCheckRule(args)
    [] type = "string"  -> StringCheckRule(args)
    [] type = "int"     -> IntCheckRule(args)
    [] type = "float"   -> FloatCheckRule(args)
    [] type = "boolean" -> BooleanCheckRule(args)
    [] type = "enum"    -> EnumCheckRule(args)
    [] type = "int_with_units"   -> IntWithUnitsCheckRule(args)
    [] type = "float_with_units" -> FloatWithUnitsCheckRule(args)
    [] type = "units_with_int"   -> UnitsWithIntCheckRule(args)
    [] type = "units_with_float" -> UnitsWithFloatCheckRule(args)
    [] type = "durationMicroseconds" -> DurationMicrosecondsCheckRule(args)
    [] type = "durationMilliseconds" -> DurationMillisecondsCheckRule(args)
    [] type = "durationSeconds"      -> DurationSecondsCheckRule(args)
    [] type = "memorySizeBytes" -> MemorySizeBytesCheckRule(args)
    [] type = "memorySizeKB"    -> MemorySizeKBCheckRule(args)
    [] type = "memorySizeMB"    -> MemorySizeMBCheckRule(args)
    [] type = "list"  -> ListCheckRule(args)
    [] type = "table" -> TableCheckRule(args)
    [] type = "tuple" -> TupleCheckRule(args)
    [] OTHER -> TypedefCheckRule(args)

\* isA of a built-in type.  Those not based on a string have none of their own.
BuiltInIsA(type, text, args) ==
  CASE type = "string"  -> StringIsA(text, args)
    [] type = "int"     -> IntIsA(text, args)
    [] type = "float"   -> FloatIsA(text, args)
    [] type = "boolean" -> BooleanIsA(text)
    [] type = "enum"    -> EnumIsA(text, args)
    [] type = "int_with_units"   -> IntWithUnitsIsA(text, args)
    [] type = "float_with_units" -> FloatWithUnitsIsA(text, args)
    [] type = "units_with_int"   -> UnitsWithIntIsA(text, args)
    [] type = "units_with_float" -> UnitsWithFloatIsA(text, args)
    [] type = "durationMicroseconds" -> DurationMicrosecondsIsA(text, args)
    [] type = "durationMilliseconds" -> DurationMillisecondsIsA(text, args)
    [] type = "durationSeconds"      -> DurationSecondsIsA(text, args)
    [] type = "memorySizeBytes" -> MemorySizeBytesIsA(text, args)
    [] type = "memorySizeKB"    -> MemorySizeKBIsA(text, args)
    [] type = "memorySizeMB"    -> MemorySizeMBIsA(text, args)
    [] OTHER -> "config"

UserDefined == {name \in DOMAIN types : types[name].base # ""}

\* What a user-defined name comes to when each @typedef hands over to its base with
\* the arguments it was made with.
Base[name \in UserDefined] ==
  LET def == types[name]
  IN  IF def.base \in UserDefined THEN Base[def.base] ELSE [type |-> def.base, args |-> def.args]

\* Mutant: the arguments of the @typedef are lost.
ResolvedBare(type, args) ==
  [type |-> IF type \in UserDefined THEN Base[type].type ELSE type, args |-> args]

Resolved(type, args) ==
  IF type \in UserDefined THEN Base[type] ELSE [type |-> type, args |-> args]

\* A user-defined type has no arguments of its own.
IsA(type, text, args) ==
  IF type \in UserDefined /\ args # <<>> THEN "assert"
  ELSE LET r == Resolved(type, args) IN BuiltInIsA(r.type, text, r.args)

\* The first element that is not accepted decides.
AllElements(list, Verdict(_)) ==
  LET bad == {i \in DOMAIN list : Verdict(i) # "ok"}
  IN  IF bad = {} THEN "ok" ELSE Verdict(Min(bad))

ListValidate(args) ==
  LET found == LookupList(entry)
  IN  IF Len(args) # 1 \/ ~IsStringBased(args[1]) THEN "assert"
      ELSE IF ~Succeeds(found) THEN found.tag
      ELSE AllElements(found.value, LAMBDA i : IsA(args[1].spelling, found.value[i], <<>>))

\* Mutant: the columns are not counted anew in the next row.
ColumnTypeOfFirstRow(args, i) == args[Min({2 * i - 1, Len(args) - 1})].spelling

\* The type of element i, counted from 1: (i * 2) % typeArgsSize, counted from 0.
ColumnType(args, i) == args[(((i - 1) * 2) % Len(args)) + 1].spelling

TableValidate(args) ==
  LET found == LookupList(entry)
  IN  IF args = <<>> \/ Len(args) % 2 # 0 THEN "assert"
      ELSE IF ~Succeeds(found) THEN found.tag
      ELSE IF Len(found.value) % (Len(args) \div 2) # 0 THEN "config"
      ELSE AllElements(found.value, LAMBDA i : IsA(ColumnType(args, i), found.value[i], <<>>))

TupleValidate(args) ==
  LET found == LookupList(entry)
  IN  IF args = <<>> \/ Len(args) % 2 # 0 THEN "assert"
      ELSE IF ~Succeeds(found) THEN found.tag
      ELSE IF Len(found.value) # Len(args) \div 2 THEN "config"
      ELSE AllElements(found.value, LAMBDA i : IsA(ColumnType(args, i), found.value[i], <<>>))

ScopeValidate == LET found == LookupScope(entry) IN IF Succeeds(found) THEN "ok" ELSE found.tag

StringBasedValidate(type, args) ==
  LET found == LookupString(entry)
  IN  IF Succeeds(found) THEN IsA(type, found.value, args) ELSE found.tag

BuiltInValidate(type, args) ==
  CASE type = "scope" -> ScopeValidate
    [] type = "list"  -> ListValidate(args)
    [] type = "table" -> TableValidate(args)
    [] type = "tuple" -> TupleValidate(args)
    [] OTHER          -> StringBasedValidate(type, args)

TypedefValidate(type, args) ==
  IF args # <<>> THEN "assert"
  ELSE LET r == Resolved(type, args) IN BuiltInValidate(r.type, r.args)

ValidateEntry(type, args) ==
  IF type \in UserDefined THEN TypedefValidate(type, args) ELSE BuiltInValidate(type, args)

----------------------------------------------------------------------------
(* The look-up that a program makes for an entry of a type. *)

LookUpAs(r) ==
  CASE r.type = "scope"   -> LookupScope(entry)
    [] r.type = "string"  -> LookupString(entry)
    [] r.type = "int"     -> LookupInt(entry)
    [] r.type = "float"   -> LookupFloat(entry)
    [] r.type = "boolean" -> LookupBoolean(entry)
    [] r.type = "enum"    -> LookupEnum(entry, Spellings(r.args))
    [] r.type = "int_with_units"   -> LookupIntWithUnits(entry, Spellings(r.args))
    [] r.type = "float_with_units" -> LookupFloatWithUnits(entry, Spellings(r.args))
    [] r.type = "units_with_int"   -> LookupUnitsWithInt(entry, Spellings(r.args))
    [] r.type = "units_with_float" -> LookupUnitsWithFloat(entry, Spellings(r.args))
    [] r.type = "durationMicroseconds" -> LookupDurationMicroseconds(entry, outOfRange)
    [] r.type = "durationMilliseconds" -> LookupDurationMilliseconds(entry, outOfRange)
    [] r.type = "durationSeconds"      -> LookupDurationSeconds(entry, outOfRange)
    [] r.type = "memorySizeBytes" -> LookupMemorySizeBytes(entry, outOfRange)
    [] r.type = "memorySizeKB"    -> LookupMemorySizeKB(entry, outOfRange)
    [] r.type = "memorySizeMB"    -> LookupMemorySizeMB(entry, outOfRange)
    [] OTHER -> LookupList(entry)

DefaultText == WordText("default")

\* With the default d, an int, or a text or a list of one where that is the type.
LookUpAsOr(r, d) ==
  CASE r.type = "int"     -> LookupIntOr(entry, d)
    [] r.type = "float"   -> LookupFloatOr(entry, Whole(d))
    [] r.type = "boolean" -> LookupBooleanOr(entry, d # 0)
    [] r.type = "enum"    -> LookupEnumOr(entry, Spellings(r.args), d)
    [] r.type = "int_with_units"   -> LookupIntWithUnitsOr(entry, Whole(d))
    [] r.type = "float_with_units" -> LookupFloatWithUnitsOr(entry, Whole(d))
    [] r.type = "units_with_int"   -> LookupUnitsWithIntOr(entry, Whole(d))
    [] r.type = "units_with_float" -> LookupUnitsWithFloatOr(entry, Whole(d))
    [] r.type = "durationMicroseconds" -> LookupDurationMicrosecondsOr(entry, d, outOfRange)
    [] r.type = "durationMilliseconds" -> LookupDurationMillisecondsOr(entry, d, outOfRange)
    [] r.type = "durationSeconds"      -> LookupDurationSecondsOr(entry, d, outOfRange)
    [] r.type = "memorySizeBytes" -> LookupMemorySizeBytesOr(entry, d, outOfRange)
    [] r.type = "memorySizeKB"    -> LookupMemorySizeKBOr(entry, d, outOfRange)
    [] r.type = "memorySizeMB"    -> LookupMemorySizeMBOr(entry, d, outOfRange)
    [] r.type = "string" -> LookupStringOr(entry, DefaultText)
    [] OTHER -> LookupListOr(entry, <<DefaultText>>)

HasDefault(type) == type # "scope"

----------------------------------------------------------------------------
(* Actions. *)

Init ==
  /\ types = RegisteredBuiltins
  /\ rule = NoRule
  /\ entry = NoEntry
  /\ outOfRange \in OutOfRange
  /\ verdict = "none"
  /\ answer = NoAnswer

\* @typedef name = type[args]; an exception leaves the types as they are.
Typedef(d) ==
  /\ d.type \in DOMAIN types
  /\ d.name \notin DOMAIN types
  /\ CheckRule(d.type, d.args) = "ok"
  /\ types' =
       [name \in DOMAIN types \cup {d.name} |->
          IF name = d.name
          THEN [cfgType |-> types[d.type].cfgType, base |-> d.type, args |-> d.args]
          ELSE types[name]]
  /\ UNCHANGED <<rule, entry, outOfRange, verdict, answer>>

\* A rule of the schema, which a type that refuses its arguments keeps out.
TakeRule(r) ==
  /\ rule = NoRule
  /\ r.type \in DOMAIN types
  /\ CheckRule(r.type, r.args) = "ok"
  /\ rule' = r
  /\ UNCHANGED <<types, entry, outOfRange, verdict, answer>>

SetEntry(e) ==
  /\ entry = NoEntry
  /\ entry' = e
  /\ answer' = NoAnswer
  /\ UNCHANGED <<types, rule, outOfRange, verdict>>

Validate ==
  /\ rule # NoRule
  /\ entry # NoEntry
  /\ verdict' = ValidateEntry(rule.type, rule.args)
  /\ UNCHANGED <<types, rule, entry, outOfRange, answer>>

LookUp ==
  /\ rule # NoRule
  /\ answer' = LookUpAs(Resolved(rule.type, rule.args))
  /\ UNCHANGED <<types, rule, entry, outOfRange, verdict>>

LookUpOr(d) ==
  /\ rule # NoRule
  /\ HasDefault(Resolved(rule.type, rule.args).type)
  /\ answer' = LookUpAsOr(Resolved(rule.type, rule.args), d)
  /\ UNCHANGED <<types, rule, entry, outOfRange, verdict>>

Next ==
  \/ \E d \in Typedefs : Typedef(d)
  \/ \E r \in Rules : TakeRule(r)
  \/ \E e \in Entries : SetEntry(e)
  \/ Validate
  \/ LookUp
  \/ \E d \in Defaults : LookUpOr(d)

Spec == Init /\ [][Next]_vars

----------------------------------------------------------------------------
(* Properties. *)

Meaning == IF rule = NoRule THEN NoRule ELSE Resolved(rule.type, rule.args)

\* durationMicroseconds fails an assertion on every number with an allowed unit: its
\* tables of units have eight and six entries.
ReadsMicroseconds(r) ==
  \/ r.type = "durationMicroseconds"
  \/ \E i \in DOMAIN r.args :
       /\ r.args[i].spelling \in DOMAIN types
       /\ Resolved(r.args[i].spelling, <<>>).type = "durationMicroseconds"

\* The assertions of validate and isA, on the number of arguments, on the types of
\* elements and on an infinite minimum, hold for every rule that checkRule let
\* through, be it by way of a @typedef or of an element type.
AssertionsHold ==
  ~ReadsMicroseconds(Meaning) => verdict # "assert" /\ answer.tag # "assert"

WithUnits == {"int_with_units", "float_with_units", "units_with_int", "units_with_float"}

\* What validate accepted the program can look up: isX, the range check and the
\* look-up read a text in three places and must agree on it.  (With a default the
\* look-ups of numbers with units never return.)
AcceptedIsFound ==
  verdict = "ok" /\ answer # NoAnswer =>
    \/ Succeeds(answer)
    \/ answer.tag = "recurses" /\ Meaning.type \in WithUnits

\* An order with infinite above all numbers, on texts: they are read, but whether one
\* is infinite is for its spelling to say.
AtMost(s, t, Read(_)) ==
  \/ t.spelling = "infinite"
  \/ s.spelling # "infinite" /\ Read(s).value <= Read(t).value

Negative(text) == text.num.n < 0

\* For bounds and texts without a minus sign, the range check of a duration or a
\* memory size is that order, although the code computes with -1 for infinite.
RangeIsOrder ==
  LET args == Meaning.args
      text == entry.text
      InOrder(Read(_)) ==
        /\ Succeeds(Read(text))
        /\ AtMost(args[1], text, Read) /\ AtMost(text, args[2], Read)
  IN  (/\ verdict # "none" /\ entry.type = "String"
       /\ Len(args) = 2 /\ ~Negative(text) /\ ~Negative(args[1]) /\ ~Negative(args[2]))
      =>
      /\ Meaning.type = "durationMilliseconds" =>
           (verdict = "ok") = InOrder(LAMBDA t : StringToDurationMilliseconds(t, outOfRange))
      /\ Meaning.type = "durationSeconds" =>
           (verdict = "ok") = InOrder(LAMBDA t : StringToDurationSeconds(t, outOfRange))
      /\ Meaning.type = "memorySizeBytes" =>
           (verdict = "ok") = InOrder(LAMBDA t : StringToMemorySizeBytes(t, outOfRange))

\* A table is a list of tuples: the list can be cut into rows each of which a tuple
\* type with the same columns accepts (the index of the column wraps around).
TableIsTuples ==
  LET args == Meaning.args
      list == entry.list
      cols == Len(args) \div 2
      Row(k) == SubSeq(list, (k - 1) * cols + 1, k * cols)
      RowOK(row) == \A i \in 1..cols : IsA(args[2 * i - 1].spelling, row[i], <<>>) = "ok"
  IN  verdict # "none" /\ entry.type = "List" /\ Meaning.type = "table" =>
        (verdict = "ok") =
          \E rows \in 0..Len(list) :
            rows * cols = Len(list) /\ \A k \in 1..rows : RowOK(Row(k))

\* A name made by @typedef stands for a registered type with arguments that it accepts,
\* and means it, through any chain of such names and below a list or a table.
TypedefMeansBase ==
  \A name \in DOMAIN types \ BuiltIn :
    LET base == types[name].base
        args == types[name].args
    IN  /\ base \in DOMAIN types /\ CheckRule(base, args) = "ok"
        /\ types[name].cfgType = types[base].cfgType
        /\ entry # NoEntry => ValidateEntry(name, <<>>) = ValidateEntry(base, args)

\* The default d of a look-up as the program sees it when it comes back.
DefaultOf(type, d) ==
  CASE type \in {"int", "float", "enum"} \cup WithUnits -> Gives(Whole(d))
    [] type = "boolean" -> Gives(Whole(IF d # 0 THEN 2 ELSE 1))
    [] type = "string" -> Gives(DefaultText)
    [] type \in {"list", "table", "tuple"} -> Gives(<<DefaultText>>)
    [] OTHER -> Gives(d)

\* Up to 2^24, the numbers a float can hold, a look-up of an entry that is missing
\* gives the default, although it goes through a text that is made of it and parsed
\* again.  (The texts made for bytes and for microseconds are in a unit that the
\* parsing refuses.)
AbsentGivesDefault ==
  [][\A d \in Defaults :
       /\ entry = NoEntry /\ LookUpOr(d)
       /\ Meaning.type \notin {"durationMicroseconds", "memorySizeBytes"}
       /\ d \in -FloatLimit..FloatLimit
       => Succeeds(answer') /\ answer'.value = DefaultOf(Meaning.type, d).value]_vars

\* The units that checkRule's own message offers for durationMicroseconds are
\* accepted.  (Microseconds are refused as no allowed unit; a number with an allowed unit
\* is read and then fails the assertion on the lengths of the two tables.)
OfferedUnitsAreAccepted ==
  /\ verdict # "none" /\ rule.type = "durationMicroseconds" /\ rule.args = <<>>
  /\ entry.type = "String" /\ entry.text.form = "numberUnit"
  /\ entry.text.unit \in DOMAIN DurationMicrosecondsUnitsInfo
  => verdict = "ok"

=============================================================================
