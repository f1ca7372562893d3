----------------------------- MODULE Conversions -----------------------------
(***************************************************************************)
(* ConfigurationImpl: what becomes of the text of an entry when a program  *)
(* asks for it as a number, a duration, a memory size, an enumeration.     *)
(*                                                                         *)
(* A text is what the two readers of the code, sscanf and the >> of a      *)
(* stream, see of it: a word, a number, a number and a unit, a unit and a  *)
(* number, and whether anything stands behind.  A number counts halves and *)
(* multiples of 2^32, which are enough for truncation and for overflow.    *)
(* An outcome is a value, or the kind of exception raised.                 *)
(***************************************************************************)
EXTENDS Integers, Sequences, FiniteSets, SequencesExt

MaxInt == 2147483647

----------------------------------------------------------------------------
(* Texts. *)

\* n + half / 2 + wrap * 2^32, with n in the range of int (but the smallest one)
Num(n, half, wrap) == [n |-> n, half |-> half, wrap |-> wrap]
Whole(n) == Num(n, 0, 0)
NaN == [n |-> 0, half |-> 0, wrap |-> -1]

\* extra: characters follow the part that is described.
Text ==
  {text \in [spelling : STRING, unit : STRING, num : [n : -MaxInt..MaxInt, half : 0..1, wrap : Int],
             form : {"word", "number", "numberUnit", "unitNumber"}, extra : BOOLEAN] :
     text.spelling = "infinite" => text.form = "word"}
WordText(word) ==
  [spelling |-> word, unit |-> "", num |-> NaN, form |-> "word", extra |-> FALSE]
NumText(spelling, num) ==
  [spelling |-> spelling, unit |-> "", num |-> num, form |-> "number", extra |-> FALSE]
NumUnitText(spelling, num, unit) ==
  [spelling |-> spelling, unit |-> unit, num |-> num, form |-> "numberUnit", extra |-> FALSE]
UnitNumText(spelling, unit, num) ==
  [spelling |-> spelling, unit |-> unit, num |-> num, form |-> "unitNumber", extra |-> FALSE]
WithExtra(text) == [text EXCEPT !.spelling = @ \o "x", !.extra = TRUE]

\* The order of floats: nothing is less or greater than not-a-number.
Less(p, q) ==
  /\ p # NaN /\ q # NaN
  /\ \/ p.wrap < q.wrap
     \/ p.wrap = q.wrap /\ p.n < q.n
     \/ p.wrap = q.wrap /\ p.n = q.n /\ p.half < q.half

----------------------------------------------------------------------------
(* Outcomes. *)

Gives(v)  == [tag |-> "value", value |-> v]
Refused   == [tag |-> "config", value |-> NaN]     \* ConfigurationException
Assertion == [tag |-> "assert", value |-> NaN]     \* compat::AssertionException
Recurses  == [tag |-> "recurses", value |-> NaN]   \* calls itself without end

Succeeds(outcome) == outcome.tag = "value"

----------------------------------------------------------------------------
(* Entries: an item of the configuration as a lookup sees it. *)

NoEntry       == [type |-> "NoValue", text |-> WordText(""), list |-> <<>>]
ScopeEntry    == [NoEntry EXCEPT !.type = "Scope"]
StringEntry(text) == [NoEntry EXCEPT !.type = "String", !.text = text]
ListEntry(list)   == [NoEntry EXCEPT !.type = "List", !.list = list]

LookupString(entry) == IF entry.type = "String" THEN Gives(entry.text) ELSE Refused
LookupStringOr(entry, default) ==
  IF entry.type = "NoValue" THEN Gives(default) ELSE LookupString(entry)

LookupList(entry) == IF entry.type = "List" THEN Gives(entry.list) ELSE Refused
LookupListOr(entry, default) ==
  IF entry.type = "NoValue" THEN Gives(default) ELSE LookupList(entry)

LookupScope(entry) == IF entry.type = "Scope" THEN Gives(NaN) ELSE Refused

\* A conversion after a look-up of the text.
Then(outcome, Convert(_)) == IF Succeeds(outcome) THEN Convert(outcome.value) ELSE outcome

----------------------------------------------------------------------------
(* Numbers. *)

\* sscanf "%d%c": an out of range number is taken modulo 2^32.
StringToInt(text) ==
  IF text.form = "number" /\ ~text.extra /\ text.num.half = 0
  THEN Gives(Whole(text.num.n)) ELSE Refused
IsInt(text) == text.form = "number" /\ text.num.half = 0 /\ ~text.extra

\* sscanf "%f%c", which reads the word nan too.
StringToFloat(text) ==
  IF \/ text.form = "number" /\ ~text.extra
     \/ text.spelling = "nan"
  THEN Gives(text.num) ELSE Refused
IsFloat(text) == (text.form = "number" /\ ~text.extra) \/ text.spelling = "nan"

LookupInt(entry)      == Then(LookupString(entry), StringToInt)
LookupIntOr(entry, d) == Then(LookupStringOr(entry, NumText("%d", Whole(d))), StringToInt)
LookupFloat(entry)      == Then(LookupString(entry), StringToFloat)
LookupFloatOr(entry, d) == Then(LookupStringOr(entry, NumText("%g", d)), StringToFloat)

----------------------------------------------------------------------------
(* Enumerations: names is the sequence of the names of the values. *)

EnumVal(text, names) == \E i \in DOMAIN names : names[i] = text.spelling
StringToEnum(text, names) ==
  IF EnumVal(text, names)
  THEN Gives(Whole(SelectInSeq(names, LAMBDA name : name = text.spelling))) ELSE Refused
IsEnum(text, names) == EnumVal(text, names)

BoolInfo == <<"false", "true">>
IsBoolean(text) == EnumVal(text, BoolInfo)
StringToBoolean(text) == StringToEnum(text, BoolInfo)

LookupEnum(entry, names) ==
  Then(LookupString(entry), LAMBDA text : StringToEnum(text, names))
\* The default is the name of a value in one overload, its number in another.
LookupEnumOrName(entry, names, name) ==
  Then(LookupStringOr(entry, WordText(name)), LAMBDA text : StringToEnum(text, names))
LookupEnumOr(entry, names, d) ==
  IF entry.type = "NoValue" THEN Gives(Whole(d)) ELSE LookupEnum(entry, names)

LookupBoolean(entry) == LookupEnum(entry, BoolInfo)
LookupBooleanOr(entry, d) == LookupEnumOrName(entry, BoolInfo, IF d THEN "true" ELSE "false")

----------------------------------------------------------------------------
(* Numbers with units.  The stream that reads the number first stops at the *)
(* end of the unit; sscanf, which reads the unit first, wants no more.      *)

Listed(unit, allowed) == \E i \in DOMAIN allowed : allowed[i] = unit

StringToFloatWithUnits(text, allowed) ==
  IF text.form = "numberUnit" /\ Listed(text.unit, allowed)
  THEN Gives([num |-> text.num, unit |-> text.unit]) ELSE Refused
\* Mutant: any unit will do.
IsFloatWithAnyUnits(text, allowed) == text.form = "numberUnit" /\ allowed # <<>>
IsFloatWithUnits(text, allowed) == text.form = "numberUnit" /\ Listed(text.unit, allowed)

\* The stream fails when the number is not in the range of int; the point of a
\* fraction begins what it takes for the unit.
StringToIntWithUnits(text, allowed) ==
  IF /\ text.form = "numberUnit" /\ text.num.half = 0 /\ text.num.wrap = 0
     /\ Listed(text.unit, allowed)
  THEN Gives([num |-> text.num, unit |-> text.unit]) ELSE Refused
IsIntWithUnits(text, allowed) ==
  /\ text.form = "numberUnit" /\ text.num.half = 0 /\ text.num.wrap = 0
  /\ Listed(text.unit, allowed)

StringToUnitsWithFloat(text, allowed) ==
  IF text.form = "unitNumber" /\ Listed(text.unit, allowed) /\ ~text.extra
  THEN Gives([num |-> text.num, unit |-> text.unit]) ELSE Refused
IsUnitsWithFloat(text, allowed) ==
  text.form = "unitNumber" /\ Listed(text.unit, allowed) /\ ~text.extra

StringToUnitsWithInt(text, allowed) ==
  IF text.form = "unitNumber" /\ text.num.half = 0 /\ Listed(text.unit, allowed) /\ ~text.extra
  THEN Gives([num |-> Whole(text.num.n), unit |-> text.unit]) ELSE Refused
IsUnitsWithInt(text, allowed) ==
  text.form = "unitNumber" /\ Listed(text.unit, allowed) /\ text.num.half = 0 /\ ~text.extra

LookupFloatWithUnits(entry, allowed) ==
  Then(LookupString(entry), LAMBDA text : StringToFloatWithUnits(text, allowed))
LookupIntWithUnits(entry, allowed) ==
  Then(LookupString(entry), LAMBDA text : StringToIntWithUnits(text, allowed))
LookupUnitsWithFloat(entry, allowed) ==
  Then(LookupString(entry), LAMBDA text : StringToUnitsWithFloat(text, allowed))
LookupUnitsWithInt(entry, allowed) ==
  Then(LookupString(entry), LAMBDA text : StringToUnitsWithInt(text, allowed))

\* With a default the four call a function with the same nine arguments when there
\* is an entry: the first two themselves, the others one of the first two.
LookupFloatWithUnitsOr(entry, d) == IF entry.type = "NoValue" THEN Gives(d) ELSE Recurses
LookupIntWithUnitsOr(entry, d) == IF entry.type = "NoValue" THEN Gives(d) ELSE Recurses
LookupUnitsWithFloatOr(entry, d) ==
  IF entry.type = "NoValue" THEN Gives(d) ELSE LookupFloatWithUnitsOr(entry, d)
LookupUnitsWithIntOr(entry, d) ==
  IF entry.type = "NoValue" THEN Gives(d) ELSE LookupIntWithUnitsOr(entry, d)

=============================================================================
