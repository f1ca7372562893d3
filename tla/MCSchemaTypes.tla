---------------------------- MODULE MCSchemaTypes ----------------------------
(* Values for the constants of SchemaTypes. *)
EXTENDS SchemaTypes

R(type, args) == [type |-> type, args |-> args]
W(word) == WordText(word)
N(spelling, n) == NumText(spelling, Whole(n))
NU(spelling, n, half, unit) == NumUnitText(spelling, Num(n, half, 0), unit)

Seconds2  == NU("2 seconds", 2, 0, "seconds")
Seconds15 == NU("1.5 seconds", 1, 1, "seconds")
Minute1   == NU("1 minute", 1, 0, "minute")
Weeks4    == NU("4 weeks", 4, 0, "weeks")
Inf       == W("infinite")
NegSecond == NU("-1 seconds", -1, 0, "seconds")

DurationArgs ==
  {<<>>, <<Seconds15, Minute1>>, <<Seconds2, Inf>>, <<Inf, Inf>>, <<Inf, Minute1>>,
   <<Minute1, Seconds2>>, <<Seconds15, Weeks4>>, <<Seconds2>>, <<NegSecond, Inf>>}
SizeArgs(one, two) ==
  {<<>>, <<one, two>>, <<two, one>>, <<W("x"), two>>,
   <<one, NU("-1 KB", -1, 0, "KB")>>}
NumberArgs == {<<>>, <<N("1", 1), N("3", 3)>>, <<N("3", 3), N("1", 1)>>, <<N("-1", -1), N("2", 2)>>,
               <<N("1", 1)>>}
UnitArgs == {<<>>, <<W("X"), W("seconds")>>}

MCRules ==
  {R(t, args) : t \in {"int", "float", "string"}, args \in NumberArgs}
    \cup {R(t, args) : t \in {"scope", "boolean"}, args \in {<<>>, <<W("x")>>}}
    \cup {R("enum", args) : args \in {<<>>, <<W("red"), W("X")>>}}
    \cup {R(t, args) : t \in WithUnits, args \in UnitArgs}
    \cup {R(t, args) : t \in {"durationMicroseconds", "durationMilliseconds", "durationSeconds"},
                       args \in DurationArgs}
    \cup {R(t, args) : t \in {"memorySizeBytes", "memorySizeKB", "memorySizeMB"},
                       args \in SizeArgs(NU("1.5 MB", 1, 1, "MB"), NU("1 GB", 1, 0, "GB"))}
    \cup {R("list", args) :
            args \in {<<>>, <<W("level")>>, <<W("int")>>, <<W("other")>>, <<W("enum")>>, <<W("list")>>}}
    \cup {R(t, args) : t \in {"table", "tuple"},
                       args \in {<<W("int"), W("x"), W("level"), W("y")>>, <<W("int")>>}}
    \cup {R("level", <<>>), R("other", <<>>), R("level", <<W("1")>>)}

MCTypedefs ==
  [name : {"level"}, type : {"int"}, args : {<<N("1", 1), N("3", 3)>>, <<N("3", 3), N("1", 1)>>}]
    \cup [name : {"level"}, type : {"enum"}, args : {<<W("red"), W("X")>>}]
    \cup [name : {"other"}, type : {"level"}, args : {<<>>, <<W("1")>>}]
    \cup [name : {"other"}, type : {"list"}, args : {<<W("level")>>}]

MCTexts ==
  {W("infinite"), W("nan"), W("true"), W("red"), N("2", 2), N("7", 7), N("-1", -1),
   NumText("2.5", Num(2, 1, 0)), NumText("4294967298", Num(2, 0, 1)), WithExtra(N("2", 2)),
   Seconds2, Minute1, Weeks4, NegSecond, WithExtra(Seconds2),
   NU("0.5 seconds", 0, 1, "seconds"), NU("9 fortnights", 9, 0, "fortnights"),
   NU("2 X", 2, 0, "X"), UnitNumText("X 2", "X", Whole(2)), UnitNumText("X 2.5", "X", Num(2, 1, 0)),
   NU("1.5 MB", 1, 1, "MB"), NU("2 GB", 2, 0, "GB"), NU("1 KB", 1, 0, "KB")}

MCLists == {<<>>, <<N("2", 2)>>, <<N("2", 2), N("7", 7)>>, <<N("7", 7), N("2", 2)>>,
            <<N("7", 7), N("2", 2), N("7", 7), N("2", 2)>>,
            <<N("7", 7), N("2", 2), N("2", 2), N("7", 7)>>, <<W("x")>>, <<W("red")>>}

MCEntries == {ScopeEntry} \cup {StringEntry(t) : t \in MCTexts} \cup {ListEntry(l) : l \in MCLists}

\* What x86 makes of a float out of range, and what a build that saturates makes.
MCOutOfRange == {-MaxInt - 1, MaxInt}

MCDefaults == {-1, 0, 5, 2^24, 2^24 + 1}

\* The builds and rules of the run on microseconds.
MicrosecondRules == {R("durationMicroseconds", <<>>)}

=============================================================================
