------------------------------ MODULE Durations ------------------------------
(***************************************************************************)
(* ConfigurationImpl: durations and memory sizes.  The number of the text  *)
(* is a float; times the unit it is cast to int, which has no meaning when *)
(* the product is out of range: outOfRange is what the build makes of it.  *)
(***************************************************************************)
EXTENDS Conversions

----------------------------------------------------------------------------
(* Floats, as far as they differ from the numbers they stand for. *)

FloatLimit == 16777216   \* 2^24: the mantissa has as many bits

\* The float nearest to a natural number that fits an int, as <<mantissa, power of
\* 2>>; the even mantissa when there are two.
Float(m) ==
  LET p == Min({i \in {1, 2, 4, 8, 16, 32, 64, 128} : m \div i < FloatLimit})
      q == m \div p
      r == m % p
  IN  <<IF 2 * r > p \/ (2 * r = p /\ q % 2 = 1) THEN q + 1 ELSE q, p>>

FitsInt(float)  == float[1] <= MaxInt \div float[2]
IntOf(float)    == float[1] * float[2]

\* static_cast<int>(floatVal * unitsVal), towards zero.
Cast(num, unitsVal, outOfRange) ==
  LET whole == Float(IF num.n < 0 THEN -(num.n + num.half) ELSE num.n)
      rest  == num.half * (unitsVal \div 2)
      sign  == IF num.n < 0 THEN -1 ELSE 1
  IN  IF /\ num.wrap = 0
         /\ FitsInt(whole)
         /\ IntOf(whole) <= MaxInt \div unitsVal
         /\ rest <= MaxInt - IntOf(whole) * unitsVal
         /\ FitsInt(Float(IntOf(whole) * unitsVal + rest))
      THEN sign * IntOf(Float(IntOf(whole) * unitsVal + rest))
      ELSE outOfRange

----------------------------------------------------------------------------
(* Durations. *)

Infinite == -1

DurationMicrosecondsUnitsInfo ==
  [microsecond |-> 1, microseconds |-> 1, millisecond |-> 1000, milliseconds |-> 1000,
   second |-> 1000000, seconds |-> 1000000, minute |-> 60000000, minutes |-> 60000000]
AllowedDurationMicrosecondsUnits ==
  <<"millisecond", "milliseconds", "second", "seconds", "minute", "minutes">>

DurationMillisecondsUnitsInfo ==
  [millisecond |-> 1, milliseconds |-> 1, second |-> 1000, seconds |-> 1000,
   minute |-> 60000, minutes |-> 60000, hour |-> 3600000, hours |-> 3600000,
   day |-> 86400000, days |-> 86400000, week |-> 604800000, weeks |-> 604800000]
AllowedDurationMillisecondsUnits ==
  <<"millisecond", "milliseconds", "second", "seconds", "minute", "minutes",
    "hour", "hours", "day", "days", "week", "weeks">>

DurationSecondsUnitsInfo ==
  [second |-> 1, seconds |-> 1, minute |-> 60, minutes |-> 60, hour |-> 3600, hours |-> 3600,
   day |-> 86400, days |-> 86400, week |-> 604800, weeks |-> 604800]
AllowedDurationSecondsUnits ==
  <<"second", "seconds", "minute", "minutes", "hour", "hours", "day", "days", "week", "weeks">>

IsDuration(text, allowed) == text.spelling = "infinite" \/ IsFloatWithUnits(text, allowed)

IsDurationMicroseconds(text) == IsDuration(text, AllowedDurationMicrosecondsUnits)
IsDurationMilliseconds(text) == IsDuration(text, AllowedDurationMillisecondsUnits)
IsDurationSeconds(text)      == IsDuration(text, AllowedDurationSecondsUnits)

\* The two tables of a duration must have the same length.
StringToDuration(text, allowed, info, outOfRange) ==
  IF text.spelling = "infinite" THEN Gives(Infinite)
  ELSE Then(StringToFloatWithUnits(text, allowed),
            LAMBDA v : IF Cardinality(DOMAIN info) = Len(allowed) /\ v.unit \in DOMAIN info
                       THEN Gives(Cast(v.num, info[v.unit], outOfRange)) ELSE Assertion)

StringToDurationMicroseconds(text, outOfRange) ==
  StringToDuration(text, AllowedDurationMicrosecondsUnits, DurationMicrosecondsUnitsInfo, outOfRange)
StringToDurationMilliseconds(text, outOfRange) ==
  StringToDuration(text, AllowedDurationMillisecondsUnits, DurationMillisecondsUnitsInfo, outOfRange)
StringToDurationSeconds(text, outOfRange) ==
  StringToDuration(text, AllowedDurationSecondsUnits, DurationSecondsUnitsInfo, outOfRange)

\* The text made of a default value.
DefaultDuration(d, unit) ==
  IF d = Infinite THEN WordText("infinite") ELSE NumUnitText("%d", Whole(d), unit)

LookupDurationMicroseconds(entry, outOfRange) ==
  Then(LookupString(entry), LAMBDA text : StringToDurationMicroseconds(text, outOfRange))
LookupDurationMicrosecondsOr(entry, d, outOfRange) ==
  Then(LookupStringOr(entry, DefaultDuration(d, "microseconds")),
       LAMBDA text : StringToDurationMicroseconds(text, outOfRange))
LookupDurationMilliseconds(entry, outOfRange) ==
  Then(LookupString(entry), LAMBDA text : StringToDurationMilliseconds(text, outOfRange))
LookupDurationMillisecondsOr(entry, d, outOfRange) ==
  Then(LookupStringOr(entry, DefaultDuration(d, "milliseconds")),
       LAMBDA text : StringToDurationMilliseconds(text, outOfRange))
LookupDurationSeconds(entry, outOfRange) ==
  Then(LookupString(entry), LAMBDA text : StringToDurationSeconds(text, outOfRange))
LookupDurationSecondsOr(entry, d, outOfRange) ==
  Then(LookupStringOr(entry, DefaultDuration(d, "seconds")),
       LAMBDA text : StringToDurationSeconds(text, outOfRange))

----------------------------------------------------------------------------
(* Memory sizes. *)

MemorySizeBytesUnitsInfo == [byte |-> 1, bytes |-> 1, KB |-> 1024, MB |-> 1048576, GB |-> 1073741824]
MemorySizeKBUnitsInfo    == [KB |-> 1, MB |-> 1024, GB |-> 1048576, TB |-> 1073741824]
MemorySizeMBUnitsInfo    == [MB |-> 1, GB |-> 1024, TB |-> 1048576, PB |-> 1073741824]

BytesUnits == <<"byte", "bytes", "KB", "MB", "GB">>
KBUnits    == <<"KB", "MB", "GB", "TB">>
MBUnits    == <<"MB", "GB", "TB", "PB">>

IsMemorySizeBytes(text) == IsFloatWithUnits(text, BytesUnits)
IsMemorySizeKB(text)    == IsFloatWithUnits(text, KBUnits)
IsMemorySizeMB(text)    == IsFloatWithUnits(text, MBUnits)

StringToMemorySizeGeneric(text, allowed, info, outOfRange) ==
  Then(StringToFloatWithUnits(text, allowed),
       LAMBDA v : IF v.unit \in DOMAIN info
                  THEN Gives(Cast(v.num, info[v.unit], outOfRange)) ELSE Assertion)

StringToMemorySizeBytes(text, outOfRange) ==
  StringToMemorySizeGeneric(text, BytesUnits, MemorySizeBytesUnitsInfo, outOfRange)
StringToMemorySizeKB(text, outOfRange) ==
  StringToMemorySizeGeneric(text, KBUnits, MemorySizeKBUnitsInfo, outOfRange)
StringToMemorySizeMB(text, outOfRange) ==
  StringToMemorySizeGeneric(text, MBUnits, MemorySizeMBUnitsInfo, outOfRange)

LookupMemorySizeBytes(entry, outOfRange) ==
  Then(LookupString(entry), LAMBDA text : StringToMemorySizeBytes(text, outOfRange))
\* The text made of the default is in milliseconds.
LookupMemorySizeBytesOr(entry, d, outOfRange) ==
  Then(LookupStringOr(entry, NumUnitText("%d", Whole(d), "milliseconds")),
       LAMBDA text : StringToMemorySizeBytes(text, outOfRange))
LookupMemorySizeKB(entry, outOfRange) ==
  Then(LookupString(entry), LAMBDA text : StringToMemorySizeKB(text, outOfRange))
\* Mutant: the text of the default is in another unit.
LookupMemorySizeKBOrMB(entry, d, outOfRange) ==
  Then(LookupStringOr(entry, NumUnitText("%d", Whole(d), "MB")),
       LAMBDA text : StringToMemorySizeKB(text, outOfRange))
LookupMemorySizeKBOr(entry, d, outOfRange) ==
  Then(LookupStringOr(entry, NumUnitText("%d", Whole(d), "KB")),
       LAMBDA text : StringToMemorySizeKB(text, outOfRange))
LookupMemorySizeMB(entry, outOfRange) ==
  Then(LookupString(entry), LAMBDA text : StringToMemorySizeMB(text, outOfRange))
LookupMemorySizeMBOr(entry, d, outOfRange) ==
  Then(LookupStringOr(entry, NumUnitText("%d", Whole(d), "MB")),
       LAMBDA text : StringToMemorySizeMB(text, outOfRange))

=============================================================================
