-------------------------- MODULE SchemaTypesProofs --------------------------
(***************************************************************************)
(* Proofs about SchemaTypes, for all texts, any number of @typedefs and    *)
(* lists of any length.                                                    *)
(*                                                                         *)
(* First come the conversions: a float made of a number, a duration, a     *)
(* memory size and the texts made of defaults.  Then the positions of a    *)
(* table, the meaning of names made by @typedef, and the verdicts, which   *)
(* do not change when a @typedef is added.  The invariant says that the    *)
(* rule that was taken, the verdict and the answer belong to the entry as  *)
(* it is; the properties follow from it.                                   *)
(***************************************************************************)
EXTENDS SchemaTypes, TLAPS, FiniteSetTheorems, WellFoundedInduction

----------------------------------------------------------------------------
(* Numbers, and the texts they are read from. *)

\* A set of natural numbers has a least element.
LEMMA LeastNumber ==
  ASSUME NEW S \in SUBSET Nat, S # {}
  PROVE  Min(S) \in S /\ \A x \in S : Min(S) <= x
<1> DEFINE LessOn == {r \in Nat \X Nat : r[1] < r[2]}
<1>1. IsWellFoundedOn(LessOn, Nat)
  BY NatLessThanWellFounded DEF OpToRel
<1>2. PICK x \in S : \A y \in S : <<y, x>> \notin LessOn
  <2> HIDE DEF LessOn
  <2> QED BY <1>1, WFMin
<1>3. \A y \in S : x <= y
  <2>1. \A y \in S : ~(y < x)
    BY <1>2
  <2> QED BY <2>1
<1> QED BY <1>3 DEF Min

\* The limits, as far as the proofs need to know them.
LEMMA Limits ==
  /\ MaxInt \in Nat /\ FloatLimit \in Nat /\ MaxInt < 128 * FloatLimit /\ 2 < FloatLimit
  /\ FloatLimit <= MaxInt
  /\ \E half \in Nat : FloatLimit = 2 * half /\ half <= MaxInt \div 2 /\ half < FloatLimit
<1>1. FloatLimit = 2 * 8388608 /\ 8388608 <= MaxInt \div 2 /\ 8388608 < FloatLimit /\ 8388608 \in Nat
  BY SMT DEF MaxInt, FloatLimit
<1>2. \E half \in Nat : FloatLimit = 2 * half /\ half <= MaxInt \div 2 /\ half < FloatLimit
  BY <1>1, SMT
<1> QED BY <1>2, SMT DEF MaxInt, FloatLimit

\* The float made of a number that fits an int is made of natural numbers, and is the
\* number itself as long as the mantissa holds it.
LEMMA FloatFacts ==
  ASSUME NEW m \in 0..MaxInt
  PROVE  /\ Float(m)[1] \in Nat /\ Float(m)[2] \in 1..128
         /\ m < FloatLimit => Float(m) = <<m, 1>>
         /\ m = FloatLimit => IntOf(Float(m)) = m /\ FitsInt(Float(m))
<1> DEFINE S == {i \in {1, 2, 4, 8, 16, 32, 64, 128} : m \div i < FloatLimit}
           p == Min(S)
           q == m \div p
           r == m % p
<1>0. m \in Nat /\ m <= MaxInt /\ MaxInt \in Nat
  BY Limits, SMT
<1>1. 128 \in S
  <2>1. m \div 128 < FloatLimit
    BY <1>0, Limits, SMT
  <2> QED BY <2>1
<1>2. p \in S /\ \A i \in S : p <= i
  BY <1>1, LeastNumber
<1>3. p \in 1..128 /\ q \in Nat /\ r \in Nat
  BY <1>0, <1>2, SMT
<1>4. Float(m) = <<IF 2 * r > p \/ (2 * r = p /\ q % 2 = 1) THEN q + 1 ELSE q, p>>
  BY SMT DEF Float
<1>5. ASSUME m < FloatLimit PROVE Float(m) = <<m, 1>>
  <2>1. 1 \in S
    BY <1>0, <1>5, SMT
  <2>2. p = 1
    BY <1>2, <1>3, <2>1, SMT
  <2>3. q = m /\ r = 0
    BY <1>0, <2>2, SMT
  <2> HIDE DEF p, q, r, S
  <2> QED BY <1>4, <2>2, <2>3, SMT
<1>6. ASSUME m = FloatLimit PROVE IntOf(Float(m)) = m /\ FitsInt(Float(m))
  <2>1. PICK half \in Nat : FloatLimit = 2 * half /\ half <= MaxInt \div 2 /\ half < FloatLimit
    BY Limits
  <2>2. m \div 1 = m /\ m \div 2 = half /\ m % 2 = 0
    BY <1>0, <1>6, <2>1, SMT
  <2>3. 2 \in S /\ 1 \notin S
    BY <1>0, <1>6, <2>1, <2>2, SMT
  <2>4. p = 2
    BY <1>2, <1>3, <2>3, SMT
  <2>5. Float(m) = <<half, 2>>
    <3>1. q = half /\ r = 0
      BY <2>2, <2>4
    <3> HIDE DEF p, q, r, S
    <3> QED BY <1>4, <2>4, <3>1, SMT
  <2>6. IntOf(Float(m)) = half * 2 /\ (FitsInt(Float(m)) <=> half <= MaxInt \div 2)
    <3> HIDE DEF p, q, r, S
    <3> QED BY <2>5, SMT DEF IntOf, FitsInt
  <2> QED BY <1>6, <2>1, <2>6, SMT
<1>7. Float(m)[1] \in Nat /\ Float(m)[2] \in 1..128
  <2> HIDE DEF p, q, r, S
  <2> QED BY <1>3, <1>4, SMT
<1> QED BY <1>5, <1>6, <1>7

\* A number without a minus sign, times a unit, is none below zero, unless it does
\* not fit.
LEMMA CastIsNatural ==
  ASSUME NEW num \in [n : 0..MaxInt, half : 0..1, wrap : Int], NEW unitsVal \in 1..MaxInt,
         NEW other
  PROVE  Cast(num, unitsVal, other) \in Nat \cup {other}
<1> DEFINE whole == Float(num.n)
           rest == num.half * (unitsVal \div 2)
           prod == IntOf(whole) * unitsVal
           C == /\ num.wrap = 0 /\ FitsInt(whole)
                /\ IntOf(whole) <= MaxInt \div unitsVal
                /\ rest <= MaxInt - prod
                /\ FitsInt(Float(prod + rest))
<1>0. MaxInt \in Nat
  BY Limits
<1>1. num.n \in 0..MaxInt /\ num.half \in 0..1
  OBVIOUS
<1>2. Cast(num, unitsVal, other) = IF C THEN 1 * IntOf(Float(prod + rest)) ELSE other
  BY <1>0, <1>1, SMT DEF Cast
<1>3. IntOf(whole) \in Nat
  BY <1>1, FloatFacts, SMT DEF IntOf
<1>4. rest \in Nat
  BY <1>0, <1>1, SMT
<1>5. prod \in Nat
  BY <1>3, SMT
<1> HIDE DEF prod, rest, whole
<1>6. ASSUME C PROVE IntOf(Float(prod + rest)) \in Nat
  <2>1. prod + rest \in 0..MaxInt
    BY <1>0, <1>4, <1>5, <1>6, SMT
  <2> QED BY <2>1, FloatFacts, SMT DEF IntOf
<1> QED BY <1>2, <1>6, SMT

\* A number that a float holds, in the smallest unit, is itself.
LEMMA CastOfSmall ==
  ASSUME NEW d \in -FloatLimit..FloatLimit, NEW other
  PROVE  Cast(Whole(d), 1, other) = d
<1> DEFINE m == IF d < 0 THEN -d ELSE d
<1>0. d \in Int /\ -FloatLimit <= d /\ d <= FloatLimit /\ FloatLimit \in Nat
  BY Limits, SMT
<1>1. m \in 0..MaxInt /\ (m < FloatLimit \/ m = FloatLimit) /\ FloatLimit \in Nat /\ MaxInt \in Nat
  BY <1>0, Limits, SMT
<1>2. IntOf(Float(m)) = m /\ FitsInt(Float(m))
  <2>1. CASE m < FloatLimit
    BY <1>1, <2>1, FloatFacts, SMT DEF IntOf, FitsInt
  <2>2. CASE m = FloatLimit
    BY <1>1, <2>2, FloatFacts
  <2> QED BY <1>1, <2>1, <2>2
<1>3. /\ Whole(d).n = d /\ Whole(d).half = 0 /\ Whole(d).wrap = 0
  BY DEF Whole, Num
<1>4. Cast(Whole(d), 1, other) =
        IF m <= MaxInt \div 1 /\ 0 * (1 \div 2) <= MaxInt - m * 1
           /\ FitsInt(Float(m * 1 + 0 * (1 \div 2)))
        THEN (IF d < 0 THEN -1 ELSE 1) * IntOf(Float(m * 1 + 0 * (1 \div 2))) ELSE other
  BY <1>1, <1>2, <1>3, SMT DEF Cast
<1>5. m * 1 + 0 * (1 \div 2) = m /\ MaxInt \div 1 = MaxInt /\ 0 * (1 \div 2) <= MaxInt - m * 1
  BY <1>1, SMT
<1> QED BY <1>1, <1>2, <1>4, <1>5, SMT

\* The two tables of units of a duration are of the same length and name the same
\* units.
TablesAgree(allowed, info) ==
  /\ Cardinality(DOMAIN info) = Len(allowed)
  /\ \A i \in DOMAIN allowed : allowed[i] \in DOMAIN info /\ info[allowed[i]] \in 1..MaxInt

\* A table that lists every element of a set once is as long as the set is large.
LEMMA ListedOnce ==
  ASSUME NEW n \in Nat, NEW S, NEW f \in [1..n -> S],
         \A i, j \in 1..n : f[i] = f[j] => i = j,
         \A s \in S : \E i \in 1..n : f[i] = s
  PROVE  Cardinality(S) = n
<1>1. f \in Bijection(1..n, S)
  BY DEF Bijection, Injection, Surjection, IsInjective
<1>2. ExistsBijection(1..n, S)
  BY <1>1 DEF ExistsBijection
<1> QED BY <1>2, FS_CountingElements

\* The units in milliseconds that checkRule's messages list and those that the conversion
\* knows are the same.
LEMMA MillisecondTables ==
  TablesAgree(AllowedDurationMillisecondsUnits, DurationMillisecondsUnitsInfo)
<1> DEFINE units == AllowedDurationMillisecondsUnits
           info == DurationMillisecondsUnitsInfo
           D == DOMAIN info
<1>1. D = {"millisecond", "milliseconds", "second", "seconds", "minute", "minutes", "hour", "hours", "day", "days", "week", "weeks"}
  BY SMT DEF DurationMillisecondsUnitsInfo
<1>2. /\ Len(units) = 12 /\ DOMAIN units = 1..12
      /\ units \in [1..12 -> D]
      /\ \A s \in D : \E i \in 1..12 : units[i] = s
  BY <1>1, SMT DEF AllowedDurationMillisecondsUnits
<1>3. \A i, j \in 1..12 : units[i] = units[j] => i = j
  BY SMT DEF AllowedDurationMillisecondsUnits
<1>4. Cardinality(D) = 12
  <2> DEFINE n == 12
  <2>1. /\ n \in Nat /\ units \in [1..n -> D]
        /\ \A s \in D : \E i \in 1..n : units[i] = s
        /\ \A i, j \in 1..n : units[i] = units[j] => i = j
    BY <1>2, <1>3
  <2> HIDE DEF units, D, n
  <2>2. Cardinality(D) = n
    BY <2>1, ListedOnce
  <2> QED BY <2>2 DEF n
<1>5. \A s \in D : info[s] \in 1..MaxInt
  <2>1. \A s \in D : info[s] \in Int /\ 1 <= info[s] /\ info[s] <= 604800000
    BY SMT DEF DurationMillisecondsUnitsInfo
  <2>2. 604800000 <= MaxInt /\ MaxInt \in Nat
    BY SMT DEF MaxInt
  <2> HIDE DEF D, info
  <2> QED BY <2>1, <2>2, SMT
<1> QED BY <1>2, <1>4, <1>5 DEF TablesAgree

\* And those in seconds.
LEMMA SecondTables ==
  TablesAgree(AllowedDurationSecondsUnits, DurationSecondsUnitsInfo)
<1> DEFINE units == AllowedDurationSecondsUnits
           info == DurationSecondsUnitsInfo
           D == DOMAIN info
<1>1. D = {"second", "seconds", "minute", "minutes", "hour", "hours", "day", "days", "week", "weeks"}
  BY SMT DEF DurationSecondsUnitsInfo
<1>2. /\ Len(units) = 10 /\ DOMAIN units = 1..10
      /\ units \in [1..10 -> D]
      /\ \A s \in D : \E i \in 1..10 : units[i] = s
  BY <1>1, SMT DEF AllowedDurationSecondsUnits
<1>3. \A i, j \in 1..10 : units[i] = units[j] => i = j
  BY SMT DEF AllowedDurationSecondsUnits
<1>4. Cardinality(D) = 10
  <2> DEFINE n == 10
  <2>1. /\ n \in Nat /\ units \in [1..n -> D]
        /\ \A s \in D : \E i \in 1..n : units[i] = s
        /\ \A i, j \in 1..n : units[i] = units[j] => i = j
    BY <1>2, <1>3
  <2> HIDE DEF units, D, n
  <2>2. Cardinality(D) = n
    BY <2>1, ListedOnce
  <2> QED BY <2>2 DEF n
<1>5. \A s \in D : info[s] \in 1..MaxInt
  <2>1. \A s \in D : info[s] \in Int /\ 1 <= info[s] /\ info[s] <= 604800
    BY SMT DEF DurationSecondsUnitsInfo
  <2>2. 604800 <= MaxInt /\ MaxInt \in Nat
    BY SMT DEF MaxInt
  <2> HIDE DEF D, info
  <2> QED BY <2>1, <2>2, SMT
<1> QED BY <1>2, <1>4, <1>5 DEF TablesAgree

\* What reading a duration comes to.
LEMMA DurationRead ==
  ASSUME NEW text, NEW allowed, NEW info, NEW other, TablesAgree(allowed, info)
  PROVE  StringToDuration(text, allowed, info, other) =
           IF text.spelling = "infinite" THEN Gives(Infinite)
           ELSE IF IsFloatWithUnits(text, allowed)
           THEN Gives(Cast(text.num, info[text.unit], other)) ELSE Refused
<1>1. IsFloatWithUnits(text, allowed) => text.unit \in DOMAIN info
  BY DEF TablesAgree, IsFloatWithUnits, Listed
<1>2. CASE text.spelling = "infinite"
  BY <1>2 DEF StringToDuration
<1>3. CASE text.spelling # "infinite" /\ IsFloatWithUnits(text, allowed)
  BY <1>1, <1>3 DEF StringToDuration, StringToFloatWithUnits, IsFloatWithUnits, Then, Succeeds,
    Gives, TablesAgree
<1>4. CASE text.spelling # "infinite" /\ ~IsFloatWithUnits(text, allowed)
  BY <1>4 DEF StringToDuration, StringToFloatWithUnits, IsFloatWithUnits, Then, Succeeds, Refused
<1> QED BY <1>2, <1>3, <1>4

\* And reading a memory size.
LEMMA SizeRead ==
  ASSUME NEW text, NEW allowed, NEW info, NEW other,
         \A i \in DOMAIN allowed : allowed[i] \in DOMAIN info
  PROVE  StringToMemorySizeGeneric(text, allowed, info, other) =
           IF IsFloatWithUnits(text, allowed)
           THEN Gives(Cast(text.num, info[text.unit], other)) ELSE Refused
<1>1. IsFloatWithUnits(text, allowed) => text.unit \in DOMAIN info
  BY DEF IsFloatWithUnits, Listed
<1>2. CASE IsFloatWithUnits(text, allowed)
  BY <1>1, <1>2 DEF StringToMemorySizeGeneric, StringToFloatWithUnits, IsFloatWithUnits, Then,
    Succeeds, Gives
<1>3. CASE ~IsFloatWithUnits(text, allowed)
  BY <1>3 DEF StringToMemorySizeGeneric, StringToFloatWithUnits, IsFloatWithUnits, Then, Succeeds,
    Refused
<1> QED BY <1>2, <1>3

\* Every unit that a memory size may be written in has a factor.
LEMMA SizeTables ==
  /\ \A i \in DOMAIN BytesUnits : BytesUnits[i] \in DOMAIN MemorySizeBytesUnitsInfo
                                  /\ MemorySizeBytesUnitsInfo[BytesUnits[i]] \in 1..MaxInt
  /\ \A i \in DOMAIN KBUnits : KBUnits[i] \in DOMAIN MemorySizeKBUnitsInfo
  /\ \A i \in DOMAIN MBUnits : MBUnits[i] \in DOMAIN MemorySizeMBUnitsInfo
<1>1. \A i \in DOMAIN BytesUnits : BytesUnits[i] \in DOMAIN MemorySizeBytesUnitsInfo
  BY SMT DEF BytesUnits, MemorySizeBytesUnitsInfo
<1>2. \A i \in DOMAIN KBUnits : KBUnits[i] \in DOMAIN MemorySizeKBUnitsInfo
  BY SMT DEF KBUnits, MemorySizeKBUnitsInfo
<1>3. \A i \in DOMAIN MBUnits : MBUnits[i] \in DOMAIN MemorySizeMBUnitsInfo
  BY SMT DEF MBUnits, MemorySizeMBUnitsInfo
<1>4. \A i \in DOMAIN BytesUnits : MemorySizeBytesUnitsInfo[BytesUnits[i]] \in 1..MaxInt
  <2>1. \A i \in DOMAIN BytesUnits :
          /\ MemorySizeBytesUnitsInfo[BytesUnits[i]] \in Int
          /\ 1 <= MemorySizeBytesUnitsInfo[BytesUnits[i]]
          /\ MemorySizeBytesUnitsInfo[BytesUnits[i]] <= 1073741824
    BY SMT DEF BytesUnits, MemorySizeBytesUnitsInfo
  <2>2. 1073741824 <= MaxInt /\ MaxInt \in Nat
    BY SMT DEF MaxInt
  <2> QED BY <2>1, <2>2, SMT
<1> QED BY <1>1, <1>2, <1>3, <1>4

\* None of the readers but that of microseconds fails an assertion.
Plain(outcome) == outcome.tag \in {"value", "config"}

\* So no reader of an int, a float, a duration in milliseconds or seconds, or a memory
\* size fails one, whatever the text.
LEMMA PlainReaders ==
  ASSUME NEW text
  PROVE  /\ Plain(StringToInt(text)) /\ Plain(StringToFloat(text))
         /\ Plain(StringToDurationMilliseconds(text, outOfRange))
         /\ Plain(StringToDurationSeconds(text, outOfRange))
         /\ Plain(StringToMemorySizeBytes(text, outOfRange))
         /\ Plain(StringToMemorySizeKB(text, outOfRange))
         /\ Plain(StringToMemorySizeMB(text, outOfRange))
<1>1. Plain(StringToInt(text)) /\ Plain(StringToFloat(text))
  BY DEF Plain, StringToInt, StringToFloat, Gives, Refused
<1>2. /\ Plain(StringToDurationMilliseconds(text, outOfRange))
      /\ Plain(StringToDurationSeconds(text, outOfRange))
  BY DurationRead, MillisecondTables, SecondTables
     DEF Plain, StringToDurationMilliseconds, StringToDurationSeconds, Gives, Refused
<1>3. /\ Plain(StringToMemorySizeBytes(text, outOfRange))
      /\ Plain(StringToMemorySizeKB(text, outOfRange))
      /\ Plain(StringToMemorySizeMB(text, outOfRange))
  BY SizeRead, SizeTables
     DEF Plain, StringToMemorySizeBytes, StringToMemorySizeKB, StringToMemorySizeMB, Gives, Refused
<1> QED BY <1>1, <1>2, <1>3

\* What checkRule has made sure of holds when isA asserts it: an infinite minimum is
\* followed by an infinite maximum.  Without arguments nothing is asserted.
LEMMA NoAssertion ==
  ASSUME NEW type \in BuiltIn, type # "durationMicroseconds", NEW text, NEW args \in Seq(Text),
         CheckRule(type, args) = "ok" \/ args = <<>>
  PROVE  BuiltInIsA(type, text, args) # "assert"
<1> USE DEF Demand, Gives, Refused
<1>1. CASE type = "string"
  BY <1>1 DEF BuiltInIsA, StringIsA
<1>2. CASE type = "int"
  BY <1>2, PlainReaders DEF BuiltInIsA, IntIsA, Within, Plain
<1>3. CASE type = "float"
  BY <1>3, PlainReaders DEF BuiltInIsA, FloatIsA, Within, Plain
<1>4. CASE type = "durationMilliseconds"
  <2> DEFINE Read(t) == StringToDurationMilliseconds(t, outOfRange)
  <2>1. BuiltInIsA(type, text, args) = DurationMillisecondsIsA(text, args)
    BY <1>4 DEF BuiltInIsA
  <2>2. CASE args = <<>>
    BY <2>1, <2>2, PlainReaders DEF DurationMillisecondsIsA, Within, Plain
  <2>3. CASE args # <<>>
    <3>1. DurationMillisecondsCheckRule(args) = "ok"
      BY <1>4, <2>3 DEF CheckRule
    <3>2. /\ Succeeds(Read(args[1])) /\ Succeeds(Read(args[2]))
          /\ ~RefusesDurations(Read(args[1]).value, Read(args[2]).value)
      BY <2>3, <3>1, PlainReaders DEF DurationMillisecondsCheckRule, MinMax, Plain, Succeeds
    <3>3. InsideDurations(Read(text).value, Read(args[1]).value, Read(args[2]).value) # "assert"
      BY <3>2 DEF RefusesDurations, InsideDurations
    <3> QED BY <2>1, <2>3, <3>2, <3>3, PlainReaders DEF DurationMillisecondsIsA, Within, Plain
  <2> QED BY <2>2, <2>3
<1>5. CASE type = "durationSeconds"
  <2> DEFINE Read(t) == StringToDurationSeconds(t, outOfRange)
  <2>1. BuiltInIsA(type, text, args) = DurationSecondsIsA(text, args)
    BY <1>5 DEF BuiltInIsA
  <2>2. CASE args = <<>>
    BY <2>1, <2>2, PlainReaders DEF DurationSecondsIsA, Within, Plain
  <2>3. CASE args # <<>>
    <3>1. DurationSecondsCheckRule(args) = "ok"
      BY <1>5, <2>3 DEF CheckRule
    <3>2. /\ Succeeds(Read(args[1])) /\ Succeeds(Read(args[2]))
          /\ ~RefusesDurations(Read(args[1]).value, Read(args[2]).value)
      BY <2>3, <3>1, PlainReaders DEF DurationSecondsCheckRule, MinMax, Plain, Succeeds
    <3>3. InsideDurations(Read(text).value, Read(args[1]).value, Read(args[2]).value) # "assert"
      BY <3>2 DEF RefusesDurations, InsideDurations
    <3> QED BY <2>1, <2>3, <3>2, <3>3, PlainReaders DEF DurationSecondsIsA, Within, Plain
  <2> QED BY <2>2, <2>3
<1>6. CASE type \in {"memorySizeBytes", "memorySizeKB", "memorySizeMB"}
  BY <1>6, PlainReaders DEF BuiltInIsA, MemorySizeBytesIsA, MemorySizeKBIsA, MemorySizeMBIsA, Within,
    InsideSizes, Plain
<1>7. CASE type \in {"boolean", "enum", "int_with_units", "float_with_units", "units_with_int",
                     "units_with_float"}
  BY <1>7 DEF BuiltInIsA, BooleanIsA, EnumIsA, IntWithUnitsIsA, FloatWithUnitsIsA, UnitsWithIntIsA,
    UnitsWithFloatIsA
<1>8. CASE type \in {"scope", "list", "table", "tuple"}
  BY <1>8 DEF BuiltInIsA
<1> QED BY <1>1, <1>2, <1>3, <1>4, <1>5, <1>6, <1>7, <1>8 DEF BuiltIn

\* Look-ups of other types than microseconds fail no assertion.
LEMMA LookUpsAreSafe ==
  ASSUME NEW r, r.type \in BuiltIn, r.type # "durationMicroseconds"
  PROVE  LookUpAs(r).tag # "assert"
<1> DEFINE ok(outcome) == outcome.tag # "assert"
<1>0. ok(LookupString(entry)) /\ ok(LookupList(entry)) /\ ok(LookupScope(entry))
  BY DEF LookupString, LookupList, LookupScope, Gives, Refused
<1>1. CASE r.type \in {"scope", "string", "list", "table", "tuple"}
  BY <1>0, <1>1 DEF LookUpAs
<1>2. CASE r.type \in {"int", "float"}
  BY <1>0, <1>2, PlainReaders DEF LookUpAs, LookupInt, LookupFloat, Then, Plain
<1>3. CASE r.type \in {"boolean", "enum"}
  BY <1>0, <1>3 DEF LookUpAs, LookupBoolean, LookupEnum, Then, StringToEnum, Gives, Refused
<1>4. CASE r.type \in WithUnits
  BY <1>0, <1>4 DEF WithUnits, LookUpAs, LookupIntWithUnits, LookupFloatWithUnits, LookupUnitsWithInt,
    LookupUnitsWithFloat, Then, StringToIntWithUnits, StringToFloatWithUnits, StringToUnitsWithInt,
    StringToUnitsWithFloat, Gives, Refused
<1>5. CASE r.type \in {"durationMilliseconds", "durationSeconds"}
  BY <1>0, <1>5, PlainReaders DEF LookUpAs, LookupDurationMilliseconds, LookupDurationSeconds, Then, Plain
<1>6. CASE r.type \in {"memorySizeBytes", "memorySizeKB", "memorySizeMB"}
  BY <1>0, <1>6, PlainReaders DEF LookUpAs, LookupMemorySizeBytes, LookupMemorySizeKB,
    LookupMemorySizeMB, Then, Plain
<1> QED BY <1>1, <1>2, <1>3, <1>4, <1>5, <1>6 DEF BuiltIn, WithUnits

\* And neither do those with a default.
LEMMA DefaultLookUpsAreSafe ==
  ASSUME NEW r, r.type \in BuiltIn, r.type # "durationMicroseconds", NEW d
  PROVE  LookUpAsOr(r, d).tag # "assert"
<1> DEFINE ok(outcome) == outcome.tag # "assert"
<1>0. ok(LookupString(entry)) /\ ok(LookupList(entry)) /\ \A t : ok(LookupStringOr(entry, t))
  BY DEF LookupString, LookupStringOr, LookupList, Gives, Refused
<1>1. CASE r.type \in {"scope", "string", "list", "table", "tuple"}
  BY <1>0, <1>1 DEF LookUpAsOr, LookupListOr, Gives
<1>2. CASE r.type \in {"int", "float"}
  BY <1>0, <1>2, PlainReaders DEF LookUpAsOr, LookupIntOr, LookupFloatOr, Then, Plain
<1>3. CASE r.type \in {"boolean", "enum"}
  BY <1>0, <1>3 DEF LookUpAsOr, LookupBooleanOr, LookupEnumOrName, LookupEnumOr, LookupEnum, Then,
    StringToEnum, Gives, Refused
<1>4. CASE r.type \in WithUnits
  BY <1>4 DEF WithUnits, LookUpAsOr, LookupIntWithUnitsOr, LookupFloatWithUnitsOr,
    LookupUnitsWithIntOr, LookupUnitsWithFloatOr, Gives, Recurses
<1>5. CASE r.type \in {"durationMilliseconds", "durationSeconds"}
  BY <1>0, <1>5, PlainReaders DEF LookUpAsOr, LookupDurationMillisecondsOr, LookupDurationSecondsOr,
    Then, Plain
<1>6. CASE r.type \in {"memorySizeBytes", "memorySizeKB", "memorySizeMB"}
  BY <1>0, <1>6, PlainReaders DEF LookUpAsOr, LookupMemorySizeBytesOr, LookupMemorySizeKBOr,
    LookupMemorySizeMBOr, Then, Plain
<1> QED BY <1>1, <1>2, <1>3, <1>4, <1>5, <1>6 DEF BuiltIn, WithUnits

\* What isA accepts, the look-up of the type finds, and the look-up with a default
\* too, but for those of numbers with units.
LEMMA AcceptedIsRead ==
  ASSUME NEW type \in BuiltIn, entry.type = "String", NEW args,
         BuiltInIsA(type, entry.text, args) = "ok", NEW d
  PROVE  LET r == [type |-> type, args |-> args]
         IN  /\ Succeeds(LookUpAs(r))
             /\ Succeeds(LookUpAsOr(r, d)) \/ (type \in WithUnits /\ LookUpAsOr(r, d).tag = "recurses")
<1> SUFFICES ASSUME NEW r, r = [type |-> type, args |-> args]
             PROVE  /\ Succeeds(LookUpAs(r))
                    /\ \/ Succeeds(LookUpAsOr(r, d))
                       \/ type \in WithUnits /\ LookUpAsOr(r, d).tag = "recurses"
  OBVIOUS
<1>0. /\ r.type = type /\ r.args = args
      /\ LookupString(entry) = Gives(entry.text)
      /\ \A t : LookupStringOr(entry, t) = Gives(entry.text)
  BY DEF LookupString, LookupStringOr
<1> USE DEF Gives, Refused, Demand, Succeeds, Then
<1>1. CASE type = "string"
  BY <1>0, <1>1 DEF LookUpAs, LookUpAsOr
<1>2. CASE type = "int"
  BY <1>0, <1>2, PlainReaders
     DEF BuiltInIsA, IntIsA, Within, Plain, LookUpAs, LookupInt, LookUpAsOr, LookupIntOr
<1>3. CASE type = "float"
  BY <1>0, <1>3, PlainReaders
     DEF BuiltInIsA, FloatIsA, Within, Plain, LookUpAs, LookupFloat, LookUpAsOr, LookupFloatOr
<1>4. CASE type = "boolean"
  <2>1. EnumVal(entry.text, BoolInfo)
    BY <1>4 DEF BuiltInIsA, BooleanIsA, IsBoolean
  <2> QED BY <1>0, <1>4, <2>1 DEF LookUpAs, LookupBoolean, LookupEnum, LookUpAsOr, LookupBooleanOr,
    LookupEnumOrName, StringToEnum
<1>5. CASE type = "enum"
  <2>1. EnumVal(entry.text, Spellings(args))
    BY <1>5 DEF BuiltInIsA, EnumIsA, IsEnum
  <2> QED BY <1>0, <1>5, <2>1 DEF LookUpAs, LookupEnum, LookUpAsOr, LookupEnumOr, StringToEnum
<1>6. CASE type \in {"durationMicroseconds", "durationMilliseconds", "durationSeconds"}
  <2>1. StringToDurationMicroseconds(entry.text, outOfRange).tag # "ok"
    BY DEF StringToDurationMicroseconds, StringToDuration, StringToFloatWithUnits, Assertion
  <2> QED
    BY <1>0, <1>6, <2>1, PlainReaders DEF BuiltInIsA, Plain, DurationMicrosecondsIsA,
      DurationMillisecondsIsA, DurationSecondsIsA, Within, LookUpAs, LookupDurationMicroseconds,
      LookupDurationMilliseconds, LookupDurationSeconds, LookUpAsOr, LookupDurationMicrosecondsOr,
      LookupDurationMillisecondsOr, LookupDurationSecondsOr
<1>7. CASE type \in {"memorySizeBytes", "memorySizeKB", "memorySizeMB"}
  BY <1>0, <1>7, PlainReaders DEF BuiltInIsA, MemorySizeBytesIsA, MemorySizeKBIsA, MemorySizeMBIsA,
    Within, LookUpAs, LookupMemorySizeBytes, LookupMemorySizeKB, LookupMemorySizeMB, LookUpAsOr,
    LookupMemorySizeBytesOr, LookupMemorySizeKBOr, LookupMemorySizeMBOr, Plain
<1>8. CASE type \in WithUnits
  <2>1. LookUpAsOr(r, d).tag = "recurses"
    BY <1>0, <1>8 DEF WithUnits, LookUpAsOr, LookupIntWithUnitsOr, LookupFloatWithUnitsOr,
      LookupUnitsWithIntOr, LookupUnitsWithFloatOr, Recurses
  <2>2. Succeeds(LookUpAs(r))
    <3> USE <1>0 DEF LookUpAs, BuiltInIsA
    <3>1. CASE type = "int_with_units"
      BY <3>1 DEF IntWithUnitsIsA, IsIntWithUnits, LookupIntWithUnits, StringToIntWithUnits
    <3>2. CASE type = "float_with_units"
      BY <3>2 DEF FloatWithUnitsIsA, IsFloatWithUnits, LookupFloatWithUnits, StringToFloatWithUnits
    <3>3. CASE type = "units_with_int"
      BY <3>3 DEF UnitsWithIntIsA, IsUnitsWithInt, LookupUnitsWithInt, StringToUnitsWithInt
    <3>4. CASE type = "units_with_float"
      BY <3>4 DEF UnitsWithFloatIsA, IsUnitsWithFloat, LookupUnitsWithFloat, StringToUnitsWithFloat
    <3> QED BY <1>8, <3>1, <3>2, <3>3, <3>4 DEF WithUnits
  <2> QED BY <1>8, <2>1, <2>2
<1>9. CASE type \in {"scope", "list", "table", "tuple"}
  BY <1>9 DEF BuiltInIsA
<1> QED BY <1>1, <1>2, <1>3, <1>4, <1>5, <1>6, <1>7, <1>8, <1>9 DEF BuiltIn, WithUnits

\* Quotient and remainder are what they are called.
LEMMA Division ==
  ASSUME NEW c \in Nat \ {0}, NEW a \in Nat
  PROVE  /\ a \div c \in Nat /\ a % c \in 0..(c - 1)
         /\ a = (a \div c) * c + (a % c)
  BY SMT

\* A number is in one way a multiple of a number and a remainder below it.
LEMMA DivisionIsUnique ==
  ASSUME NEW c \in Nat \ {0}, NEW q \in Nat, NEW r \in 0..(c - 1), NEW p \in Nat, NEW s \in 0..(c - 1),
         q * c + r = p * c + s
  PROVE  q = p /\ r = s
<1>1. CASE q > p
  <2>1. (q - p) * c >= c
    BY <1>1, SMT
  <2>2. (q - p) * c = s - r
    BY SMT
  <2> QED BY <2>1, <2>2, SMT
<1>2. CASE q < p
  <2>1. (p - q) * c >= c
    BY <1>2, SMT
  <2>2. (p - q) * c = r - s
    BY SMT
  <2> QED BY <2>1, <2>2, SMT
<1>3. CASE q = p
  BY <1>3, SMT
<1> QED BY <1>1, <1>2, <1>3, SMT

\* So the remainder of a multiple plus a smaller number is that number.
LEMMA Remainder ==
  ASSUME NEW c \in Nat \ {0}, NEW q \in Nat, NEW r \in 0..(c - 1)
  PROVE  (q * c + r) % c = r
<1> DEFINE a == q * c + r
<1>1. a \in Nat
  BY SMT
<1> HIDE DEF a
<1>2. /\ a \div c \in Nat /\ a % c \in 0..(c - 1)
      /\ a = (a \div c) * c + (a % c)
  BY <1>1, Division
<1>3. q * c + r = (a \div c) * c + (a % c)
  BY <1>2 DEF a
<1> QED BY <1>2, <1>3, DivisionIsUnique DEF a

\* The column of the element that is r-th in its row, counted from 0, in a list of
\* pairs.
LEMMA ColumnWraps ==
  ASSUME NEW cols \in Nat \ {0}, NEW q \in Nat, NEW r \in 0..(cols - 1)
  PROVE  ((q * cols + r) * 2) % (2 * cols) = 2 * r
<1>1. (q * cols + r) * 2 = q * (2 * cols) + 2 * r
  BY SMT
<1>2. 2 * cols \in Nat \ {0} /\ 2 * r \in 0..(2 * cols - 1)
  BY SMT
<1> QED BY <1>1, <1>2, Remainder

\* The columns of a rule that checkRule let through are types based on a string.
LEMMA ColumnsAreTypes ==
  ASSUME NEW args \in Seq(Text), AreColumns(args)
  PROVE  /\ Len(args) \in Nat \ {0} /\ Len(args) % 2 = 0 /\ Len(args) \div 2 \in Nat \ {0}
         /\ Len(args) = 2 * (Len(args) \div 2)
         /\ \A c \in 1..(Len(args) \div 2) : IsStringBased(args[2 * c - 1])
         /\ \A i \in Nat \ {0} : \E c \in 1..(Len(args) \div 2) : ColumnType(args, i) = args[2 * c - 1].spelling
<1> DEFINE cols == Len(args) \div 2
<1>1. Len(args) \in Nat \ {0} /\ Len(args) % 2 = 0
  BY DEF AreColumns
<1>2. Len(args) = 2 * cols /\ cols \in Nat \ {0}
  BY <1>1, SMT
<1>3. \A c \in 1..cols : IsStringBased(args[2 * c - 1])
  BY DEF AreColumns, ColumnTypes
<1>4. ASSUME NEW i \in Nat \ {0}
      PROVE  \E c \in 1..cols : ColumnType(args, i) = args[2 * c - 1].spelling
  <2> DEFINE q == (i - 1) \div cols
             r == (i - 1) % cols
  <2>1. i - 1 \in Nat
    BY SMT
  <2>2. q \in Nat /\ r \in 0..(cols - 1) /\ i - 1 = q * cols + r
    <3> HIDE DEF cols
    <3> QED BY <1>2, <2>1, Division
  <2> HIDE DEF cols, q, r
  <2>3. ((i - 1) * 2) % (2 * cols) = 2 * r
    BY <1>2, <2>2, ColumnWraps
  <2>4. ColumnType(args, i) = args[2 * r + 1].spelling
    BY <1>2, <2>3 DEF ColumnType
  <2>5. r + 1 \in 1..cols /\ 2 * (r + 1) - 1 = 2 * r + 1
    BY <1>2, <2>2, SMT
  <2> QED BY <2>4, <2>5
<1> QED BY <1>1, <1>2, <1>3, <1>4

\* A row is a part of the list, as long as there are columns.
LEMMA RowOfList ==
  ASSUME NEW cols \in Nat \ {0}, NEW list \in Seq(Text), NEW m \in Nat, m + cols <= Len(list),
         NEW c \in 1..cols
  PROVE  m + c \in 1..Len(list) /\ SubSeq(list, m + 1, m + cols)[c] = list[m + c]
<1>1. SubSeq(list, m + 1, m + cols) = [j \in 1..cols |-> list[m + j]]
  BY SMT
<1>2. SubSeq(list, m + 1, m + cols)[c] = list[m + c]
  BY <1>1
<1> QED BY <1>2, SMT

\* Counting by row and column stays within the list.
LEMMA RowsFit ==
  ASSUME NEW cols \in Nat \ {0}, NEW rows \in Nat, NEW k \in 1..rows
  PROVE  (k - 1) * cols \in Nat /\ k * cols = (k - 1) * cols + cols /\ k * cols <= rows * cols
<1>1. (k - 1) * cols \in Nat /\ k * cols = (k - 1) * cols + cols
  BY SMT
<1>2. rows * cols = k * cols + (rows - k) * cols
  BY SMT
<1>3. (rows - k) * cols \in Nat /\ k * cols \in Nat
  BY SMT
<1> QED BY <1>1, <1>2, <1>3, SMT

Columns(args) == Len(args) \div 2

\* Where element c of row k stands in a list, and that row.
Position(cols, k, c) == (k - 1) * cols + c
RowOf(list, cols, k) == SubSeq(list, (k - 1) * cols + 1, k * cols)

\* Element c of row k has the type of column c.
LEMMA ElementOfRow ==
  ASSUME NEW args \in Seq(Text), AreColumns(args), NEW list \in Seq(Text),
         NEW cols, cols = Columns(args), NEW rows \in Nat, rows * cols = Len(list),
         NEW k \in 1..rows, NEW c \in 1..cols
  PROVE  /\ Position(cols, k, c) \in 1..Len(list)
         /\ ColumnType(args, Position(cols, k, c)) = args[2 * c - 1].spelling
         /\ RowOf(list, cols, k)[c] = list[Position(cols, k, c)]
<1> DEFINE m == (k - 1) * cols
<1>1. cols \in Nat \ {0} /\ Len(args) = 2 * cols
  BY ColumnsAreTypes DEF Columns
<1>2. m \in Nat /\ k * cols = m + cols /\ m + cols <= Len(list)
  <2>1. m \in Nat /\ k * cols = m + cols /\ k * cols <= rows * cols
    BY <1>1, RowsFit
  <2> HIDE DEF m
  <2> QED BY <2>1
<1>3. ColumnType(args, m + c) = args[2 * c - 1].spelling
  <2> DEFINE i == m + c
  <2>1. c - 1 \in 0..(cols - 1) /\ k - 1 \in Nat
    BY <1>1, SMT
  <2>2. (((k - 1) * cols + (c - 1)) * 2) % (2 * cols) = 2 * (c - 1)
    BY <1>1, <2>1, ColumnWraps
  <2>3. i - 1 = (k - 1) * cols + (c - 1) /\ 2 * (c - 1) + 1 = 2 * c - 1
    <3>1. m \in Int /\ m = (k - 1) * cols
      BY <1>2
    <3> HIDE DEF m
    <3> QED BY <1>1, <3>1, SMT
  <2> HIDE DEF i, m
  <2>4. ((i - 1) * 2) % Len(args) = 2 * (c - 1)
    BY <1>1, <2>2, <2>3
  <2>5. ColumnType(args, i) = args[2 * c - 1].spelling
    BY <2>3, <2>4 DEF ColumnType
  <2> QED BY <2>5 DEF i
<1>4. m + c \in 1..Len(list) /\ SubSeq(list, m + 1, m + cols)[c] = list[m + c]
  <2> HIDE DEF m
  <2> QED BY <1>1, <1>2, RowOfList
<1> QED BY <1>2, <1>3, <1>4 DEF Position, RowOf

\* Every element of a list of whole rows has its row and its column.
LEMMA RowAndColumn ==
  ASSUME NEW cols \in Nat \ {0}, NEW rows \in Nat, NEW i \in 1..(rows * cols)
  PROVE  \E k \in 1..rows : \E c \in 1..cols : i = Position(cols, k, c)
<1> DEFINE q == (i - 1) \div cols
           r == (i - 1) % cols
<1>1. rows * cols \in Nat
  BY SMT
<1>2. i \in Nat /\ i - 1 \in Nat /\ i - 1 < rows * cols
  BY <1>1
<1>3. q \in Nat /\ r \in 0..(cols - 1) /\ i - 1 = q * cols + r
  BY <1>2, Division
<1> HIDE DEF q, r
<1>4. q < rows
  <2>1. SUFFICES ASSUME q >= rows PROVE FALSE
    BY <1>3
  <2>2. q * cols = rows * cols + (q - rows) * cols
    BY <1>3, SMT
  <2>3. (q - rows) * cols \in Nat /\ q * cols \in Nat
    BY <1>3, <2>1, SMT
  <2> QED BY <1>1, <1>2, <1>3, <2>2, <2>3
<1>5. q + 1 \in 1..rows /\ r + 1 \in 1..cols
  BY <1>3, <1>4
<1>6. q * cols \in Nat
  BY <1>3, SMT
<1>7. (q + 1) - 1 = q
  BY <1>3
<1>8. i = q * cols + (r + 1)
  BY <1>2, <1>3, <1>6
<1> QED BY <1>5, <1>7, <1>8 DEF Position

\* A multiple leaves no remainder.
LEMMA Multiples ==
  ASSUME NEW cols \in Nat \ {0}, NEW rows \in Nat
  PROVE  (rows * cols) % cols = 0
<1>1. 0 \in 0..(cols - 1) /\ rows * cols \in Nat
  BY SMT
<1>2. (rows * cols + 0) % cols = 0
  BY <1>1, Remainder
<1>3. rows * cols + 0 = rows * cols
  BY <1>1
<1> QED BY <1>2, <1>3

\* A list seen as elements with a type in turn, and as rows.
ElementsOK(args, list, cols) ==
  /\ Len(list) % cols = 0
  /\ \A i \in DOMAIN list : IsA(ColumnType(args, i), list[i], <<>>) = "ok"
RowsOK(args, list, cols) ==
  \E rows \in 0..Len(list) :
    /\ rows * cols = Len(list)
    /\ \A k \in 1..rows : \A c \in 1..cols :
         IsA(args[2 * c - 1].spelling, RowOf(list, cols, k)[c], <<>>) = "ok"

\* A list whose elements are of the types of the columns in turn, and which ends with
\* the last column, is one of rows, and the other way round.
LEMMA RowsAreElements ==
  ASSUME NEW args \in Seq(Text), AreColumns(args), NEW list \in Seq(Text),
         NEW cols, cols = Columns(args)
  PROVE  ElementsOK(args, list, cols) <=> RowsOK(args, list, cols)
<1> DEFINE At(k, c) == Position(cols, k, c)
           Cell(k, c) == IsA(args[2 * c - 1].spelling, RowOf(list, cols, k)[c], <<>>)
           V(i) == IsA(ColumnType(args, i), list[i], <<>>)
           Elements == \A i \in DOMAIN list : V(i) = "ok"
           Rows(rows) == rows * cols = Len(list) /\ \A k \in 1..rows : \A c \in 1..cols : Cell(k, c) = "ok"
<1>1. cols \in Nat \ {0} /\ Len(list) \in Nat /\ DOMAIN list = 1..Len(list)
  BY ColumnsAreTypes DEF Columns
<1>2. ASSUME NEW rows \in Nat, rows * cols = Len(list), NEW k \in 1..rows, NEW c \in 1..cols
      PROVE  At(k, c) \in DOMAIN list /\ Cell(k, c) = V(At(k, c))
  <2>1. /\ Position(cols, k, c) \in 1..Len(list)
        /\ ColumnType(args, Position(cols, k, c)) = args[2 * c - 1].spelling
        /\ RowOf(list, cols, k)[c] = list[Position(cols, k, c)]
    <3> HIDE DEF At, Cell, V
    <3> QED BY <1>2, ElementOfRow
  <2> QED BY <1>1, <2>1, Zenon
<1>6. ASSUME NEW rows \in Nat, rows * cols = Len(list), NEW i \in DOMAIN list
      PROVE  \E k \in 1..rows : \E c \in 1..cols : i = At(k, c)
  <2>1. i \in 1..(rows * cols)
    BY <1>1, <1>6
  <2> QED BY <1>1, <2>1, RowAndColumn
<1> HIDE DEF At, Cell, V
<1>3. ASSUME Len(list) % cols = 0, Elements PROVE \E rows \in 0..Len(list) : Rows(rows)
  <2> DEFINE rows == Len(list) \div cols
  <2>1. rows \in Nat /\ rows * cols = Len(list)
    <3>1. rows \in Nat /\ Len(list) = rows * cols + (Len(list) % cols)
      BY <1>1, Division
    <3>2. rows * cols \in Nat
      BY <1>1, <3>1, SMT
    <3> HIDE DEF rows
    <3> QED BY <1>3, <3>1, <3>2
  <2> HIDE DEF rows
  <2>2. rows <= Len(list)
    <3>1. rows * cols = rows + rows * (cols - 1) /\ rows * (cols - 1) \in Nat
      BY <1>1, <2>1, SMT
    <3> QED BY <1>1, <2>1, <3>1
  <2>3. ASSUME NEW k \in 1..rows, NEW c \in 1..cols PROVE Cell(k, c) = "ok"
    BY <1>2, <1>3, <2>1, Zenon
  <2>4. Rows(rows)
    BY <2>1, <2>3, Zenon
  <2>5. rows \in 0..Len(list)
    BY <1>1, <2>1, <2>2
  <2> HIDE DEF Rows
  <2> QED BY <2>4, <2>5
<1>4. ASSUME NEW rows \in 0..Len(list), Rows(rows) PROVE Len(list) % cols = 0 /\ Elements
  <2>1. rows \in Nat /\ rows * cols = Len(list)
    <3>1. rows * cols = Len(list)
      BY <1>4
    <3>2. rows \in Nat
      BY <1>1
    <3> QED BY <3>1, <3>2
  <2>2. Len(list) % cols = 0
    BY <1>1, <2>1, Multiples, Zenon
  <2>3. ASSUME NEW i \in DOMAIN list PROVE V(i) = "ok"
    <3>1. PICK k \in 1..rows, c \in 1..cols : i = At(k, c)
      BY <1>6, <2>1
    <3>2. Cell(k, c) = V(i) /\ Cell(k, c) = "ok"
      BY <1>2, <1>4, <2>1, <3>1, Zenon
    <3> QED BY <3>2
  <2> QED BY <2>2, <2>3
<1>5. (Len(list) % cols = 0 /\ Elements) <=> \E rows \in 0..Len(list) : Rows(rows)
  BY <1>3, <1>4
<1> QED BY <1>5 DEF Cell, V, ElementsOK, RowsOK

\* The range check of durations is the order with infinite above all numbers.
LEMMA InsideIsOrder ==
  ASSUME NEW val \in Int, NEW min \in Int, NEW max \in Int, ~RefusesDurations(min, max)
  PROVE  InsideDurations(val, min, max) = "ok" <=>
           /\ val = Infinite \/ (min # Infinite /\ min <= val)
           /\ max = Infinite \/ (val # Infinite /\ val <= max)
BY SMT DEF InsideDurations, RefusesDurations, Infinite, Demand

\* A duration that is read without a minus sign is infinite when its spelling says so.
LEMMA DurationValue ==
  ASSUME NEW allowed, NEW info, TablesAgree(allowed, info), Infinite \notin OutOfRange,
         outOfRange \in OutOfRange, NEW text \in Text, ~Negative(text),
         Succeeds(StringToDuration(text, allowed, info, outOfRange))
  PROVE  LET value == StringToDuration(text, allowed, info, outOfRange).value
         IN  value \in Int /\ (value = Infinite <=> text.spelling = "infinite")
<1> DEFINE read == StringToDuration(text, allowed, info, outOfRange)
<1>1. CASE text.spelling = "infinite"
  <2>1. read = Gives(Infinite)
    BY <1>1, DurationRead
  <2> QED BY <1>1, <2>1 DEF Gives, Infinite
<1>2. CASE text.spelling # "infinite"
  <2>1. read = IF IsFloatWithUnits(text, allowed)
               THEN Gives(Cast(text.num, info[text.unit], outOfRange)) ELSE Refused
    BY <1>2, DurationRead
  <2>2. IsFloatWithUnits(text, allowed)
    BY <2>1 DEF Succeeds, Refused
  <2>3. info[text.unit] \in 1..MaxInt
    BY <2>2 DEF IsFloatWithUnits, Listed, TablesAgree
  <2>4. text.num \in [n : 0..MaxInt, half : 0..1, wrap : Int]
    <3>1. text.num \in [n : -MaxInt..MaxInt, half : 0..1, wrap : Int]
      BY DEF Text
    <3>2. text.num.n \in -MaxInt..MaxInt /\ MaxInt \in Nat /\ ~(text.num.n < 0)
      BY <3>1, Limits DEF Negative
    <3>3. text.num.n \in 0..MaxInt
      BY <3>2
    <3> QED BY <3>1, <3>3
  <2>5. Cast(text.num, info[text.unit], outOfRange) \in Nat \cup {outOfRange}
    BY <2>3, <2>4, CastIsNatural
  <2>6. outOfRange \in Int /\ outOfRange # Infinite
    BY OutOfRangeInts
  <2>7. read.value = Cast(text.num, info[text.unit], outOfRange)
    BY <2>1, <2>2 DEF Gives
  <2> QED BY <1>2, <2>5, <2>6, <2>7 DEF Infinite
<1> QED BY <1>1, <1>2

\* The two steps of the range check of a duration, reading and comparing, on texts.
LEMMA DurationsInOrder ==
  ASSUME NEW allowed, NEW info, TablesAgree(allowed, info), Infinite \notin OutOfRange,
         outOfRange \in OutOfRange,
         NEW text \in Text, ~Negative(text), NEW s \in Text, ~Negative(s), NEW t \in Text, ~Negative(t),
         NEW val, val = StringToDuration(text, allowed, info, outOfRange),
         NEW min, min = StringToDuration(s, allowed, info, outOfRange), Succeeds(min),
         NEW max, max = StringToDuration(t, allowed, info, outOfRange), Succeeds(max),
         ~RefusesDurations(min.value, max.value), Succeeds(val)
  PROVE  InsideDurations(val.value, min.value, max.value) = "ok" <=>
           /\ text.spelling = "infinite" \/ (s.spelling # "infinite" /\ min.value <= val.value)
           /\ t.spelling = "infinite" \/ (text.spelling # "infinite" /\ val.value <= max.value)
<1>1. val.value \in Int /\ (val.value = Infinite <=> text.spelling = "infinite")
  BY DurationValue
<1>2. min.value \in Int /\ (min.value = Infinite <=> s.spelling = "infinite")
  BY DurationValue
<1>3. max.value \in Int /\ (max.value = Infinite <=> t.spelling = "infinite")
  BY DurationValue
<1> QED BY <1>1, <1>2, <1>3, InsideIsOrder

\* The range check of each type is the order on texts.
LEMMA MillisecondsInOrder ==
  ASSUME Infinite \notin OutOfRange, outOfRange \in OutOfRange,
         NEW text \in Text, ~Negative(text), NEW args \in Seq(Text), Len(args) = 2,
         ~Negative(args[1]), ~Negative(args[2]), DurationMillisecondsCheckRule(args) = "ok"
  PROVE  DurationMillisecondsIsA(text, args) = "ok" <=>
           /\ Succeeds(StringToDurationMilliseconds(text, outOfRange))
           /\ AtMost(args[1], text, LAMBDA t : StringToDurationMilliseconds(t, outOfRange))
           /\ AtMost(text, args[2], LAMBDA t : StringToDurationMilliseconds(t, outOfRange))
<1> DEFINE val == StringToDurationMilliseconds(text, outOfRange)
           min == StringToDurationMilliseconds(args[1], outOfRange)
           max == StringToDurationMilliseconds(args[2], outOfRange)
<1>1. args[1] \in Text /\ args[2] \in Text /\ args # <<>>
  OBVIOUS
<1>2. Succeeds(min) /\ Succeeds(max) /\ ~RefusesDurations(min.value, max.value)
  <2>1. Plain(min) /\ Plain(max)
    BY PlainReaders
  <2> HIDE DEF min, max
  <2> QED BY <1>1, <2>1 DEF DurationMillisecondsCheckRule, MinMax, Demand, Plain, Succeeds, min, max
<1>3. DurationMillisecondsIsA(text, args) =
        IF ~Succeeds(val) THEN val.tag ELSE InsideDurations(val.value, min.value, max.value)
  BY <1>1, <1>2 DEF DurationMillisecondsIsA, Within
<1>4. Plain(val)
  BY PlainReaders
<1>6. Succeeds(val) =>
        (InsideDurations(val.value, min.value, max.value) = "ok" <=>
           /\ text.spelling = "infinite" \/ (args[1].spelling # "infinite" /\ min.value <= val.value)
           /\ args[2].spelling = "infinite" \/ (text.spelling # "infinite" /\ val.value <= max.value))
  BY <1>1, <1>2, MillisecondTables, DurationsInOrder DEF StringToDurationMilliseconds
<1> HIDE DEF val, min, max
<1>7. DurationMillisecondsIsA(text, args) = "ok" <=>
        /\ Succeeds(val)
        /\ text.spelling = "infinite" \/ (args[1].spelling # "infinite" /\ min.value <= val.value)
        /\ args[2].spelling = "infinite" \/ (text.spelling # "infinite" /\ val.value <= max.value)
  BY <1>3, <1>4, <1>6 DEF Plain, Succeeds
<1> QED BY <1>7 DEF AtMost, val, min, max

\* And for seconds.
LEMMA SecondsInOrder ==
  ASSUME Infinite \notin OutOfRange, outOfRange \in OutOfRange,
         NEW text \in Text, ~Negative(text), NEW args \in Seq(Text), Len(args) = 2,
         ~Negative(args[1]), ~Negative(args[2]), DurationSecondsCheckRule(args) = "ok"
  PROVE  DurationSecondsIsA(text, args) = "ok" <=>
           /\ Succeeds(StringToDurationSeconds(text, outOfRange))
           /\ AtMost(args[1], text, LAMBDA t : StringToDurationSeconds(t, outOfRange))
           /\ AtMost(text, args[2], LAMBDA t : StringToDurationSeconds(t, outOfRange))
<1> DEFINE val == StringToDurationSeconds(text, outOfRange)
           min == StringToDurationSeconds(args[1], outOfRange)
           max == StringToDurationSeconds(args[2], outOfRange)
<1>1. args[1] \in Text /\ args[2] \in Text /\ args # <<>>
  OBVIOUS
<1>2. Succeeds(min) /\ Succeeds(max) /\ ~RefusesDurations(min.value, max.value)
  <2>1. Plain(min) /\ Plain(max)
    BY PlainReaders
  <2> HIDE DEF min, max
  <2> QED BY <1>1, <2>1 DEF DurationSecondsCheckRule, MinMax, Demand, Plain, Succeeds, min, max
<1>3. DurationSecondsIsA(text, args) =
        IF ~Succeeds(val) THEN val.tag ELSE InsideDurations(val.value, min.value, max.value)
  BY <1>1, <1>2 DEF DurationSecondsIsA, Within
<1>4. Plain(val)
  BY PlainReaders
<1>6. Succeeds(val) =>
        (InsideDurations(val.value, min.value, max.value) = "ok" <=>
           /\ text.spelling = "infinite" \/ (args[1].spelling # "infinite" /\ min.value <= val.value)
           /\ args[2].spelling = "infinite" \/ (text.spelling # "infinite" /\ val.value <= max.value))
  BY <1>1, <1>2, SecondTables, DurationsInOrder DEF StringToDurationSeconds
<1> HIDE DEF val, min, max
<1>7. DurationSecondsIsA(text, args) = "ok" <=>
        /\ Succeeds(val)
        /\ text.spelling = "infinite" \/ (args[1].spelling # "infinite" /\ min.value <= val.value)
        /\ args[2].spelling = "infinite" \/ (text.spelling # "infinite" /\ val.value <= max.value)
  BY <1>3, <1>4, <1>6 DEF Plain, Succeeds
<1> QED BY <1>7 DEF AtMost, val, min, max

\* No memory size is infinite.
LEMMA BytesInOrder ==
  ASSUME NEW text \in Text, NEW args \in Seq(Text), Len(args) = 2, MemorySizeBytesCheckRule(args) = "ok"
  PROVE  MemorySizeBytesIsA(text, args) = "ok" <=>
           /\ Succeeds(StringToMemorySizeBytes(text, outOfRange))
           /\ AtMost(args[1], text, LAMBDA t : StringToMemorySizeBytes(t, outOfRange))
           /\ AtMost(text, args[2], LAMBDA t : StringToMemorySizeBytes(t, outOfRange))
<1> DEFINE val == StringToMemorySizeBytes(text, outOfRange)
           min == StringToMemorySizeBytes(args[1], outOfRange)
           max == StringToMemorySizeBytes(args[2], outOfRange)
<1>1. args[1] \in Text /\ args[2] \in Text /\ args # <<>>
  OBVIOUS
<1>2. Succeeds(min) /\ Succeeds(max)
  <2>1. Plain(min) /\ Plain(max)
    BY PlainReaders
  <2> HIDE DEF min, max
  <2> QED BY <1>1, <2>1 DEF MemorySizeBytesCheckRule, MinMax, Demand, Plain, Succeeds, min, max
<1>3. MemorySizeBytesIsA(text, args) =
        IF ~Succeeds(val) THEN val.tag ELSE InsideSizes(val.value, min.value, max.value)
  BY <1>1, <1>2 DEF MemorySizeBytesIsA, Within
<1>4. Plain(val)
  BY PlainReaders
<1>5. ASSUME NEW t \in Text, Succeeds(StringToMemorySizeBytes(t, outOfRange))
      PROVE  t.spelling # "infinite"
  <2>1. IsFloatWithUnits(t, BytesUnits)
    BY <1>5, SizeTables, SizeRead DEF StringToMemorySizeBytes, Succeeds, Refused
  <2> QED BY <2>1 DEF IsFloatWithUnits, Text
<1>6. args[1].spelling # "infinite" /\ args[2].spelling # "infinite"
  BY <1>1, <1>2, <1>5
<1>7. Succeeds(val) => text.spelling # "infinite"
  BY <1>5
<1> HIDE DEF val, min, max
<1>8. MemorySizeBytesIsA(text, args) = "ok" <=>
        /\ Succeeds(val)
        /\ text.spelling = "infinite" \/ (args[1].spelling # "infinite" /\ min.value <= val.value)
        /\ args[2].spelling = "infinite" \/ (text.spelling # "infinite" /\ val.value <= max.value)
  BY <1>3, <1>4, <1>6, <1>7 DEF Plain, Succeeds, InsideSizes, Demand
<1> QED BY <1>8 DEF AtMost, val, min, max

\* A duration made of a default is read back as that default.
LEMMA DefaultDurationIsRead ==
  ASSUME NEW d \in -FloatLimit..FloatLimit, NEW allowed, NEW info, TablesAgree(allowed, info),
         NEW unit, Listed(unit, allowed), info[unit] = 1, NEW other
  PROVE  StringToDuration(DefaultDuration(d, unit), allowed, info, other) = Gives(d)
<1>1. CASE d = Infinite
  <2>1. DefaultDuration(d, unit).spelling = "infinite"
    BY <1>1 DEF DefaultDuration, WordText
  <2> QED BY <1>1, <2>1, DurationRead
<1>2. CASE d # Infinite
  <2> DEFINE text == NumUnitText("%d", Whole(d), unit)
  <2>1. DefaultDuration(d, unit) = text
    BY <1>2 DEF DefaultDuration
  <2>2. text.spelling = "%d" /\ text.form = "numberUnit" /\ text.unit = unit /\ text.num = Whole(d)
    BY DEF NumUnitText
  <2> HIDE DEF text
  <2>3. IsFloatWithUnits(text, allowed)
    BY <2>2 DEF IsFloatWithUnits
  <2>4. StringToDuration(text, allowed, info, other) = Gives(Cast(Whole(d), 1, other))
    BY <2>2, <2>3, DurationRead
  <2> QED BY <2>1, <2>4, CastOfSmall
<1> QED BY <1>1, <1>2

\* And a memory size.
HasAll(allowed, info) == \A i \in DOMAIN allowed : allowed[i] \in DOMAIN info

\* The text made of a default in the smallest unit is read as the default.
LEMMA DefaultSizeIsRead ==
  ASSUME NEW d \in -FloatLimit..FloatLimit, NEW allowed, NEW info, HasAll(allowed, info),
         NEW unit, Listed(unit, allowed), info[unit] = 1, NEW other
  PROVE  StringToMemorySizeGeneric(NumUnitText("%d", Whole(d), unit), allowed, info, other) = Gives(d)
<1> DEFINE text == NumUnitText("%d", Whole(d), unit)
<1>1. text.form = "numberUnit" /\ text.unit = unit /\ text.num = Whole(d)
  BY DEF NumUnitText
<1> HIDE DEF text
<1>2. IsFloatWithUnits(text, allowed)
  BY <1>1 DEF IsFloatWithUnits
<1>3. StringToMemorySizeGeneric(text, allowed, info, other) = Gives(Cast(Whole(d), 1, other))
  BY <1>1, <1>2, SizeRead DEF HasAll
<1> QED BY <1>3, CastOfSmall DEF text

\* The smallest units are units.
LEMMA SmallestUnits ==
  /\ Listed("milliseconds", AllowedDurationMillisecondsUnits)
  /\ DurationMillisecondsUnitsInfo["milliseconds"] = 1
  /\ Listed("seconds", AllowedDurationSecondsUnits) /\ DurationSecondsUnitsInfo["seconds"] = 1
  /\ Listed("KB", KBUnits) /\ MemorySizeKBUnitsInfo["KB"] = 1
  /\ Listed("MB", MBUnits) /\ MemorySizeMBUnitsInfo["MB"] = 1
<1>1. /\ AllowedDurationMillisecondsUnits[2] = "milliseconds" /\ 2 \in DOMAIN AllowedDurationMillisecondsUnits
      /\ AllowedDurationSecondsUnits[2] = "seconds" /\ 2 \in DOMAIN AllowedDurationSecondsUnits
  BY SMT DEF AllowedDurationMillisecondsUnits, AllowedDurationSecondsUnits
<1>2. KBUnits[1] = "KB" /\ 1 \in DOMAIN KBUnits /\ MBUnits[1] = "MB" /\ 1 \in DOMAIN MBUnits
  BY SMT DEF KBUnits, MBUnits
<1>3. DurationMillisecondsUnitsInfo["milliseconds"] = 1 /\ DurationSecondsUnitsInfo["seconds"] = 1
  BY SMT DEF DurationMillisecondsUnitsInfo, DurationSecondsUnitsInfo
<1>4. MemorySizeKBUnitsInfo["KB"] = 1 /\ MemorySizeMBUnitsInfo["MB"] = 1
  BY SMT DEF MemorySizeKBUnitsInfo, MemorySizeMBUnitsInfo
<1> QED BY <1>1, <1>2, <1>3, <1>4 DEF Listed

\* The word made of a default truth value is read back as its place in the table.
LEMMA DefaultBooleanIsRead ==
  ASSUME NEW d \in BOOLEAN
  PROVE  StringToBoolean(WordText(IF d THEN "true" ELSE "false")) = Gives(Whole(IF d THEN 2 ELSE 1))
<1> DEFINE word == IF d THEN "true" ELSE "false"
           place == IF d THEN 2 ELSE 1
           found == {i \in 1..Len(BoolInfo) : BoolInfo[i] = word}
<1>1. found = {place} /\ EnumVal(WordText(word), BoolInfo)
  BY SMT DEF BoolInfo, EnumVal, WordText
<1>2. Min(found) = place
  <2>1. {place} \in SUBSET Nat /\ {place} # {}
    OBVIOUS
  <2>2. Min({place}) \in {place}
    BY <2>1, LeastNumber, Zenon
  <2> HIDE DEF found
  <2> QED BY <1>1, <2>2
<1>3. SelectInSeq(BoolInfo, LAMBDA name : name = word) = place
  BY <1>1, <1>2 DEF SelectInSeq
<1>4. WordText(word).spelling = word
  BY DEF WordText
<1>5. StringToBoolean(WordText(word)) = Gives(Whole(place))
  <2> HIDE DEF word, place
  <2> QED BY <1>1, <1>3, <1>4 DEF StringToBoolean, StringToEnum
<1> QED BY <1>5

\* With an entry that is missing a look-up gives the default.
LEMMA MissingGivesDefault ==
  ASSUME entry = NoEntry, NEW r, r.type \in BuiltIn, HasDefault(r.type),
         r.type \notin {"durationMicroseconds", "memorySizeBytes"},
         NEW d \in -FloatLimit..FloatLimit
  PROVE  Succeeds(LookUpAsOr(r, d)) /\ LookUpAsOr(r, d).value = DefaultOf(r.type, d).value
<1> DEFINE result == LookUpAsOr(r, d)
           good == Succeeds(result) /\ result.value = DefaultOf(r.type, d).value
<1>1. entry.type = "NoValue"
  BY DEF NoEntry
<1>2. d \in Int
  BY Limits
<1>3. CASE r.type \in {"int", "float"}
  BY <1>1, <1>2, <1>3 DEF LookUpAsOr, LookupIntOr, LookupFloatOr, LookupStringOr, Then, Gives, Succeeds,
     StringToInt, StringToFloat, NumText, Whole, Num, DefaultOf, WithUnits
<1>4. CASE r.type = "enum"
  BY <1>1, <1>4 DEF LookUpAsOr, LookupEnumOr, Gives, Succeeds, DefaultOf, WithUnits
<1>5. CASE r.type = "boolean"
  <2>1. result = StringToBoolean(WordText(IF d # 0 THEN "true" ELSE "false"))
    BY <1>1, <1>5 DEF LookUpAsOr, LookupBooleanOr, LookupEnumOrName, LookupStringOr, Then, Gives, Succeeds,
       StringToBoolean
  <2>2. result = Gives(Whole(IF d # 0 THEN 2 ELSE 1))
    BY <2>1, DefaultBooleanIsRead
  <2> QED BY <1>5, <2>2 DEF DefaultOf, Gives, Succeeds, WithUnits
<1>6. CASE r.type \in WithUnits
  BY <1>1, <1>6 DEF LookUpAsOr, LookupIntWithUnitsOr, LookupFloatWithUnitsOr, LookupUnitsWithIntOr,
     LookupUnitsWithFloatOr, WithUnits, Gives, Succeeds, DefaultOf
<1>7. CASE r.type = "durationMilliseconds"
  <2>1. result = StringToDurationMilliseconds(DefaultDuration(d, "milliseconds"), outOfRange)
    BY <1>1, <1>7 DEF LookUpAsOr, LookupDurationMillisecondsOr, LookupStringOr, Then, Gives, Succeeds
  <2>2. result = Gives(d)
    BY <2>1, MillisecondTables, SmallestUnits, DefaultDurationIsRead DEF StringToDurationMilliseconds
  <2> QED BY <1>7, <2>2 DEF DefaultOf, Gives, Succeeds, WithUnits
<1>8. CASE r.type = "durationSeconds"
  <2>1. result = StringToDurationSeconds(DefaultDuration(d, "seconds"), outOfRange)
    BY <1>1, <1>8 DEF LookUpAsOr, LookupDurationSecondsOr, LookupStringOr, Then, Gives, Succeeds
  <2>2. result = Gives(d)
    BY <2>1, SecondTables, SmallestUnits, DefaultDurationIsRead DEF StringToDurationSeconds
  <2> QED BY <1>8, <2>2 DEF DefaultOf, Gives, Succeeds, WithUnits
<1>9. CASE r.type = "memorySizeKB"
  <2>1. result = StringToMemorySizeKB(NumUnitText("%d", Whole(d), "KB"), outOfRange)
    BY <1>1, <1>9 DEF LookUpAsOr, LookupMemorySizeKBOr, LookupStringOr, Then, Gives, Succeeds
  <2>2. result = Gives(d)
    <3> DEFINE text == NumUnitText("%d", Whole(d), "KB")
    <3>1. StringToMemorySizeGeneric(text, KBUnits, MemorySizeKBUnitsInfo, outOfRange) = Gives(d)
      <4>1. HasAll(KBUnits, MemorySizeKBUnitsInfo)
        BY SizeTables DEF HasAll
      <4> QED BY <4>1, SmallestUnits, DefaultSizeIsRead
    <3> HIDE DEF text
    <3> QED BY <2>1, <3>1 DEF StringToMemorySizeKB, text
  <2> QED BY <1>9, <2>2 DEF DefaultOf, Gives, Succeeds, WithUnits
<1>10. CASE r.type = "memorySizeMB"
  <2>1. result = StringToMemorySizeMB(NumUnitText("%d", Whole(d), "MB"), outOfRange)
    BY <1>1, <1>10 DEF LookUpAsOr, LookupMemorySizeMBOr, LookupStringOr, Then, Gives, Succeeds
  <2>2. result = Gives(d)
    <3> DEFINE text == NumUnitText("%d", Whole(d), "MB")
    <3>1. StringToMemorySizeGeneric(text, MBUnits, MemorySizeMBUnitsInfo, outOfRange) = Gives(d)
      <4>1. HasAll(MBUnits, MemorySizeMBUnitsInfo)
        BY SizeTables DEF HasAll
      <4> QED BY <4>1, SmallestUnits, DefaultSizeIsRead
    <3> HIDE DEF text
    <3> QED BY <2>1, <3>1 DEF StringToMemorySizeMB, text
  <2> QED BY <1>10, <2>2 DEF DefaultOf, Gives, Succeeds, WithUnits
<1>11. CASE r.type = "string"
  BY <1>1, <1>11 DEF LookUpAsOr, LookupStringOr, Gives, Succeeds, DefaultOf, WithUnits
<1>12. CASE r.type \in {"list", "table", "tuple"}
  BY <1>1, <1>12 DEF LookUpAsOr, LookupListOr, Gives, Succeeds, DefaultOf, WithUnits
<1> QED BY <1>3, <1>4, <1>5, <1>6, <1>7, <1>8, <1>9, <1>10, <1>11, <1>12 DEF BuiltIn, WithUnits, HasDefault

\* A table of types t, and what the user-defined names in it stand for.
UsersOf(t) == {name \in DOMAIN t : t[name].base # ""}
IsMeaning(f, t) ==
  f = [name \in UsersOf(t) |->
         IF t[name].base \in UsersOf(t) THEN f[t[name].base]
         ELSE [type |-> t[name].base, args |-> t[name].args]]
BasesKnown(t) == "" \notin DOMAIN t /\ \A name \in UsersOf(t) : t[name].base \in DOMAIN t
Grows(t, u) == DOMAIN t \subseteq DOMAIN u /\ \A name \in DOMAIN t : u[name] = t[name]
OneMeaning(t) == \A f, g : IsMeaning(f, t) /\ IsMeaning(g, t) => f = g

\* In a table that grew, the old names mean what they meant.
LEMMA MeaningOfOldNames ==
  ASSUME NEW t, NEW u, BasesKnown(t), Grows(t, u), NEW f, IsMeaning(f, u)
  PROVE  /\ UsersOf(t) = UsersOf(u) \cap DOMAIN t
         /\ IsMeaning([name \in UsersOf(t) |-> f[name]], t)
<1>1. UsersOf(t) = UsersOf(u) \cap DOMAIN t
  BY DEF UsersOf, Grows
<1> DEFINE g == [name \in UsersOf(t) |-> f[name]]
<1>2. ASSUME NEW name \in UsersOf(t)
      PROVE  f[name] = IF t[name].base \in UsersOf(t) THEN g[t[name].base]
                       ELSE [type |-> t[name].base, args |-> t[name].args]
  <2>1. name \in UsersOf(u) /\ u[name] = t[name] /\ t[name].base \in DOMAIN t
    BY <1>1, <1>2 DEF Grows, BasesKnown
  <2>2. f[name] = IF u[name].base \in UsersOf(u) THEN f[u[name].base]
                  ELSE [type |-> u[name].base, args |-> u[name].args]
    BY <2>1 DEF IsMeaning
  <2> QED BY <1>1, <2>1, <2>2
<1> QED BY <1>1, <1>2 DEF IsMeaning

\* So they mean the same as before, when there was only one meaning.
LEMMA MeaningStays ==
  ASSUME NEW t, NEW u, BasesKnown(t), Grows(t, u), OneMeaning(t),
         NEW f, IsMeaning(f, t), NEW g, IsMeaning(g, u), NEW name \in UsersOf(t)
  PROVE  name \in UsersOf(u) /\ g[name] = f[name]
<1>1. UsersOf(t) = UsersOf(u) \cap DOMAIN t /\ IsMeaning([n \in UsersOf(t) |-> g[n]], t)
  BY MeaningOfOldNames
<1>2. [n \in UsersOf(t) |-> g[n]] = f
  BY <1>1 DEF OneMeaning
<1> QED BY <1>1, <1>2

\* One more name that hands over to a known one has a meaning, and only one.
LEMMA MeaningOfNewName ==
  ASSUME NEW t, NEW u, NEW new, BasesKnown(t), Grows(t, u), new \notin DOMAIN t,
         DOMAIN u = DOMAIN t \cup {new}, u[new].base \in DOMAIN t,
         NEW f, IsMeaning(f, t), OneMeaning(t)
  PROVE  (\E g : IsMeaning(g, u)) /\ OneMeaning(u)
<1>1. UsersOf(u) = UsersOf(t) \cup {new} /\ new \notin UsersOf(t)
  BY DEF UsersOf, Grows, BasesKnown
<1>2. u[new].base \in UsersOf(u) <=> u[new].base \in UsersOf(t)
  BY <1>1
<1> DEFINE last == IF u[new].base \in UsersOf(t) THEN f[u[new].base]
                   ELSE [type |-> u[new].base, args |-> u[new].args]
           h == [name \in UsersOf(u) |-> IF name = new THEN last ELSE f[name]]
<1>3. ASSUME NEW name \in UsersOf(u)
      PROVE  h[name] = IF u[name].base \in UsersOf(u) THEN h[u[name].base]
                       ELSE [type |-> u[name].base, args |-> u[name].args]
  <2>1. CASE name = new
    <3>1. u[new].base # new
      OBVIOUS
    <3> QED BY <1>1, <1>2, <2>1, <3>1
  <2>2. CASE name # new
    <3>1. name \in UsersOf(t) /\ u[name] = t[name] /\ t[name].base \in DOMAIN t /\ t[name].base # new
      BY <1>1, <2>2 DEF Grows, BasesKnown, UsersOf
    <3>2. f[name] = IF t[name].base \in UsersOf(t) THEN f[t[name].base]
                    ELSE [type |-> t[name].base, args |-> t[name].args]
      BY <3>1 DEF IsMeaning
    <3>3. h[name] = f[name]
      BY <2>2
    <3>4. t[name].base \in UsersOf(u) <=> t[name].base \in UsersOf(t)
      BY <1>1, <3>1
    <3>5. t[name].base \in UsersOf(t) => h[t[name].base] = f[t[name].base]
      BY <1>1, <3>1
    <3> HIDE DEF h
    <3> QED BY <3>1, <3>2, <3>3, <3>4, <3>5
  <2> QED BY <2>1, <2>2
<1>4. IsMeaning(h, u)
  <2>1. h = [name \in UsersOf(u) |-> h[name]]
    OBVIOUS
  <2> HIDE DEF h
  <2> QED BY <1>3, <2>1 DEF IsMeaning
<1>5. ASSUME NEW g1, IsMeaning(g1, u), NEW g2, IsMeaning(g2, u) PROVE g1 = g2
  <2>1. \A name \in UsersOf(t) : g1[name] = f[name] /\ g2[name] = f[name]
    BY <1>5, MeaningStays
  <2>2. g1[new] = g2[new]
    <3>1. g1[new] = IF u[new].base \in UsersOf(u) THEN g1[u[new].base]
                    ELSE [type |-> u[new].base, args |-> u[new].args]
      BY <1>1, <1>5 DEF IsMeaning
    <3>2. g2[new] = IF u[new].base \in UsersOf(u) THEN g2[u[new].base]
                    ELSE [type |-> u[new].base, args |-> u[new].args]
      BY <1>1, <1>5 DEF IsMeaning
    <3> QED BY <1>2, <2>1, <3>1, <3>2
  <2>3. \A name \in UsersOf(u) : g1[name] = g2[name]
    BY <1>1, <2>1, <2>2
  <2>4. g1 = [name \in UsersOf(u) |-> g1[name]] /\ g2 = [name \in UsersOf(u) |-> g2[name]]
    BY <1>5 DEF IsMeaning
  <2> QED BY <2>3, <2>4
<1> QED BY <1>4, <1>5 DEF OneMeaning

\* The table of the built-in types has none to explain.
LEMMA MeaningOfNone ==
  ASSUME NEW t, UsersOf(t) = {}
  PROVE  IsMeaning([name \in {} |-> 0], t) /\ OneMeaning(t)
<1>1. \A f : IsMeaning(f, t) <=> f = [name \in {} |-> 0]
  BY DEF IsMeaning
<1> QED BY <1>1 DEF OneMeaning

\* Base is the meaning of the names, if there is one.
LEMMA BaseIsMeaning ==
  UserDefined = UsersOf(types) /\ ((\E f : IsMeaning(f, types)) => IsMeaning(Base, types))
<1>1. UserDefined = UsersOf(types)
  BY DEF UserDefined, UsersOf
<1>2. Base = CHOOSE f : IsMeaning(f, types)
  BY <1>1 DEF Base, IsMeaning
<1> QED BY <1>1, <1>2

\* The same of the next state.
LEMMA BaseIsMeaningNext ==
  UserDefined' = UsersOf(types') /\ ((\E f : IsMeaning(f, types')) => IsMeaning(Base', types'))
<1>1. (UserDefined = UsersOf(types) /\ ((\E f : IsMeaning(f, types)) => IsMeaning(Base, types)))'
  BY BaseIsMeaning, PTL
<1> QED BY <1>1

\* The table of types: the built-in ones as registered, and those that @typedef added,
\* each of a known type with arguments that it accepts.
TypesOK ==
  /\ BuiltIn \subseteq DOMAIN types /\ "" \notin DOMAIN types
  /\ \A name \in BuiltIn : types[name] = RegisteredBuiltins[name]
  /\ \A name \in DOMAIN types \ BuiltIn :
       /\ types[name].base \in DOMAIN types /\ types[name].args \in Seq(Text)
       /\ CheckRule(types[name].base, types[name].args) = "ok"
       /\ types[name].cfgType = types[types[name].base].cfgType

\* Every user-defined name has one meaning, a built-in type with arguments that it
\* accepts.
MeaningsOK ==
  /\ (\E f : IsMeaning(f, types)) /\ OneMeaning(types)
  /\ \A name \in DOMAIN types :
       LET r == Resolved(name, <<>>)
       IN  /\ r \in [type : BuiltIn, args : Seq(Text)]
           /\ types[name].cfgType = CfgType(r.type)
           /\ name \in UserDefined => CheckRule(r.type, r.args) = "ok"

\* The user-defined names are those that are not built in.
LEMMA UsersAreNew ==
  ASSUME TypesOK
  PROVE  UserDefined = DOMAIN types \ BuiltIn /\ BasesKnown(types)
<1>1. ASSUME NEW name \in BuiltIn PROVE types[name].base = ""
  <2>1. types[name] = RegisteredBuiltins[name]
    BY DEF TypesOK
  <2>2. RegisteredBuiltins[name].base = ""
    BY Zenon DEF RegisteredBuiltins
  <2> QED BY <2>1, <2>2
<1>2. \A name \in DOMAIN types \ BuiltIn : types[name].base # "" /\ types[name].base \in DOMAIN types
  BY DEF TypesOK
<1>3. UserDefined = DOMAIN types \ BuiltIn
  BY <1>1, <1>2 DEF UserDefined
<1> QED BY <1>2, <1>3, BaseIsMeaning DEF BasesKnown, TypesOK

\* What is accepted for a user-defined type is nothing.
LEMMA NoArgumentsOfUsers ==
  ASSUME NEW type, type \notin BuiltIn, NEW args, CheckRule(type, args) = "ok"
  PROVE  args = <<>>
BY DEF CheckRule, BuiltIn, TypedefCheckRule, NoArguments, Demand

\* The type that a rule means is built in and accepts the arguments.
LEMMA MeaningIsBuiltIn ==
  ASSUME TypesOK, MeaningsOK, NEW type \in DOMAIN types, NEW args \in Seq(Text),
         CheckRule(type, args) = "ok"
  PROVE  LET r == Resolved(type, args)
         IN  /\ r \in [type : BuiltIn, args : Seq(Text)] /\ CheckRule(r.type, r.args) = "ok"
             /\ ValidateEntry(type, args) = BuiltInValidate(r.type, r.args)
             /\ r.type \notin UserDefined
<1>1. CASE type \in UserDefined
  <2>1. args = <<>>
    BY <1>1, UsersAreNew, NoArgumentsOfUsers
  <2>2. ValidateEntry(type, args) = LET r == Resolved(type, args) IN BuiltInValidate(r.type, r.args)
    BY <1>1, <2>1 DEF ValidateEntry, TypedefValidate
  <2>3. Resolved(type, <<>>) \in [type : BuiltIn, args : Seq(Text)]
    BY DEF MeaningsOK
  <2>4. Resolved(type, <<>>).type \in BuiltIn
    BY <2>3
  <2> QED BY <1>1, <2>1, <2>2, <2>3, <2>4, UsersAreNew DEF MeaningsOK
<1>2. CASE type \notin UserDefined
  <2>1. type \in BuiltIn
    BY <1>2, UsersAreNew
  <2>2. Resolved(type, args) = [type |-> type, args |-> args]
    BY <1>2 DEF Resolved
  <2>3. ValidateEntry(type, args) = BuiltInValidate(type, args)
    BY <1>2 DEF ValidateEntry
  <2> QED BY <1>2, <2>1, <2>2, <2>3
<1> QED BY <1>1, <1>2

----------------------------------------------------------------------------
(* What a @typedef leaves as it was. *)

\* Types based on a string stay so.
LEMMA StringBasedStays ==
  ASSUME Grows(types, types'), NEW arg, IsStringBased(arg)
  PROVE  IsStringBased(arg)'
BY DEF IsStringBased, Grows

\* So columns that are of types based on a string stay so.
LEMMA ColumnsStay ==
  ASSUME Grows(types, types'), NEW args, AreColumns(args)
  PROVE  AreColumns(args)'
<1>1. \A i \in DOMAIN ColumnTypes(args) : IsStringBased(ColumnTypes(args)[i])'
  BY StringBasedStays DEF AreColumns
<1> QED BY <1>1 DEF AreColumns

\* Arguments that a type accepts it accepts later on.
LEMMA CheckRuleStays ==
  ASSUME Grows(types, types'), outOfRange' = outOfRange,
         NEW type, NEW args, CheckRule(type, args) = "ok"
  PROVE  CheckRule(type, args)' = "ok"
<1>1. CASE type = "list"
  <2>1. Len(args) = 1 /\ IsStringBased(args[1])
    BY <1>1 DEF CheckRule, ListCheckRule, Demand
  <2>2. IsStringBased(args[1])'
    BY <2>1, StringBasedStays
  <2> QED BY <1>1, <2>1, <2>2 DEF CheckRule, ListCheckRule, Demand
<1>2. CASE type \in {"table", "tuple"}
  <2>1. AreColumns(args)
    BY <1>2 DEF CheckRule, TableCheckRule, TupleCheckRule, Demand
  <2>2. AreColumns(args)'
    BY <2>1, ColumnsStay
  <2> QED BY <1>2, <2>1, <2>2 DEF CheckRule, TableCheckRule, TupleCheckRule, Demand
<1>3. CASE type \in {"durationMicroseconds", "durationMilliseconds", "durationSeconds"}
  <2>1. /\ DurationMicrosecondsCheckRule(args)' = DurationMicrosecondsCheckRule(args)
        /\ DurationMillisecondsCheckRule(args)' = DurationMillisecondsCheckRule(args)
        /\ DurationSecondsCheckRule(args)' = DurationSecondsCheckRule(args)
    BY DEF DurationMicrosecondsCheckRule, DurationMillisecondsCheckRule, DurationSecondsCheckRule, MinMax
  <2> QED BY <1>3, <2>1 DEF CheckRule
<1>4. CASE type \in {"memorySizeBytes", "memorySizeKB", "memorySizeMB"}
  <2>1. /\ MemorySizeBytesCheckRule(args)' = MemorySizeBytesCheckRule(args)
        /\ MemorySizeKBCheckRule(args)' = MemorySizeKBCheckRule(args)
        /\ MemorySizeMBCheckRule(args)' = MemorySizeMBCheckRule(args)
    BY DEF MemorySizeBytesCheckRule, MemorySizeKBCheckRule, MemorySizeMBCheckRule, MinMax
  <2> QED BY <1>4, <2>1 DEF CheckRule
<1>5. CASE type \notin {"list", "table", "tuple",
                        "durationMicroseconds", "durationMilliseconds", "durationSeconds",
                        "memorySizeBytes", "memorySizeKB", "memorySizeMB"}
  <2>1. CheckRule(type, args)' = CheckRule(type, args)
    BY <1>5 DEF CheckRule
  <2> QED BY <2>1
<1> QED BY <1>1, <1>2, <1>3, <1>4, <1>5

\* What a name stands for.
LEMMA ResolvedStays ==
  ASSUME TypesOK, MeaningsOK, Grows(types, types'), \E f : IsMeaning(f, types'),
         NEW type \in DOMAIN types, NEW args
  PROVE  (type \in UserDefined <=> (type \in UserDefined)') /\ Resolved(type, args)' = Resolved(type, args)
<1>1. IsMeaning(Base, types) /\ UserDefined = UsersOf(types)
  BY BaseIsMeaning DEF MeaningsOK
<1>2. IsMeaning(Base', types') /\ UserDefined' = UsersOf(types')
  BY BaseIsMeaningNext
<1>3. UsersOf(types) = UsersOf(types') \cap DOMAIN types
  BY <1>2, UsersAreNew, MeaningOfOldNames
<1>4. type \in UserDefined <=> type \in UserDefined'
  BY <1>1, <1>2, <1>3
<1>5. type \in UserDefined => Base'[type] = Base[type]
  BY <1>1, <1>2, UsersAreNew, MeaningStays DEF MeaningsOK
<1> QED BY <1>4, <1>5 DEF Resolved

\* Growing the table of types changes no verdict on a single text.
LEMMA IsAStays ==
  ASSUME TypesOK, MeaningsOK, Grows(types, types'), \E f : IsMeaning(f, types'), outOfRange' = outOfRange,
         NEW type \in DOMAIN types, NEW text, NEW args
  PROVE  IsA(type, text, args)' = IsA(type, text, args)
<1>1. \A r : BuiltInIsA(r.type, text, r.args)' = BuiltInIsA(r.type, text, r.args)
  <2> TAKE r
  <2>1. /\ DurationMicrosecondsIsA(text, r.args)' = DurationMicrosecondsIsA(text, r.args)
        /\ DurationMillisecondsIsA(text, r.args)' = DurationMillisecondsIsA(text, r.args)
        /\ DurationSecondsIsA(text, r.args)' = DurationSecondsIsA(text, r.args)
    BY DEF DurationMicrosecondsIsA, DurationMillisecondsIsA, DurationSecondsIsA, Within
  <2>2. /\ MemorySizeBytesIsA(text, r.args)' = MemorySizeBytesIsA(text, r.args)
        /\ MemorySizeKBIsA(text, r.args)' = MemorySizeKBIsA(text, r.args)
        /\ MemorySizeMBIsA(text, r.args)' = MemorySizeMBIsA(text, r.args)
    BY DEF MemorySizeBytesIsA, MemorySizeKBIsA, MemorySizeMBIsA, Within
  <2> QED BY <2>1, <2>2 DEF BuiltInIsA
<1>2. (type \in UserDefined <=> (type \in UserDefined)') /\ Resolved(type, args)' = Resolved(type, args)
  BY ResolvedStays
<1> QED BY <1>1, <1>2 DEF IsA

\* The verdict of the first element that is not accepted, from all their verdicts.
FirstBad(verdicts) ==
  LET bad == {i \in DOMAIN verdicts : verdicts[i] # "ok"}
  IN  IF bad = {} THEN "ok" ELSE verdicts[Min(bad)]

\* What checkRule has made sure of for the arguments of a list, a table or a tuple.
LEMMA ElementTypesAreKnown ==
  ASSUME NEW args \in Seq(Text)
  PROVE  /\ CheckRule("list", args) = "ok" => Len(args) = 1 /\ IsStringBased(args[1])
         /\ CheckRule("table", args) = "ok" => AreColumns(args)
         /\ CheckRule("tuple", args) = "ok" => AreColumns(args)
BY DEF CheckRule, ListCheckRule, TableCheckRule, TupleCheckRule, Demand

\* The verdict on a list is that on its first bad element.
ElementsOfList(args) == [i \in DOMAIN entry.list |-> IsA(args[1].spelling, entry.list[i], <<>>)]
ElementsOfRows(args) == [i \in DOMAIN entry.list |-> IsA(ColumnType(args, i), entry.list[i], <<>>)]

\* Validating the elements one by one gives the first verdict that is not ok of the
\* verdicts as a function of the position.
LEMMA AllElementsAsFunction ==
  ASSUME NEW args, entry.list \in Seq(Text)
  PROVE  /\ AllElements(entry.list, LAMBDA i : IsA(args[1].spelling, entry.list[i], <<>>)) = FirstBad(ElementsOfList(args))
         /\ AllElements(entry.list, LAMBDA i : IsA(ColumnType(args, i), entry.list[i], <<>>)) = FirstBad(ElementsOfRows(args))
<1>1. AllElements(entry.list, LAMBDA i : IsA(args[1].spelling, entry.list[i], <<>>)) = FirstBad(ElementsOfList(args))
  <2> DEFINE V(i) == IsA(args[1].spelling, entry.list[i], <<>>)
             F == ElementsOfList(args)
             bad == {i \in DOMAIN entry.list : V(i) # "ok"}
  <2>1. DOMAIN F = DOMAIN entry.list /\ \A i \in DOMAIN entry.list : F[i] = V(i)
    BY DEF ElementsOfList
  <2>2. bad = {i \in DOMAIN F : F[i] # "ok"}
    BY <2>1
  <2>3. bad # {} => Min(bad) \in DOMAIN entry.list
    <3>1. bad \in SUBSET Nat
      OBVIOUS
    <3> HIDE DEF bad
    <3>2. bad # {} => Min(bad) \in bad
      BY <3>1, LeastNumber
    <3> QED BY <3>2 DEF bad
  <2>4. FirstBad(F) = IF bad = {} THEN "ok" ELSE F[Min(bad)]
    BY <2>2 DEF FirstBad
  <2>5. FirstBad(F) = IF bad = {} THEN "ok" ELSE V(Min(bad))
    <3> HIDE DEF bad, F, V
    <3> QED BY <2>1, <2>3, <2>4
  <2> QED BY <2>5 DEF AllElements
<1>2. AllElements(entry.list, LAMBDA i : IsA(ColumnType(args, i), entry.list[i], <<>>)) = FirstBad(ElementsOfRows(args))
  <2> DEFINE V(i) == IsA(ColumnType(args, i), entry.list[i], <<>>)
             F == ElementsOfRows(args)
             bad == {i \in DOMAIN entry.list : V(i) # "ok"}
  <2>1. DOMAIN F = DOMAIN entry.list /\ \A i \in DOMAIN entry.list : F[i] = V(i)
    BY DEF ElementsOfRows
  <2>2. bad = {i \in DOMAIN F : F[i] # "ok"}
    BY <2>1
  <2>3. bad # {} => Min(bad) \in DOMAIN entry.list
    <3>1. bad \in SUBSET Nat
      OBVIOUS
    <3> HIDE DEF bad
    <3>2. bad # {} => Min(bad) \in bad
      BY <3>1, LeastNumber
    <3> QED BY <3>2 DEF bad
  <2>4. FirstBad(F) = IF bad = {} THEN "ok" ELSE F[Min(bad)]
    BY <2>2 DEF FirstBad
  <2>5. FirstBad(F) = IF bad = {} THEN "ok" ELSE V(Min(bad))
    <3> HIDE DEF bad, F, V
    <3> QED BY <2>1, <2>3, <2>4
  <2> QED BY <2>5 DEF AllElements
<1> QED BY <1>1, <1>2

ElementVerdict(type, args) ==
  IF \/ entry.type # "List"
     \/ type = "table" /\ Len(entry.list) % (Len(args) \div 2) # 0
     \/ type = "tuple" /\ Len(entry.list) # Len(args) \div 2
  THEN "config"
  ELSE FirstBad(IF type = "list" THEN ElementsOfList(args) ELSE ElementsOfRows(args))

\* The verdict on a list, a table or a tuple is made of the verdicts on its elements.
LEMMA ValidateByElements ==
  \A type \in {"list", "table", "tuple"}, args \in Seq(Text) :
    entry.list \in Seq(Text) /\ CheckRule(type, args) = "ok" =>
      BuiltInValidate(type, args) = ElementVerdict(type, args)
<1> SUFFICES ASSUME NEW args \in Seq(Text), entry.list \in Seq(Text)
             PROVE  \A type \in {"list", "table", "tuple"} :
                      CheckRule(type, args) = "ok" =>
                        BuiltInValidate(type, args) = ElementVerdict(type, args)
  OBVIOUS
<1>1. LookupList(entry) = IF entry.type = "List" THEN Gives(entry.list) ELSE Refused
  BY DEF LookupList
<1>2. entry.type = "List" => Succeeds(LookupList(entry)) /\ LookupList(entry).value = entry.list
  BY <1>1 DEF Gives, Succeeds
<1>3. entry.type # "List" => ~Succeeds(LookupList(entry)) /\ LookupList(entry).tag = "config"
  BY <1>1 DEF Refused, Succeeds
<1>4. ASSUME CheckRule("list", args) = "ok"
      PROVE  BuiltInValidate("list", args) = ElementVerdict("list", args)
  <2>1. Len(args) = 1 /\ IsStringBased(args[1])
    BY <1>4, ElementTypesAreKnown
  <2>2. BuiltInValidate("list", args) = ListValidate(args)
    BY DEF BuiltInValidate
  <2>3. CASE entry.type # "List"
    BY <1>3, <2>1, <2>2, <2>3 DEF ListValidate, ElementVerdict
  <2>4. CASE entry.type = "List"
    <3>1. ListValidate(args) = AllElements(entry.list, LAMBDA i : IsA(args[1].spelling, entry.list[i], <<>>))
      BY <1>2, <2>1, <2>4 DEF ListValidate, AllElements
    <3>2. ElementVerdict("list", args) = FirstBad(ElementsOfList(args))
      BY <2>4 DEF ElementVerdict
    <3> QED BY <2>2, <3>1, <3>2, AllElementsAsFunction
  <2> QED BY <2>3, <2>4
<1>5. ASSUME AreColumns(args) PROVE ~(args = <<>> \/ Len(args) % 2 # 0)
  BY <1>5 DEF AreColumns
<1>6. ASSUME CheckRule("table", args) = "ok"
      PROVE  BuiltInValidate("table", args) = ElementVerdict("table", args)
  <2>1. ~(args = <<>> \/ Len(args) % 2 # 0)
    BY <1>5, <1>6, ElementTypesAreKnown
  <2>2. BuiltInValidate("table", args) = TableValidate(args)
    BY DEF BuiltInValidate
  <2>3. CASE entry.type # "List"
    BY <1>3, <2>1, <2>2, <2>3 DEF TableValidate, ElementVerdict
  <2>4. CASE entry.type = "List"
    <3>1. TableValidate(args) =
            IF Len(entry.list) % (Len(args) \div 2) # 0 THEN "config"
            ELSE AllElements(entry.list, LAMBDA i : IsA(ColumnType(args, i), entry.list[i], <<>>))
      BY <1>2, <2>1, <2>4 DEF TableValidate, AllElements
    <3>2. ElementVerdict("table", args) =
            IF Len(entry.list) % (Len(args) \div 2) # 0 THEN "config" ELSE FirstBad(ElementsOfRows(args))
      BY <2>4 DEF ElementVerdict
    <3> QED BY <2>2, <3>1, <3>2, AllElementsAsFunction
  <2> QED BY <2>3, <2>4
<1>7. ASSUME CheckRule("tuple", args) = "ok"
      PROVE  BuiltInValidate("tuple", args) = ElementVerdict("tuple", args)
  <2>1. ~(args = <<>> \/ Len(args) % 2 # 0)
    BY <1>5, <1>7, ElementTypesAreKnown
  <2>2. BuiltInValidate("tuple", args) = TupleValidate(args)
    BY DEF BuiltInValidate
  <2>3. CASE entry.type # "List"
    BY <1>3, <2>1, <2>2, <2>3 DEF TupleValidate, ElementVerdict
  <2>4. CASE entry.type = "List"
    <3>1. TupleValidate(args) =
            IF Len(entry.list) # Len(args) \div 2 THEN "config"
            ELSE AllElements(entry.list, LAMBDA i : IsA(ColumnType(args, i), entry.list[i], <<>>))
      BY <1>2, <2>1, <2>4 DEF TupleValidate, AllElements
    <3>2. ElementVerdict("tuple", args) =
            IF Len(entry.list) # Len(args) \div 2 THEN "config" ELSE FirstBad(ElementsOfRows(args))
      BY <2>4 DEF ElementVerdict
    <3> QED BY <2>2, <3>1, <3>2, AllElementsAsFunction
  <2> QED BY <2>3, <2>4
<1> QED BY <1>4, <1>6, <1>7

\* The same of the next state.
LEMMA ValidateByElementsNext ==
  \A type \in {"list", "table", "tuple"}, args \in Seq(Text) :
    entry'.list \in Seq(Text) /\ CheckRule(type, args)' = "ok" =>
      BuiltInValidate(type, args)' = ElementVerdict(type, args)'
<1>1. (\A type \in {"list", "table", "tuple"}, args \in Seq(Text) :
         entry.list \in Seq(Text) /\ CheckRule(type, args) = "ok" =>
           BuiltInValidate(type, args) = ElementVerdict(type, args))'
  BY ValidateByElements, PTL
<1> QED BY <1>1

\* What "ok" and "assert" say of the elements.
LEMMA FirstBadIsBad ==
  ASSUME NEW verdicts, DOMAIN verdicts \subseteq Nat
  PROVE  /\ FirstBad(verdicts) = "ok" <=> \A i \in DOMAIN verdicts : verdicts[i] = "ok"
         /\ FirstBad(verdicts) = "assert" => \E i \in DOMAIN verdicts : verdicts[i] = "assert"
<1> DEFINE bad == {i \in DOMAIN verdicts : verdicts[i] # "ok"}
<1>1. CASE bad = {}
  BY <1>1 DEF FirstBad
<1>2. CASE bad # {}
  <2>1. bad \in SUBSET Nat
    OBVIOUS
  <2>2. Min(bad) \in bad
    <3> HIDE DEF bad
    <3> QED BY <1>2, <2>1, LeastNumber
  <2>3. FirstBad(verdicts) = verdicts[Min(bad)]
    BY <1>2 DEF FirstBad
  <2>4. Min(bad) \in DOMAIN verdicts /\ verdicts[Min(bad)] # "ok"
    BY <2>2
  <2> HIDE DEF bad
  <2> QED BY <2>3, <2>4
<1> QED BY <1>1, <1>2

\* The types of the elements are known.
LEMMA ColumnTypeIsKnown ==
  ASSUME NEW args \in Seq(Text), AreColumns(args), NEW i \in Nat \ {0}
  PROVE  ColumnType(args, i) \in DOMAIN types /\ types[ColumnType(args, i)].cfgType = "String"
         /\ \E k \in DOMAIN args : ColumnType(args, i) = args[k].spelling
<1>1. PICK c \in 1..(Len(args) \div 2) : ColumnType(args, i) = args[2 * c - 1].spelling
  BY ColumnsAreTypes
<1>2. IsStringBased(args[2 * c - 1])
  BY ColumnsAreTypes
<1>3. 2 * c - 1 \in DOMAIN args
  <2>1. Len(args) = 2 * (Len(args) \div 2) /\ Len(args) \div 2 \in Nat /\ Len(args) \in Nat
    BY ColumnsAreTypes
  <2> QED BY <2>1
<1> QED BY <1>1, <1>2, <1>3 DEF IsStringBased

\* The verdict on an entry stays what it is when more types are defined.
LEMMA ElementVerdictStays ==
  ASSUME TypesOK, MeaningsOK, Grows(types, types'), \E f : IsMeaning(f, types'),
         outOfRange' = outOfRange, entry' = entry, entry.list \in Seq(Text),
         NEW type \in {"list", "table", "tuple"}, NEW args \in Seq(Text), CheckRule(type, args) = "ok"
  PROVE  ElementVerdict(type, args)' = ElementVerdict(type, args)
<1>1. CASE type = "list"
  <2>1. args[1].spelling \in DOMAIN types
    BY <1>1, ElementTypesAreKnown DEF IsStringBased
  <2>2. \A i \in DOMAIN entry.list :
          IsA(args[1].spelling, entry.list[i], <<>>)' = IsA(args[1].spelling, entry.list[i], <<>>)
    <3>1. ASSUME NEW name \in DOMAIN types, NEW text
          PROVE  IsA(name, text, <<>>)' = IsA(name, text, <<>>)
      BY IsAStays
    <3> QED BY <2>1, <3>1
  <2>3. ElementsOfList(args)' = ElementsOfList(args)
    BY <2>2 DEF ElementsOfList
  <2> QED BY <1>1, <2>3 DEF ElementVerdict
<1>2. CASE type \in {"table", "tuple"}
  <2>1. \A i \in DOMAIN entry.list : ColumnType(args, i) \in DOMAIN types
    BY <1>2, ElementTypesAreKnown, ColumnTypeIsKnown
  <2>2. \A i \in DOMAIN entry.list :
          IsA(ColumnType(args, i), entry.list[i], <<>>)' = IsA(ColumnType(args, i), entry.list[i], <<>>)
    <3>1. ASSUME NEW name \in DOMAIN types, NEW text
          PROVE  IsA(name, text, <<>>)' = IsA(name, text, <<>>)
      BY IsAStays
    <3> QED BY <2>1, <3>1
  <2>3. ElementsOfRows(args)' = ElementsOfRows(args)
    BY <2>2 DEF ElementsOfRows
  <2> QED BY <1>2, <2>3 DEF ElementVerdict
<1> QED BY <1>1, <1>2

StringTypes == BuiltIn \ {"scope", "list", "table", "tuple"}

\* Growing the table of types changes no verdict of a built-in type with arguments it
\* accepts.
LEMMA BuiltInVerdictStays ==
  ASSUME TypesOK, MeaningsOK, Grows(types, types'), \E f : IsMeaning(f, types'),
         outOfRange' = outOfRange, entry' = entry, entry.list \in Seq(Text),
         NEW type \in BuiltIn, NEW args \in Seq(Text), CheckRule(type, args) = "ok"
  PROVE  BuiltInValidate(type, args)' = BuiltInValidate(type, args)
<1>1. CASE type \in {"list", "table", "tuple"}
  <2>1. CheckRule(type, args)' = "ok"
    BY CheckRuleStays
  <2>2. ElementVerdict(type, args)' = ElementVerdict(type, args)
    BY <1>1, ElementVerdictStays
  <2> QED BY <1>1, <2>1, <2>2, ValidateByElements, ValidateByElementsNext
<1>2. CASE type = "scope"
  BY <1>2 DEF BuiltInValidate, ScopeValidate
<1>3. CASE type \in StringTypes
  <2>1. type \in DOMAIN types
    BY DEF TypesOK
  <2>2. ASSUME NEW text
        PROVE  IsA(type, text, args)' = IsA(type, text, args)
    BY <2>1, IsAStays
  <2>3. StringBasedValidate(type, args)' = StringBasedValidate(type, args)
    BY <2>2 DEF StringBasedValidate
  <2> QED BY <1>3, <2>3 DEF BuiltInValidate, StringTypes
<1> QED BY <1>1, <1>2, <1>3 DEF StringTypes

\* And so does the verdict of any rule that its type accepts.
LEMMA ValidateStays ==
  ASSUME TypesOK, MeaningsOK, TypesOK', MeaningsOK', Grows(types, types'),
         outOfRange' = outOfRange, entry' = entry, entry.list \in Seq(Text),
         NEW type \in DOMAIN types, NEW args \in Seq(Text), CheckRule(type, args) = "ok"
  PROVE  ValidateEntry(type, args)' = ValidateEntry(type, args)
<1>1. PICK r : r = Resolved(type, args)
  OBVIOUS
<1>2. \E f : IsMeaning(f, types')
  BY DEF MeaningsOK
<1>3. /\ r \in [type : BuiltIn, args : Seq(Text)] /\ CheckRule(r.type, r.args) = "ok"
      /\ ValidateEntry(type, args) = BuiltInValidate(r.type, r.args)
  BY <1>1, MeaningIsBuiltIn
<1>4. (type \in UserDefined <=> (type \in UserDefined)') /\ Resolved(type, args)' = r
  BY <1>1, <1>2, ResolvedStays
<1>5. BuiltInValidate(r.type, r.args)' = BuiltInValidate(r.type, r.args)
  BY <1>2, <1>3, BuiltInVerdictStays
<1>6. CASE type \in UserDefined
  <2>1. args = <<>>
    BY <1>6, UsersAreNew, NoArgumentsOfUsers
  <2>2. ValidateEntry(type, args)' = TypedefValidate(type, args)'
    BY <1>4, <1>6 DEF ValidateEntry
  <2>3. TypedefValidate(type, args)' = BuiltInValidate(r.type, r.args)'
    BY <1>4, <2>1 DEF TypedefValidate
  <2> QED BY <1>3, <1>5, <2>2, <2>3
<1>7. CASE type \notin UserDefined
  <2>1. r = [type |-> type, args |-> args]
    BY <1>1, <1>7 DEF Resolved
  <2>2. ValidateEntry(type, args)' = BuiltInValidate(type, args)'
    BY <1>4, <1>7 DEF ValidateEntry
  <2> QED BY <1>3, <1>5, <2>1, <2>2
<1> QED BY <1>6, <1>7

\* The rest of the invariant: the rule is accepted by its type, the entry is made of
\* texts, and the verdict and the answer are those of rule and entry as they are.
RuleOK ==
  rule # NoRule =>
    rule.type \in DOMAIN types /\ rule.args \in Seq(Text) /\ CheckRule(rule.type, rule.args) = "ok"
EntryOK ==
  /\ entry # NoEntry => entry.text \in Text
  /\ entry.list \in Seq(Text) /\ outOfRange \in OutOfRange
VerdictOK ==
  verdict # "none" =>
    rule # NoRule /\ entry # NoEntry /\ verdict = ValidateEntry(rule.type, rule.args)
AnswerOK ==
  answer # NoAnswer =>
    /\ rule # NoRule
    /\ LET r == Resolved(rule.type, rule.args)
       IN  answer = LookUpAs(r) \/ (HasDefault(r.type) /\ \E d \in Defaults : answer = LookUpAsOr(r, d))

IInv == TypesOK /\ MeaningsOK /\ RuleOK /\ EntryOK /\ VerdictOK /\ AnswerOK

----------------------------------------------------------------------------
(* The table of types. *)

\* Without a change, the table stays as it should be.
LEMMA TypesStay ==
  ASSUME TypesOK, types' = types, outOfRange' = outOfRange
  PROVE  TypesOK'
<1>1. ASSUME NEW name \in DOMAIN types' \ BuiltIn
      PROVE  /\ types'[name].base \in DOMAIN types' /\ types'[name].args \in Seq(Text)
             /\ (CheckRule(types[name].base, types[name].args) = "ok")'
             /\ types'[name].cfgType = types'[types'[name].base].cfgType
  <2>1. PICK base, args : base = types[name].base /\ args = types[name].args
    OBVIOUS
  <2>2. CheckRule(base, args) = "ok"
    BY <2>1 DEF TypesOK
  <2>3. CheckRule(base, args)' = "ok"
    BY <2>2, CheckRuleStays DEF Grows
  <2> QED BY <2>1, <2>3 DEF TypesOK
<1> QED BY <1>1 DEF TypesOK

\* And so do the meanings.
LEMMA MeaningsStay ==
  ASSUME TypesOK, MeaningsOK, types' = types, outOfRange' = outOfRange
  PROVE  MeaningsOK'
<1>1. (\E f : IsMeaning(f, types')) /\ OneMeaning(types')
  BY DEF MeaningsOK
<1>2. ASSUME NEW name \in DOMAIN types'
      PROVE  LET r == Resolved(name, <<>>)'
             IN  /\ r \in [type : BuiltIn, args : Seq(Text)]
                 /\ types'[name].cfgType = CfgType(r.type)
                 /\ name \in UserDefined' => (CheckRule(Resolved(name, <<>>).type, Resolved(name, <<>>).args) = "ok")'
  <2>1. PICK r : r = Resolved(name, <<>>)
    OBVIOUS
  <2>2. (name \in UserDefined <=> (name \in UserDefined)') /\ Resolved(name, <<>>)' = r
    BY <1>1, <2>1, ResolvedStays DEF Grows
  <2>3. /\ r \in [type : BuiltIn, args : Seq(Text)] /\ types[name].cfgType = CfgType(r.type)
        /\ name \in UserDefined => CheckRule(r.type, r.args) = "ok"
    BY <2>1 DEF MeaningsOK
  <2>4. name \in UserDefined => CheckRule(r.type, r.args)' = "ok"
    BY <2>3, CheckRuleStays DEF Grows
  <2> QED BY <2>2, <2>3, <2>4
<1> QED BY <1>1, <1>2 DEF MeaningsOK

\* @typedef adds one name that was not there, of a known type.
LEMMA TypedefGrows ==
  ASSUME TypesOK, NEW d \in Typedefs, Typedef(d)
  PROVE  /\ Grows(types, types') /\ DOMAIN types' = DOMAIN types \cup {d.name}
         /\ types'[d.name].base = d.type /\ types'[d.name].args = d.args
         /\ types'[d.name].cfgType = types[d.type].cfgType
         /\ d.name \notin DOMAIN types /\ d.name \notin BuiltIn /\ d.name # ""
         /\ d.type \in DOMAIN types /\ d.args \in Seq(Text)
<1>1. d.name # "" /\ d.args \in Seq(Text)
  BY ArgumentsAreTexts
<1>2. d.type \in DOMAIN types /\ d.name \notin DOMAIN types
  BY DEF Typedef
<1>3. d.name \notin BuiltIn
  BY <1>2 DEF TypesOK
<1> DEFINE e == [cfgType |-> types[d.type].cfgType, base |-> d.type, args |-> d.args]
<1>4. types' = [name \in DOMAIN types \cup {d.name} |-> IF name = d.name THEN e ELSE types[name]]
  BY DEF Typedef
<1>6. e.base = d.type /\ e.args = d.args /\ e.cfgType = types[d.type].cfgType
  BY Zenon
<1> HIDE DEF e
<1>5. Grows(types, types') /\ DOMAIN types' = DOMAIN types \cup {d.name} /\ types'[d.name] = e
  BY <1>2, <1>4 DEF Grows
<1> QED BY <1>1, <1>2, <1>3, <1>5, <1>6

\* After @typedef the arguments are still accepted by the types they are given to.
LEMMA TypedefKeepsTypes ==
  ASSUME TypesOK, NEW d \in Typedefs, Typedef(d)
  PROVE  TypesOK'
<1>1. /\ Grows(types, types') /\ DOMAIN types' = DOMAIN types \cup {d.name}
      /\ types'[d.name].base = d.type /\ types'[d.name].args = d.args
      /\ types'[d.name].cfgType = types[d.type].cfgType
      /\ d.name \notin DOMAIN types /\ d.name \notin BuiltIn /\ d.name # ""
      /\ d.type \in DOMAIN types /\ d.args \in Seq(Text)
  BY TypedefGrows
<1>2. outOfRange' = outOfRange /\ CheckRule(d.type, d.args) = "ok"
  BY DEF Typedef
<1>3. BuiltIn \subseteq DOMAIN types' /\ "" \notin DOMAIN types'
  BY <1>1 DEF TypesOK
<1>4. \A name \in BuiltIn : types'[name] = RegisteredBuiltins[name]
  BY <1>1 DEF TypesOK, Grows
<1>5. ASSUME NEW name \in DOMAIN types' \ BuiltIn
      PROVE  /\ types'[name].base \in DOMAIN types' /\ types'[name].args \in Seq(Text)
             /\ (CheckRule(types[name].base, types[name].args) = "ok")'
             /\ types'[name].cfgType = types'[types'[name].base].cfgType
  <2>1. PICK base, args : base = types'[name].base /\ args = types'[name].args
    OBVIOUS
  <2>2. base \in DOMAIN types /\ args \in Seq(Text) /\ CheckRule(base, args) = "ok"
        /\ types'[name].cfgType = types[base].cfgType
    <3>1. CASE name = d.name
      BY <1>1, <1>2, <2>1, <3>1
    <3>2. CASE name # d.name
      <4>1. name \in DOMAIN types \ BuiltIn /\ types'[name] = types[name]
        BY <1>1, <3>2 DEF Grows
      <4> QED BY <2>1, <4>1 DEF TypesOK
    <3> QED BY <3>1, <3>2
  <2>3. CheckRule(base, args)' = "ok"
    BY <1>1, <1>2, <2>2, CheckRuleStays
  <2>4. base \in DOMAIN types' /\ types'[base] = types[base]
    BY <1>1, <2>2 DEF Grows
  <2> QED BY <2>1, <2>2, <2>3, <2>4
<1> QED BY <1>3, <1>4, <1>5 DEF TypesOK

\* After @typedef every name still has one meaning: the new one that of its base, with
\* its own arguments, and the old ones the one they had.
LEMMA TypedefKeepsMeanings ==
  ASSUME TypesOK, MeaningsOK, NEW d \in Typedefs, Typedef(d)
  PROVE  MeaningsOK'
<1>1. /\ Grows(types, types') /\ DOMAIN types' = DOMAIN types \cup {d.name}
      /\ types'[d.name].base = d.type /\ types'[d.name].args = d.args
      /\ types'[d.name].cfgType = types[d.type].cfgType
      /\ d.name \notin DOMAIN types /\ d.name \notin BuiltIn /\ d.name # ""
      /\ d.type \in DOMAIN types /\ d.args \in Seq(Text)
  BY TypedefGrows
<1>2. outOfRange' = outOfRange /\ CheckRule(d.type, d.args) = "ok"
  BY DEF Typedef
<1>4. (\E f : IsMeaning(f, types')) /\ OneMeaning(types')
  <2>1. BasesKnown(types) /\ OneMeaning(types)
    BY UsersAreNew DEF MeaningsOK
  <2>2. PICK f : IsMeaning(f, types)
    BY DEF MeaningsOK
  <2> QED BY <1>1, <2>1, <2>2, MeaningOfNewName
<1>5. ASSUME NEW name \in DOMAIN types
      PROVE  /\ (name \in UserDefined <=> (name \in UserDefined)')
             /\ Resolved(name, <<>>)' = Resolved(name, <<>>)
  BY <1>1, <1>4, ResolvedStays
<1>6. \E r : /\ r = Resolved(d.name, <<>>)' /\ r \in [type : BuiltIn, args : Seq(Text)]
             /\ types[d.type].cfgType = CfgType(r.type) /\ CheckRule(r.type, r.args) = "ok"
  <2>1. IsMeaning(Base', types') /\ UserDefined' = UsersOf(types')
    BY <1>4, BaseIsMeaningNext
  <2>2. d.name \in UsersOf(types')
    BY <1>1, UsersAreNew DEF UsersOf, BasesKnown
  <2>3. Base'[d.name] = IF d.type \in UserDefined' THEN Base'[d.type]
                        ELSE [type |-> d.type, args |-> d.args]
    BY <1>1, <2>1, <2>2 DEF IsMeaning
  <2>4. Resolved(d.name, <<>>)' = Base'[d.name]
    BY <2>1, <2>2 DEF Resolved
  <2>5. CASE d.type \in UserDefined
    <3>1. Base'[d.name] = Resolved(d.type, <<>>)'
      BY <1>1, <1>5, <2>3, <2>5 DEF Resolved
    <3>2. PICK r : r = Resolved(d.type, <<>>)
      OBVIOUS
    <3>3. r \in [type : BuiltIn, args : Seq(Text)] /\ types[d.type].cfgType = CfgType(r.type)
          /\ CheckRule(r.type, r.args) = "ok"
      BY <1>1, <2>5, <3>2 DEF MeaningsOK
    <3>4. r = Resolved(d.name, <<>>)'
      BY <1>1, <1>5, <2>4, <3>1, <3>2
    <3> QED BY <3>3, <3>4
  <2>6. CASE d.type \notin UserDefined
    <3> DEFINE r == [type |-> d.type, args |-> d.args]
    <3>1. r = Resolved(d.name, <<>>)'
      BY <1>1, <1>5, <2>3, <2>4, <2>6
    <3>2. d.type \in BuiltIn
      BY <1>1, <2>6, UsersAreNew
    <3>3. types[d.type].cfgType = CfgType(d.type)
      <4>1. Resolved(d.type, <<>>).type = d.type
        BY <2>6 DEF Resolved
      <4> QED BY <1>1, <4>1 DEF MeaningsOK
    <3>4. r \in [type : BuiltIn, args : Seq(Text)] /\ CheckRule(r.type, r.args) = "ok"
      BY <1>1, <1>2, <3>2
    <3>5. types[d.type].cfgType = CfgType(r.type)
      BY <3>3
    <3> HIDE DEF r
    <3> QED BY <3>1, <3>4, <3>5
  <2> QED BY <2>5, <2>6
<1>7. ASSUME NEW name \in DOMAIN types'
      PROVE  LET r == Resolved(name, <<>>)'
             IN  /\ r \in [type : BuiltIn, args : Seq(Text)]
                 /\ types'[name].cfgType = CfgType(r.type)
                 /\ name \in UserDefined' => (CheckRule(Resolved(name, <<>>).type, Resolved(name, <<>>).args) = "ok")'
  <2>1. PICK r : r = Resolved(name, <<>>)'
    OBVIOUS
  <2>2. /\ r \in [type : BuiltIn, args : Seq(Text)] /\ types'[name].cfgType = CfgType(r.type)
        /\ name \in UserDefined' => CheckRule(r.type, r.args) = "ok"
    <3>1. CASE name = d.name
      BY <1>1, <1>6, <2>1, <3>1
    <3>2. CASE name # d.name
      <4>1. name \in DOMAIN types /\ types'[name] = types[name]
        BY <1>1, <3>2 DEF Grows
      <4>2. r = Resolved(name, <<>>) /\ (name \in UserDefined <=> name \in UserDefined')
        BY <1>5, <2>1, <4>1
      <4> QED BY <4>1, <4>2 DEF MeaningsOK
    <3> QED BY <3>1, <3>2
  <2>3. name \in UserDefined' => CheckRule(r.type, r.args)' = "ok"
    BY <1>1, <1>2, <2>2, CheckRuleStays
  <2> QED BY <2>1, <2>2, <2>3
<1> QED BY <1>4, <1>7 DEF MeaningsOK

----------------------------------------------------------------------------
(* The invariant holds at the beginning. *)

\* At the beginning there are only the built-in types.
LEMMA InitHolds == Init => IInv
<1> SUFFICES ASSUME Init PROVE IInv
  OBVIOUS
<1>1. types = RegisteredBuiltins /\ DOMAIN types = BuiltIn
  BY DEF Init, RegisteredBuiltins
<1>2. TypesOK
  <2>1. "" \notin BuiltIn
    BY DEF BuiltIn
  <2> QED BY <1>1, <2>1 DEF TypesOK
<1>3. MeaningsOK
  <2>1. UserDefined = {} /\ UsersOf(types) = {}
    BY <1>1, <1>2, UsersAreNew, BaseIsMeaning
  <2>2. (\E f : IsMeaning(f, types)) /\ OneMeaning(types)
    BY <2>1, MeaningOfNone
  <2>3. ASSUME NEW name \in DOMAIN types
        PROVE  LET r == Resolved(name, <<>>)
               IN  /\ r \in [type : BuiltIn, args : Seq(Text)] /\ types[name].cfgType = CfgType(r.type)
                   /\ name \notin UserDefined
    <3>1. Resolved(name, <<>>) = [type |-> name, args |-> <<>>]
      BY <2>1 DEF Resolved
    <3>2. types[name].cfgType = CfgType(name)
      BY <1>1, Zenon DEF RegisteredBuiltins
    <3>3. PICK r : r = [type |-> name, args |-> <<>>]
      OBVIOUS
    <3>4. r \in [type : BuiltIn, args : Seq(Text)] /\ r.type = name
      BY <1>1, <3>3
    <3>5. Resolved(name, <<>>) = r
      BY <3>1, <3>3
    <3> QED BY <2>1, <3>2, <3>4, <3>5
  <2> QED BY <2>2, <2>3 DEF MeaningsOK
<1>4. RuleOK /\ VerdictOK /\ AnswerOK
  BY DEF Init, RuleOK, VerdictOK, AnswerOK
<1>5. EntryOK
  <2>1. NoEntry.list = <<>>
    BY Zenon DEF NoEntry
  <2>2. <<>> \in Seq(Text)
    OBVIOUS
  <2>3. NoEntry.list \in Seq(Text)
    BY <2>1, <2>2, Zenon
  <2> QED BY <2>3 DEF Init, EntryOK
<1> QED BY <1>2, <1>3, <1>4, <1>5 DEF IInv

----------------------------------------------------------------------------
(* And is kept. *)

\* Rule, verdict and answer are kept when types are added.
LEMMA RuleStays ==
  ASSUME RuleOK, Grows(types, types'), outOfRange' = outOfRange, rule' = rule
  PROVE  RuleOK'
<1> SUFFICES ASSUME rule # NoRule
             PROVE  /\ rule'.type \in DOMAIN types' /\ rule'.args \in Seq(Text)
                    /\ (CheckRule(rule.type, rule.args) = "ok")'
  BY DEF RuleOK
<1>1. PICK type, args : type = rule.type /\ args = rule.args
  OBVIOUS
<1>2. type \in DOMAIN types /\ args \in Seq(Text) /\ CheckRule(type, args) = "ok"
  BY <1>1 DEF RuleOK
<1>3. CheckRule(type, args)' = "ok"
  BY <1>2, CheckRuleStays
<1>4. type \in DOMAIN types'
  BY <1>2 DEF Grows
<1> QED BY <1>1, <1>2, <1>3, <1>4

\* A verdict stays that of rule and entry as long as the table only grows.
LEMMA VerdictStays ==
  ASSUME IInv, TypesOK', MeaningsOK', Grows(types, types'), UNCHANGED <<outOfRange, rule, entry, verdict>>
  PROVE  VerdictOK'
<1> SUFFICES ASSUME verdict # "none"
             PROVE  /\ rule' # NoRule /\ entry' # NoEntry
                    /\ (verdict = ValidateEntry(rule.type, rule.args))'
  BY DEF VerdictOK
<1>1. PICK type, args : type = rule.type /\ args = rule.args
  OBVIOUS
<1>2. /\ rule # NoRule /\ entry # NoEntry /\ verdict = ValidateEntry(type, args)
      /\ type \in DOMAIN types /\ args \in Seq(Text) /\ CheckRule(type, args) = "ok"
  BY <1>1 DEF IInv, VerdictOK, RuleOK
<1>3. ValidateEntry(type, args)' = ValidateEntry(type, args)
  BY <1>2, ValidateStays DEF IInv, EntryOK
<1> QED BY <1>1, <1>2, <1>3

\* Look-ups read the entry and no type.
LEMMA LookUpsStay ==
  ASSUME UNCHANGED <<outOfRange, entry>>, NEW r, NEW d
  PROVE  LookUpAs(r)' = LookUpAs(r) /\ LookUpAsOr(r, d)' = LookUpAsOr(r, d)
<1>1. LookUpAs(r)' = LookUpAs(r)
  BY DEF LookUpAs
<1>2. LookUpAsOr(r, d)' = LookUpAsOr(r, d)
  BY DEF LookUpAsOr
<1> QED BY <1>1, <1>2

\* An answer stays that of rule and entry as long as the table only grows.
LEMMA AnswerStays ==
  ASSUME IInv, MeaningsOK', Grows(types, types'), UNCHANGED <<outOfRange, rule, entry, answer>>
  PROVE  AnswerOK'
<1> SUFFICES ASSUME answer # NoAnswer
             PROVE  /\ rule' # NoRule
                    /\ LET r == Resolved(rule.type, rule.args)'
                       IN  \/ (answer = LookUpAs(Resolved(rule.type, rule.args)))'
                           \/ /\ HasDefault(r.type)
                              /\ \E d \in Defaults : (answer = LookUpAsOr(Resolved(rule.type, rule.args), d))'
  BY DEF AnswerOK
<1>1. PICK type, args, r : type = rule.type /\ args = rule.args /\ r = Resolved(type, args)
  OBVIOUS
<1>2. rule # NoRule /\ (answer = LookUpAs(r) \/ (HasDefault(r.type) /\ \E d \in Defaults : answer = LookUpAsOr(r, d)))
  BY <1>1 DEF IInv, AnswerOK
<1>3. type \in DOMAIN types
  BY <1>1, <1>2 DEF IInv, RuleOK
<1>4. Resolved(type, args)' = r
  <2>1. \E f : IsMeaning(f, types')
    BY DEF MeaningsOK
  <2> QED BY <1>1, <1>3, <2>1, ResolvedStays DEF IInv
<1>5. \A d : LookUpAs(r)' = LookUpAs(r) /\ LookUpAsOr(r, d)' = LookUpAsOr(r, d)
  BY LookUpsStay
<1> QED BY <1>1, <1>2, <1>4, <1>5

\* @typedef keeps the invariant.
LEMMA TypedefKeeps == ASSUME IInv, NEW d \in Typedefs, Typedef(d) PROVE IInv'
<1>1. TypesOK' /\ MeaningsOK' /\ Grows(types, types')
  BY TypedefKeepsTypes, TypedefKeepsMeanings, TypedefGrows DEF IInv
<1>2. UNCHANGED <<rule, entry, outOfRange, verdict, answer>>
  BY DEF Typedef
<1>3. RuleOK'
  BY <1>1, <1>2, RuleStays DEF IInv
<1>4. EntryOK'
  BY <1>2 DEF IInv, EntryOK
<1>5. VerdictOK' /\ AnswerOK'
  BY <1>1, <1>2, VerdictStays, AnswerStays
<1> QED BY <1>1, <1>3, <1>4, <1>5 DEF IInv

\* The other actions leave the types alone.
LEMMA SameTypes ==
  ASSUME IInv, types' = types, outOfRange' = outOfRange
  PROVE  TypesOK' /\ MeaningsOK' /\ Grows(types, types')
<1>1. Grows(types, types')
  BY DEF Grows
<1> QED BY <1>1, TypesStay, MeaningsStay DEF IInv

\* Taking a rule keeps it: the rule was checked, verdict and answer are gone.
LEMMA TakeRuleKeeps == ASSUME IInv, NEW r \in Rules, TakeRule(r) PROVE IInv'
<1>1. UNCHANGED <<types, entry, outOfRange, verdict, answer>> /\ rule = NoRule /\ rule' = r
      /\ r.type \in DOMAIN types /\ CheckRule(r.type, r.args) = "ok"
  BY DEF TakeRule
<1>2. TypesOK' /\ MeaningsOK' /\ Grows(types, types')
  BY <1>1, SameTypes
<1>3. verdict = "none" /\ answer = NoAnswer
  BY <1>1 DEF IInv, VerdictOK, AnswerOK
<1>4. RuleOK'
  <2>1. PICK type, args : type = r.type /\ args = r.args
    OBVIOUS
  <2>2. args \in Seq(Text)
    BY <2>1, ArgumentsAreTexts
  <2>3. CheckRule(type, args)' = "ok"
    BY <1>1, <1>2, <2>1, CheckRuleStays
  <2> QED BY <1>1, <2>1, <2>2, <2>3 DEF RuleOK
<1>5. EntryOK' /\ VerdictOK' /\ AnswerOK'
  BY <1>1, <1>3 DEF IInv, EntryOK, VerdictOK, AnswerOK
<1> QED BY <1>2, <1>4, <1>5 DEF IInv

\* Changing the entry keeps it: verdict and answer are gone.
LEMMA SetEntryKeeps == ASSUME IInv, NEW e \in Entries, SetEntry(e) PROVE IInv'
<1>1. UNCHANGED <<types, rule, outOfRange, verdict>> /\ entry = NoEntry /\ entry' = e /\ answer' = NoAnswer
  BY DEF SetEntry
<1>2. TypesOK' /\ MeaningsOK' /\ Grows(types, types')
  BY <1>1, SameTypes
<1>3. RuleOK'
  BY <1>1, <1>2, RuleStays DEF IInv
<1>4. verdict = "none"
  BY <1>1 DEF IInv, VerdictOK
<1>5. EntryOK'
  BY <1>1, ArgumentsAreTexts DEF IInv, EntryOK
<1>6. VerdictOK' /\ AnswerOK'
  BY <1>1, <1>4 DEF VerdictOK, AnswerOK
<1> QED BY <1>2, <1>3, <1>5, <1>6 DEF IInv

\* Validating keeps it.
LEMMA ValidateKeeps == ASSUME IInv, Validate PROVE IInv'
<1>1. UNCHANGED <<types, rule, entry, outOfRange, answer>> /\ rule # NoRule /\ entry # NoEntry
      /\ verdict' = ValidateEntry(rule.type, rule.args)
  BY DEF Validate
<1>2. TypesOK' /\ MeaningsOK' /\ Grows(types, types')
  BY <1>1, SameTypes
<1>3. RuleOK'
  BY <1>1, <1>2, RuleStays DEF IInv
<1>4. EntryOK' /\ AnswerOK'
  BY <1>1, <1>2, AnswerStays DEF IInv, EntryOK
<1>5. VerdictOK'
  <2>1. PICK type, args : type = rule.type /\ args = rule.args
    OBVIOUS
  <2>2. type \in DOMAIN types /\ args \in Seq(Text) /\ CheckRule(type, args) = "ok"
    BY <1>1, <2>1 DEF IInv, RuleOK
  <2>3. ValidateEntry(type, args)' = ValidateEntry(type, args)
    BY <1>1, <1>2, <2>2, ValidateStays DEF IInv, EntryOK
  <2> QED BY <1>1, <2>1, <2>3 DEF VerdictOK
<1> QED BY <1>2, <1>3, <1>4, <1>5 DEF IInv

\* Looking up keeps it.
LEMMA LookUpsKeep ==
  ASSUME IInv, LookUp \/ \E d \in Defaults : LookUpOr(d)
  PROVE  IInv'
<1>1. UNCHANGED <<types, rule, entry, outOfRange, verdict>> /\ rule # NoRule
  BY DEF LookUp, LookUpOr
<1>2. TypesOK' /\ MeaningsOK' /\ Grows(types, types')
  BY <1>1, SameTypes
<1>3. RuleOK'
  BY <1>1, <1>2, RuleStays DEF IInv
<1>4. EntryOK' /\ VerdictOK'
  BY <1>1, <1>2, VerdictStays DEF IInv, EntryOK
<1>5. AnswerOK'
  <2>1. PICK type, args, r : type = rule.type /\ args = rule.args /\ r = Resolved(type, args)
    OBVIOUS
  <2>2. answer' = LookUpAs(r) \/ (HasDefault(r.type) /\ \E d \in Defaults : answer' = LookUpAsOr(r, d))
    BY <2>1 DEF LookUp, LookUpOr
  <2>3. type \in DOMAIN types
    BY <1>1, <2>1 DEF IInv, RuleOK
  <2>4. Resolved(type, args)' = r
    <3>1. \E f : IsMeaning(f, types')
      BY <1>2 DEF MeaningsOK
    <3> QED BY <1>2, <2>1, <2>3, <3>1, ResolvedStays DEF IInv
  <2>5. \A d : LookUpAs(r)' = LookUpAs(r) /\ LookUpAsOr(r, d)' = LookUpAsOr(r, d)
    BY <1>1, LookUpsStay
  <2>6. /\ rule' # NoRule
        /\ LET q == Resolved(rule.type, rule.args)'
           IN  \/ (answer = LookUpAs(Resolved(rule.type, rule.args)))'
               \/ /\ HasDefault(q.type)
                  /\ \E d \in Defaults : (answer = LookUpAsOr(Resolved(rule.type, rule.args), d))'
    BY <1>1, <2>1, <2>2, <2>4, <2>5
  <2> QED BY <2>6 DEF AnswerOK
<1> QED BY <1>2, <1>3, <1>4, <1>5 DEF IInv

\* A step that changes nothing keeps it.
LEMMA StutterKeeps == ASSUME IInv, UNCHANGED vars PROVE IInv'
<1>1. UNCHANGED <<types, rule, entry, outOfRange, verdict, answer>>
  BY DEF vars
<1>2. TypesOK' /\ MeaningsOK' /\ Grows(types, types')
  BY <1>1, SameTypes
<1>3. RuleOK' /\ EntryOK'
  BY <1>1, <1>2, RuleStays DEF IInv, EntryOK
<1>4. VerdictOK' /\ AnswerOK'
  BY <1>1, <1>2, VerdictStays, AnswerStays
<1> QED BY <1>2, <1>3, <1>4 DEF IInv

\* So every step keeps the invariant.
LEMMA NextKeeps == IInv /\ [Next]_vars => IInv'
<1> SUFFICES ASSUME IInv, [Next]_vars PROVE IInv'
  OBVIOUS
<1>1. CASE \E d \in Typedefs : Typedef(d)
  BY <1>1, TypedefKeeps
<1>2. CASE \E r \in Rules : TakeRule(r)
  BY <1>2, TakeRuleKeeps
<1>3. CASE \E e \in Entries : SetEntry(e)
  BY <1>3, SetEntryKeeps
<1>4. CASE Validate
  BY <1>4, ValidateKeeps
<1>5. CASE LookUp \/ \E d \in Defaults : LookUpOr(d)
  BY <1>5, LookUpsKeep
<1>6. CASE UNCHANGED vars
  BY <1>6, StutterKeeps
<1> QED BY <1>1, <1>2, <1>3, <1>4, <1>5, <1>6 DEF Next

\* The table of types, the meaning of its names, the rule that was taken, and the verdict
\* and the answer that were given fit together in every state (SchemaValidator's tables
\* and SchemaType's calls, for all texts and any sequence of @typedef).
THEOREM TypesInvariant == Spec => []IInv
BY InitHolds, NextKeeps, PTL DEF Spec

----------------------------------------------------------------------------
(* What the invariant says of the verdict. *)

\* The verdict is that of the built-in type which the rule means.
LEMMA VerdictOfMeaning ==
  ASSUME IInv, verdict # "none"
  PROVE  /\ rule # NoRule /\ entry # NoEntry
         /\ Meaning \in [type : BuiltIn, args : Seq(Text)] /\ CheckRule(Meaning.type, Meaning.args) = "ok"
         /\ verdict = BuiltInValidate(Meaning.type, Meaning.args)
         /\ entry.text \in Text /\ entry.list \in Seq(Text) /\ outOfRange \in OutOfRange
<1>1. rule # NoRule /\ entry # NoEntry /\ verdict = ValidateEntry(rule.type, rule.args)
  BY DEF IInv, VerdictOK
<1>2. rule.type \in DOMAIN types /\ rule.args \in Seq(Text) /\ CheckRule(rule.type, rule.args) = "ok"
  BY <1>1 DEF IInv, RuleOK
<1>3. Meaning = Resolved(rule.type, rule.args)
  BY <1>1 DEF Meaning
<1>4. /\ Meaning \in [type : BuiltIn, args : Seq(Text)] /\ CheckRule(Meaning.type, Meaning.args) = "ok"
      /\ verdict = BuiltInValidate(Meaning.type, Meaning.args)
  BY <1>1, <1>2, <1>3, MeaningIsBuiltIn DEF IInv
<1> QED BY <1>1, <1>4 DEF IInv, EntryOK

\* A text is checked by the built-in type itself.
LEMMA StringBasedVerdict ==
  ASSUME TypesOK, NEW type \in StringTypes, NEW args
  PROVE  BuiltInValidate(type, args) =
           IF entry.type = "String" THEN BuiltInIsA(type, entry.text, args) ELSE "config"
<1>1. type \in BuiltIn /\ type \notin UserDefined
  BY UsersAreNew DEF StringTypes
<1>2. BuiltInValidate(type, args) = StringBasedValidate(type, args)
  BY DEF BuiltInValidate, StringTypes
<1>3. \A text : IsA(type, text, args) = BuiltInIsA(type, text, args)
  BY <1>1 DEF IsA, Resolved
<1>4. CASE entry.type = "String"
  BY <1>2, <1>3, <1>4 DEF StringBasedValidate, LookupString, Gives, Succeeds
<1>5. CASE entry.type # "String"
  BY <1>2, <1>5 DEF StringBasedValidate, LookupString, Refused, Succeeds
<1> QED BY <1>4, <1>5

\* An element is checked by the built-in type that its type means.
LEMMA ElementIsSafe ==
  ASSUME TypesOK, MeaningsOK, NEW name \in DOMAIN types, NEW text,
         Resolved(name, <<>>).type # "durationMicroseconds"
  PROVE  IsA(name, text, <<>>) # "assert"
<1>1. PICK r : r = Resolved(name, <<>>)
  OBVIOUS
<1>2. r.type \in BuiltIn /\ r.args \in Seq(Text) /\ (name \in UserDefined => CheckRule(r.type, r.args) = "ok")
  BY <1>1 DEF MeaningsOK
<1>3. name \notin UserDefined => r.args = <<>>
  BY <1>1 DEF Resolved
<1>4. BuiltInIsA(r.type, text, r.args) # "assert"
  BY <1>1, <1>2, <1>3, NoAssertion
<1> QED BY <1>1, <1>4 DEF IsA

\* No assertion fails on a rule that checkRule let through and that has nothing to do
\* with microseconds.
LEMMA ValidateIsSafe ==
  ASSUME TypesOK, MeaningsOK, entry.list \in Seq(Text),
         NEW r \in [type : BuiltIn, args : Seq(Text)], CheckRule(r.type, r.args) = "ok",
         ~ReadsMicroseconds(r)
  PROVE  BuiltInValidate(r.type, r.args) # "assert"
<1>1. r.type # "durationMicroseconds"
  BY DEF ReadsMicroseconds
<1>2. ASSUME NEW i \in DOMAIN r.args, r.args[i].spelling \in DOMAIN types, NEW text
      PROVE  IsA(r.args[i].spelling, text, <<>>) # "assert"
  BY <1>2, ElementIsSafe DEF ReadsMicroseconds
<1>3. CASE r.type = "scope"
  BY <1>3 DEF BuiltInValidate, ScopeValidate, LookupScope, Gives, Refused, Succeeds
<1>4. CASE r.type = "list"
  <2>1. 1 \in DOMAIN r.args /\ r.args[1].spelling \in DOMAIN types
    BY <1>4, ElementTypesAreKnown DEF IsStringBased
  <2>2. \A i \in DOMAIN ElementsOfList(r.args) : ElementsOfList(r.args)[i] # "assert"
    BY <1>2, <2>1 DEF ElementsOfList
  <2>3. DOMAIN ElementsOfList(r.args) \subseteq Nat
    BY DEF ElementsOfList
  <2>4. FirstBad(ElementsOfList(r.args)) # "assert"
    BY <2>2, <2>3, FirstBadIsBad
  <2> QED BY <1>4, <2>4, ValidateByElements DEF ElementVerdict
<1>5. CASE r.type \in {"table", "tuple"}
  <2>1. ASSUME NEW i \in DOMAIN entry.list
        PROVE  IsA(ColumnType(r.args, i), entry.list[i], <<>>) # "assert"
    <3>1. AreColumns(r.args) /\ i \in Nat \ {0}
      BY <1>5, ElementTypesAreKnown
    <3>2. PICK k \in DOMAIN r.args : ColumnType(r.args, i) = r.args[k].spelling
      BY <3>1, ColumnTypeIsKnown
    <3>3. r.args[k].spelling \in DOMAIN types
      BY <3>1, <3>2, ColumnTypeIsKnown
    <3> QED BY <1>2, <3>2, <3>3
  <2>2. \A i \in DOMAIN ElementsOfRows(r.args) : ElementsOfRows(r.args)[i] # "assert"
    BY <2>1 DEF ElementsOfRows
  <2>3. DOMAIN ElementsOfRows(r.args) \subseteq Nat
    BY DEF ElementsOfRows
  <2>4. FirstBad(ElementsOfRows(r.args)) # "assert"
    BY <2>2, <2>3, FirstBadIsBad
  <2> QED BY <1>5, <2>4, ValidateByElements DEF ElementVerdict
<1>6. CASE r.type \in StringTypes
  BY <1>1, <1>6, StringBasedVerdict, NoAssertion
<1> QED BY <1>3, <1>4, <1>5, <1>6 DEF StringTypes

\* What checkRule has accepted, isA and the look-ups may assert: the asserts of the
\* validating and the looking up never fail, but for those of durationMicroseconds.
THEOREM NoAssertionFails == Spec => []AssertionsHold
<1>1. IInv => AssertionsHold
  <2> SUFFICES ASSUME IInv, ~ReadsMicroseconds(Meaning)
               PROVE  verdict # "assert" /\ answer.tag # "assert"
    BY DEF AssertionsHold
  <2>1. verdict # "assert"
    <3> SUFFICES ASSUME verdict # "none" PROVE verdict # "assert"
      OBVIOUS
    <3>1. PICK r : r = Meaning
      OBVIOUS
    <3>2. r \in [type : BuiltIn, args : Seq(Text)] /\ CheckRule(r.type, r.args) = "ok"
          /\ verdict = BuiltInValidate(r.type, r.args) /\ entry.list \in Seq(Text)
      BY <3>1, VerdictOfMeaning
    <3> QED BY <3>1, <3>2, ValidateIsSafe DEF IInv
  <2>2. answer.tag # "assert"
    <3>1. CASE answer = NoAnswer
      BY <3>1 DEF NoAnswer
    <3>2. CASE answer # NoAnswer
      <4>1. PICK r : r = Resolved(rule.type, rule.args)
        OBVIOUS
      <4>2. /\ rule # NoRule
            /\ answer = LookUpAs(r) \/ \E d \in Defaults : answer = LookUpAsOr(r, d)
        BY <3>2, <4>1 DEF IInv, AnswerOK
      <4>3. r = Meaning
        BY <4>1, <4>2 DEF Meaning
      <4>4. r.type \in BuiltIn
        BY <4>1, <4>2, MeaningIsBuiltIn DEF IInv, RuleOK
      <4>5. r.type # "durationMicroseconds"
        BY <4>3 DEF ReadsMicroseconds
      <4> QED BY <4>2, <4>4, <4>5, LookUpsAreSafe, DefaultLookUpsAreSafe
    <3> QED BY <3>1, <3>2
  <2> QED BY <2>1, <2>2
<1> QED BY <1>1, TypesInvariant, PTL

\* An entry that validate accepted, the look-up of the rule's type finds, after any
\* number of further @typedefs (isX, the range check and lookupX agree on a text).
THEOREM AcceptedEntriesAreFound == Spec => []AcceptedIsFound
<1>1. IInv => AcceptedIsFound
  <2> SUFFICES ASSUME IInv, verdict = "ok", answer # NoAnswer
               PROVE  Succeeds(answer) \/ (answer.tag = "recurses" /\ Meaning.type \in WithUnits)
    BY DEF AcceptedIsFound
  <2>1. PICK r : r = Meaning
    OBVIOUS
  <2>2. /\ r \in [type : BuiltIn, args : Seq(Text)] /\ CheckRule(r.type, r.args) = "ok"
        /\ BuiltInValidate(r.type, r.args) = "ok" /\ entry.list \in Seq(Text)
    BY <2>1, VerdictOfMeaning
  <2>3. answer = LookUpAs(r) \/ (HasDefault(r.type) /\ \E d \in Defaults : answer = LookUpAsOr(r, d))
    <3>1. rule # NoRule
      BY DEF IInv, AnswerOK
    <3>2. r = Resolved(rule.type, rule.args)
      BY <2>1, <3>1 DEF Meaning
    <3> QED BY <3>2 DEF IInv, AnswerOK
  <2>4. CASE r.type = "scope"
    <3>1. entry.type = "Scope"
      BY <2>2, <2>4 DEF BuiltInValidate, ScopeValidate, LookupScope, Refused, Succeeds
    <3>2. answer = LookUpAs(r)
      BY <2>3, <2>4 DEF HasDefault
    <3> QED BY <2>4, <3>1, <3>2 DEF LookUpAs, LookupScope, Gives, Succeeds
  <2>5. CASE r.type \in {"list", "table", "tuple"}
    <3>1. entry.type = "List"
      BY <2>2, <2>5, ValidateByElements DEF ElementVerdict
    <3>2. LookUpAs(r) = LookupList(entry) /\ \A d : LookUpAsOr(r, d) = LookupListOr(entry, <<DefaultText>>)
      BY <2>5 DEF LookUpAs, LookUpAsOr
    <3> QED BY <2>3, <3>1, <3>2 DEF LookupList, LookupListOr, Gives, Succeeds
  <2>6. CASE r.type \in StringTypes
    <3>1. entry.type = "String" /\ BuiltInIsA(r.type, entry.text, r.args) = "ok"
      BY <2>2, <2>6, StringBasedVerdict DEF IInv
    <3>2. r = [type |-> r.type, args |-> r.args]
      BY <2>2
    <3>3. ASSUME NEW d
          PROVE  /\ Succeeds(LookUpAs(r))
                 /\ Succeeds(LookUpAsOr(r, d)) \/ (r.type \in WithUnits /\ LookUpAsOr(r, d).tag = "recurses")
      BY <2>2, <3>1, <3>2, AcceptedIsRead
    <3> QED BY <2>1, <2>3, <3>3
  <2> QED BY <2>2, <2>4, <2>5, <2>6 DEF StringTypes
<1> QED BY <1>1, TypesInvariant, PTL

\* The range checks of durations and memory sizes are the order with infinite on top,
\* for all bounds and texts without a minus sign, provided that the conversion of a
\* float too large for an int never gives -1, the code's infinite.
THEOREM RangesAreOrders == Infinite \notin OutOfRange => (Spec => []RangeIsOrder)
<1> SUFFICES ASSUME Infinite \notin OutOfRange PROVE Spec => []RangeIsOrder
  OBVIOUS
<1>1. IInv => RangeIsOrder
  <2> SUFFICES ASSUME IInv, verdict # "none", entry.type = "String", Len(Meaning.args) = 2,
                      ~Negative(entry.text), ~Negative(Meaning.args[1]), ~Negative(Meaning.args[2])
               PROVE  RangeIsOrder
    BY DEF RangeIsOrder
  <2>1. PICK r, text : r = Meaning /\ text = entry.text
    OBVIOUS
  <2>2. /\ r \in [type : BuiltIn, args : Seq(Text)] /\ CheckRule(r.type, r.args) = "ok"
        /\ verdict = BuiltInValidate(r.type, r.args) /\ text \in Text /\ outOfRange \in OutOfRange
    BY <2>1, VerdictOfMeaning
  <2>3. r.type \in StringTypes => verdict = BuiltInIsA(r.type, text, r.args)
    BY <2>1, <2>2, StringBasedVerdict DEF IInv
  <2>4. ASSUME r.type = "durationMilliseconds"
        PROVE  verdict = "ok" <=>
                 /\ Succeeds(StringToDurationMilliseconds(text, outOfRange))
                 /\ AtMost(r.args[1], text, LAMBDA t : StringToDurationMilliseconds(t, outOfRange))
                 /\ AtMost(text, r.args[2], LAMBDA t : StringToDurationMilliseconds(t, outOfRange))
    <3>1. verdict = DurationMillisecondsIsA(text, r.args) /\ DurationMillisecondsCheckRule(r.args) = "ok"
      BY <2>2, <2>3, <2>4 DEF StringTypes, BuiltIn, BuiltInIsA, CheckRule
    <3> QED BY <2>1, <2>2, <3>1, MillisecondsInOrder
  <2>5. ASSUME r.type = "durationSeconds"
        PROVE  verdict = "ok" <=>
                 /\ Succeeds(StringToDurationSeconds(text, outOfRange))
                 /\ AtMost(r.args[1], text, LAMBDA t : StringToDurationSeconds(t, outOfRange))
                 /\ AtMost(text, r.args[2], LAMBDA t : StringToDurationSeconds(t, outOfRange))
    <3>1. verdict = DurationSecondsIsA(text, r.args) /\ DurationSecondsCheckRule(r.args) = "ok"
      BY <2>2, <2>3, <2>5 DEF StringTypes, BuiltIn, BuiltInIsA, CheckRule
    <3> QED BY <2>1, <2>2, <3>1, SecondsInOrder
  <2>6. ASSUME r.type = "memorySizeBytes"
        PROVE  verdict = "ok" <=>
                 /\ Succeeds(StringToMemorySizeBytes(text, outOfRange))
                 /\ AtMost(r.args[1], text, LAMBDA t : StringToMemorySizeBytes(t, outOfRange))
                 /\ AtMost(text, r.args[2], LAMBDA t : StringToMemorySizeBytes(t, outOfRange))
    <3>1. verdict = MemorySizeBytesIsA(text, r.args) /\ MemorySizeBytesCheckRule(r.args) = "ok"
      BY <2>2, <2>3, <2>6 DEF StringTypes, BuiltIn, BuiltInIsA, CheckRule
    <3> QED BY <2>1, <2>2, <3>1, BytesInOrder
  <2> QED BY <2>1, <2>4, <2>5, <2>6 DEF RangeIsOrder, AtMost
<1> QED BY <1>1, TypesInvariant, PTL

\* SchemaTypeTable, which counts through the whole list, accepts what SchemaTypeTuple
\* accepts row by row, for tables of any length and any number of columns.
THEOREM TablesAreTuples == Spec => []TableIsTuples
<1>1. IInv => TableIsTuples
  <2> SUFFICES ASSUME IInv, verdict # "none", entry.type = "List", Meaning.type = "table"
               PROVE  TableIsTuples
    BY DEF TableIsTuples
  <2>1. PICK args, list, cols : args = Meaning.args /\ list = entry.list /\ cols = Columns(args)
    OBVIOUS
  <2>2. /\ args \in Seq(Text) /\ CheckRule("table", args) = "ok" /\ list \in Seq(Text)
        /\ verdict = BuiltInValidate("table", args)
    BY <2>1, VerdictOfMeaning
  <2>3. AreColumns(args)
    BY <2>2, ElementTypesAreKnown
  <2>4. verdict = IF Len(list) % cols # 0 THEN "config" ELSE FirstBad(ElementsOfRows(args))
    BY <2>1, <2>2, ValidateByElements DEF ElementVerdict, Columns
  <2>5. FirstBad(ElementsOfRows(args)) = "ok" <=>
          \A i \in DOMAIN list : IsA(ColumnType(args, i), list[i], <<>>) = "ok"
    <3>1. /\ DOMAIN ElementsOfRows(args) = DOMAIN list
          /\ \A i \in DOMAIN list : ElementsOfRows(args)[i] = IsA(ColumnType(args, i), list[i], <<>>)
      BY <2>1 DEF ElementsOfRows
    <3>2. DOMAIN list \subseteq Nat
      BY <2>2
    <3>3. FirstBad(ElementsOfRows(args)) = "ok" <=>
            \A i \in DOMAIN ElementsOfRows(args) : ElementsOfRows(args)[i] = "ok"
      BY <3>1, <3>2, FirstBadIsBad
    <3> QED BY <3>1, <3>3
  <2>6. verdict = "ok" <=>
          /\ Len(list) % cols = 0
          /\ \A i \in DOMAIN list : IsA(ColumnType(args, i), list[i], <<>>) = "ok"
    BY <2>4, <2>5
  <2>7. verdict = "ok" <=> RowsOK(args, list, cols)
    <3>1. ElementsOK(args, list, cols) <=> RowsOK(args, list, cols)
      BY <2>1, <2>2, <2>3, RowsAreElements
    <3> QED BY <2>6, <3>1 DEF ElementsOK
  <2>8. (verdict = "ok") =
          \E rows \in 0..Len(list) :
            /\ rows * cols = Len(list)
            /\ \A k \in 1..rows : \A c \in 1..cols :
                 IsA(args[2 * c - 1].spelling, SubSeq(list, (k - 1) * cols + 1, k * cols)[c], <<>>) = "ok"
    BY <2>7, Zenon DEF RowsOK, RowOf
  <2> QED BY <2>1, <2>8, Zenon DEF TableIsTuples, Columns
<1> QED BY <1>1, TypesInvariant, PTL

\* A @typedef name, however long the chain behind it, validates what its base with its
\* arguments validates, whatever the order in which the names were added.
THEOREM NamesMeanTheirBases == Spec => []TypedefMeansBase
<1>1. IInv => TypedefMeansBase
  <2> SUFFICES ASSUME IInv, NEW name \in DOMAIN types \ BuiltIn
               PROVE  LET base == types[name].base
                          args == types[name].args
                      IN  /\ base \in DOMAIN types /\ CheckRule(base, args) = "ok"
                          /\ types[name].cfgType = types[base].cfgType
                          /\ ValidateEntry(name, <<>>) = ValidateEntry(base, args)
    BY DEF TypedefMeansBase
  <2>1. PICK base, args : base = types[name].base /\ args = types[name].args
    OBVIOUS
  <2>2. /\ base \in DOMAIN types /\ args \in Seq(Text) /\ CheckRule(base, args) = "ok"
        /\ types[name].cfgType = types[base].cfgType
    BY <2>1 DEF IInv, TypesOK
  <2>3. name \in UserDefined
    BY UsersAreNew DEF IInv
  <2>4. Base[name] = IF base \in UserDefined THEN Base[base] ELSE [type |-> base, args |-> args]
    <3>1. IsMeaning(Base, types) /\ UserDefined = UsersOf(types)
      BY BaseIsMeaning DEF IInv, MeaningsOK
    <3> QED BY <2>1, <2>3, <3>1 DEF IsMeaning
  <2>5. Resolved(name, <<>>) = Resolved(base, args)
    BY <2>3, <2>4 DEF Resolved
  <2>6. CheckRule(name, <<>>) = "ok"
    BY DEF CheckRule, BuiltIn, TypedefCheckRule, NoArguments, Demand
  <2>7. ValidateEntry(name, <<>>) = BuiltInValidate(Resolved(name, <<>>).type, Resolved(name, <<>>).args)
    <3>1. name \in DOMAIN types /\ <<>> \in Seq(Text) /\ TypesOK /\ MeaningsOK
      BY DEF IInv
    <3>2. PICK none : none = <<>>
      OBVIOUS
    <3>3. ValidateEntry(name, none) = BuiltInValidate(Resolved(name, none).type, Resolved(name, none).args)
      BY <2>6, <3>1, <3>2, MeaningIsBuiltIn
    <3> QED BY <3>2, <3>3
  <2>8. ValidateEntry(base, args) = BuiltInValidate(Resolved(base, args).type, Resolved(base, args).args)
    BY <2>2, MeaningIsBuiltIn DEF IInv
  <2> QED BY <2>1, <2>2, <2>5, <2>7, <2>8
<1> QED BY <1>1, TypesInvariant, PTL

\* A look-up of a missing entry gives back the default, for every default that a float
\* holds, although it is printed and parsed again on the way.
THEOREM MissingEntriesGiveDefaults == Spec => AbsentGivesDefault
<1>1. IInv /\ [Next]_vars =>
        [\A d \in Defaults :
           /\ entry = NoEntry /\ LookUpOr(d)
           /\ Meaning.type \notin {"durationMicroseconds", "memorySizeBytes"}
           /\ d \in -FloatLimit..FloatLimit
           => Succeeds(answer') /\ answer'.value = DefaultOf(Meaning.type, d).value]_vars
  <2> SUFFICES ASSUME IInv, NEW d \in Defaults, entry = NoEntry, LookUpOr(d),
                      Meaning.type \notin {"durationMicroseconds", "memorySizeBytes"},
                      d \in -FloatLimit..FloatLimit
               PROVE  Succeeds(answer') /\ answer'.value = DefaultOf(Meaning.type, d).value
    OBVIOUS
  <2>1. PICK r : r = Resolved(rule.type, rule.args)
    OBVIOUS
  <2>2. rule # NoRule /\ HasDefault(r.type) /\ answer' = LookUpAsOr(r, d)
    BY <2>1 DEF LookUpOr
  <2>3. r = Meaning
    BY <2>1, <2>2 DEF Meaning
  <2>4. r.type \in BuiltIn
    BY <2>1, <2>2, MeaningIsBuiltIn DEF IInv, RuleOK
  <2>5. Succeeds(LookUpAsOr(r, d)) /\ LookUpAsOr(r, d).value = DefaultOf(r.type, d).value
    BY <2>2, <2>3, <2>4, MissingGivesDefault
  <2> QED BY <2>2, <2>3, <2>5
<1> QED BY <1>1, TypesInvariant, PTL DEF Spec, AbsentGivesDefault

=============================================================================
