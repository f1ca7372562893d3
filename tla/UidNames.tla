------------------------------- MODULE UidNames -------------------------------
(***************************************************************************)
(* UidIdentifierProcessor: names with the prefix uid- are given a number   *)
(* when they are read, so that entries that are spelled alike differ, and  *)
(* lose it when they are shown.  A name is a sequence of characters.       *)
(***************************************************************************)
EXTENDS TextFunctions

CONSTANTS
  Base,   \* the number system: ten in the code
  Width   \* digits of a number: nine in the code

ASSUME NumbersHaveDigits == Base \in 2..10 /\ Width \in Nat \ {0}

\* The powers of Base.
Power[k \in 0..Width] == IF k = 0 THEN 1 ELSE Base * Power[k - 1]
Limit == Power[Width]

UidToken == <<"u", "i", "d", "-">>
Dash == "-"
DigitSeq == <<"0", "1", "2", "3", "4", "5", "6", "7", "8", "9">>
IsDigit(c) == Contains(DigitSeq, c)

\* The number n, filled with zeros in front.
Digits(n) == [i \in 1..Width |-> DigitSeq[((n \div Power[Width - i]) % Base) + 1]]

\* splitScopes: no part is left for a dot at the end.
SplitScopes(name) ==
  LET parts == Split(name, <<".">>)
  IN  IF Len(parts) > 1 /\ Last(parts) = << >> THEN Front(parts) ELSE parts

StartsWithUidToken(name) == IsPrefix(UidToken, name)

\* What stands behind uid-, and its number of leading digits.
Payload(name) == From(name, Len(UidToken) + 1)
LeadingDigits(text) ==
  LET i == SelectInSeq(text, LAMBDA c : ~IsDigit(c))
  IN  IF i = 0 THEN Len(text) ELSE i - 1

HasValidPrefix(name) == Payload(name) # << >> /\ Payload(name)[1] # Dash
\* rest: from behind the digits
HasValidPayload(rest) ==
  Len(rest) > 1 /\ rest[1] = Dash /\ rest[2] # Dash /\ ~IsDigit(rest[2])

\* The result of a call: a name and m_count, or the exception.
Named(name, count)  == [exc |-> "none", name |-> name, count |-> count]
Thrown(exc, count)  == [exc |-> exc, name |-> << >>, count |-> count]

\* Mutant: the numbers are not filled with zeros.
FormatExpandedBare(suffix, count) ==
  IF count >= Limit THEN Thrown("foreign", count)
  ELSE Named(UidToken \o From(Digits(count), Width - (IF count < Base THEN 0 ELSE 1))
               \o <<Dash>> \o suffix, count + 1)

\* formatExpanded and nextCount: a std::domain_error when the digits are used up.
FormatExpanded(suffix, count) ==
  IF count >= Limit THEN Thrown("foreign", count)
  ELSE Named(UidToken \o Digits(count) \o <<Dash>> \o suffix, count + 1)

ExpandOne(name, count) ==
  LET n    == LeadingDigits(Payload(name))
      rest == From(Payload(name), n + 1)
  IN  CASE ~StartsWithUidToken(name) -> Named(name, count)
        [] StartsWithUidToken(name) /\ (~HasValidPrefix(name) \/ (n > 0 /\ ~HasValidPayload(rest)))
             -> Thrown("config", count)
        [] OTHER -> FormatExpanded(IF n = 0 THEN rest ELSE Tail(rest), count)

\* A name of digits only behind uid- ends where the string constructor begins:
\* it throws a std::length_error.
UnexpandOne(name) ==
  LET n    == LeadingDigits(Payload(name))
      rest == From(Payload(name), n + 1)
  IN  IF ~StartsWithUidToken(name) \/ n = 0 THEN Named(name, 0)
      ELSE IF rest = << >> THEN Thrown("foreign", 0) ELSE Named(UidToken \o Tail(rest), 0)

\* The parts between the dots one after the other, each with the number behind
\* those taken before; the first exception ends it, and its numbers stay taken.
PartByPart(parts, count, One(_, _)) ==
  LET taken(i) == Cardinality({j \in 1..(i - 1) : StartsWithUidToken(parts[j])})
  IN  [i \in DOMAIN parts |-> One(parts[i], count + taken(i))]
Together(results) ==
  LET failed == {i \in DOMAIN results : results[i].exc # "none"}
  IN  IF failed # {} THEN results[Min(failed)]
      ELSE Named(Join([i \in DOMAIN results |-> results[i].name], <<".">>),
                 Last(results).count)
\* (the intermediate results are bound, not abbreviated, for TLC's sake)
EachPart(name, count, One(_, _)) ==
  IF Find(name, UidToken) = 0 THEN Named(name, count)
  ELSE CHOOSE result \in {Together(results) :
         results \in {PartByPart(parts, count, One) : parts \in {SplitScopes(name)}}} : TRUE

Expand(name, count) == EachPart(name, count, ExpandOne)
Unexpand(name) == EachPart(name, 0, LAMBDA part, none : UnexpandOne(part))

\* ConfigurationImpl: two names that differ in their numbers only.
UidEquals(name1, name2) == Unexpand(name1).name = Unexpand(name2).name

=============================================================================
