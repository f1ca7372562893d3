----------------------------- MODULE LexerProofs -----------------------------
(***************************************************************************)
(* For every source: the lines the lexer counts, the numbers it gives to   *)
(* names with uid-, and that it reads nothing but characters.              *)
(***************************************************************************)
EXTENDS Lexer, TextTheorems, FiniteSetTheorems

----------------------------------------------------------------------------
(* Sequences of whatever. *)

IsSeq(s) == Len(s) \in Nat /\ s = [i \in 1..Len(s) |-> s[i]]

LEMMA AppendToSeq ==
  ASSUME NEW s, IsSeq(s), NEW x
  PROVE  /\ IsSeq(Append(s, x))
         /\ \A i \in DOMAIN Append(s, x) : (i \in DOMAIN s /\ Append(s, x)[i] = s[i])
                                           \/ Append(s, x)[i] = x
<1> DEFINE S == {s[i] : i \in 1..Len(s)} \cup {x}
           n == Len(s)
<1>1. n \in Nat /\ s = [i \in 1..n |-> s[i]] /\ \A i \in 1..n : s[i] \in S
  BY DEF IsSeq
<1> HIDE DEF S, n
<1>2. [i \in 1..n |-> s[i]] \in Seq(S)
  BY <1>1
<1>3. s \in Seq(S) /\ x \in S
  BY <1>1, <1>2 DEF S
<1>4. Append(s, x) \in Seq(S) /\ Len(Append(s, x)) = Len(s) + 1
  BY <1>3
<1>5. \A i \in DOMAIN Append(s, x) : (i \in DOMAIN s /\ Append(s, x)[i] = s[i])
                                     \/ Append(s, x)[i] = x
  BY <1>3
<1>6. \A t \in Seq(S) : IsSeq(t)
  BY DEF IsSeq
<1> QED BY <1>4, <1>5, <1>6

LEMMA Positions ==
  ASSUME NEW S, NEW b \in Seq(S)
  PROVE  /\ 1 \in 1..(Len(b) + 1)
         /\ \A i \in DOMAIN b : i \in Nat /\ i # 0 /\ ~(i < 1) /\ i + 1 \in 1..(Len(b) + 1)
         /\ \A p \in 1..(Len(b) + 1) :
              IF p > Len(b) THEN p = Len(b) + 1
              ELSE p \in DOMAIN b /\ p <= Len(b) /\ p + 1 \in 1..(Len(b) + 1)
<1> DEFINE n == Len(b)
<1>1. n \in Nat /\ DOMAIN b = 1..n
  OBVIOUS
<1> HIDE DEF n
<1>2. 1 \in 1..(n + 1) /\ \A i \in 1..n : i \in Nat /\ i # 0 /\ ~(i < 1) /\ i + 1 \in 1..(n + 1)
  BY <1>1
<1>3. \A p \in 1..(n + 1) :
        IF p > n THEN p = n + 1 ELSE p \in 1..n /\ p <= n /\ p + 1 \in 1..(n + 1)
  BY <1>1
<1> QED BY <1>1, <1>2, <1>3, Zenon DEF n

----------------------------------------------------------------------------
(* Bytes and lines of a sequence of bytes b. *)

NextIn(b, p) ==
  CHOOSE q \in p..(Len(b) + 1) :
    /\ q > Len(b) \/ b[q] # "CR"
    /\ \A r \in p..(q - 1) : b[r] = "CR"

NewLines(b, p) == {q \in DOMAIN b : q < p /\ b[q] = "NL"}
LineIn(b, p) == 1 + Cardinality(NewLines(b, p))

LEMMA NextIs ==
  ASSUME NEW B, NEW b \in Seq(B), NEW p \in 1..(Len(b) + 1)
  PROVE  /\ NextIn(b, p) \in p..(Len(b) + 1)
         /\ NextIn(b, p) > Len(b) \/ b[NextIn(b, p)] # "CR"
         /\ \A r \in p..(NextIn(b, p) - 1) : b[r] = "CR"
<1> DEFINE n == Len(b)
           T == {q \in p..(n + 1) : q > n \/ b[q] # "CR"}
<1>1. n \in Nat /\ p \in Nat /\ n + 1 \in p..(n + 1)
  OBVIOUS
<1>2. T \subseteq Nat /\ n + 1 \in T
  BY <1>1
<1> HIDE DEF T
<1>3. PICK q \in T : \A r \in T : ~(<<r, q>> \in OpToRel(<, Nat))
  BY <1>2, NatLessThanWellFounded, WFMin
<1>4. \A r \in T : ~(r < q)
  BY <1>2, <1>3 DEF OpToRel
<1>5. q \in p..(n + 1) /\ (q > n \/ b[q] # "CR")
  BY DEF T
<1>6. \A r \in p..(q - 1) : b[r] = "CR"
  <2> SUFFICES ASSUME NEW r \in p..(q - 1) PROVE b[r] = "CR"
    OBVIOUS
  <2>1. r < q /\ r \in p..(n + 1)
    BY <1>1, <1>5
  <2> QED BY <1>4, <2>1 DEF T
<1>7. \E x \in p..(Len(b) + 1) :
        /\ x > Len(b) \/ b[x] # "CR"
        /\ \A r \in p..(x - 1) : b[r] = "CR"
  BY <1>5, <1>6
<1> QED BY <1>7 DEF NextIn

\* Line ends between two positions are what the numbers of their lines differ in.
LEMMA LinesBetween ==
  ASSUME NEW B, NEW b \in Seq(B), NEW p \in Nat, NEW q \in Nat, p <= q
  PROVE  /\ LineIn(b, p) \in Nat
         /\ (\A r \in DOMAIN b : p <= r /\ r < q => b[r] # "NL") => LineIn(b, q) = LineIn(b, p)
         /\ p \in DOMAIN b /\ b[p] = "NL" => LineIn(b, p + 1) = LineIn(b, p) + 1
<1>1. IsFiniteSet(1..Len(b)) /\ DOMAIN b = 1..Len(b) /\ Len(b) \in Nat
  BY FS_Interval
<1>2. IsFiniteSet(NewLines(b, p))
  BY <1>1, FS_Subset DEF NewLines
<1>3. Cardinality(NewLines(b, p)) \in Nat
  BY <1>2, FS_CardinalityType
<1>4. ASSUME \A r \in DOMAIN b : p <= r /\ r < q => b[r] # "NL"
      PROVE  NewLines(b, q) = NewLines(b, p)
  BY <1>1, <1>4 DEF NewLines
<1>5. ASSUME p \in DOMAIN b, b[p] = "NL" PROVE LineIn(b, p + 1) = LineIn(b, p) + 1
  <2>1. NewLines(b, p + 1) = NewLines(b, p) \cup {p} /\ p \notin NewLines(b, p)
    BY <1>1, <1>5 DEF NewLines
  <2>2. Cardinality(NewLines(b, p) \cup {p}) = Cardinality(NewLines(b, p)) + 1
    BY <1>2, <2>1, FS_AddElement
  <2>3. LineIn(b, p + 1) = 1 + (Cardinality(NewLines(b, p)) + 1)
    BY <2>1, <2>2, Zenon DEF LineIn
  <2> DEFINE c == Cardinality(NewLines(b, p))
  <2>4. LineIn(b, p) = 1 + c /\ c \in Nat
    BY <1>3 DEF LineIn
  <2> HIDE DEF c
  <2>5. 1 + (c + 1) = (1 + c) + 1
    BY <2>4
  <2> QED BY <2>3, <2>4, <2>5 DEF c
<1> QED BY <1>3, <1>4, <1>5 DEF LineIn

----------------------------------------------------------------------------
(* What a step reads. *)

\* The end of the source is seen before more is read.
Reads == NextChar /\ ~AtEOF
NoneRead == UNCHANGED <<pos, ch, line>>
AtEnd == exc = "none" /\ ch.byte = "" => ch = EndChar

\* Each step reads on or stays, and one ends the tokens.
StepReads ==
  /\ exc = "none" /\ UNCHANGED source
  /\ Reads \/ NoneRead
  /\ mode' = "done" => Stay /\ ch.byte = ""

LEMMA NotDone ==
  /\ \A type, text, since : ReturnToken(type, text, since) => mode' # "done"
  /\ \A m, text : Begin(m, text) => mode' = m
  /\ \A text : GoOn(text) => mode' = mode
<1>1. ASSUME NEW type, NEW text, NEW since, ReturnToken(type, text, since) PROVE mode' # "done"
  <2>1. mode' = "between"
    BY <1>1, Zenon DEF ReturnToken
  <2> QED BY <2>1
<1>2. ASSUME NEW m, NEW text, Begin(m, text) PROVE mode' = m
  BY <1>2, Zenon DEF Begin
<1>3. ASSUME NEW text, GoOn(text) PROVE mode' = mode
  BY <1>3 DEF GoOn
<1> QED BY <1>1, <1>2, <1>3, Zenon

LEMMA EachStepReads == AtEnd /\ Next => StepReads
<1> SUFFICES ASSUME AtEnd, Next PROVE StepReads
  OBVIOUS
<1>0. exc = "none" /\ AtEOF =>
        ch.byte = "" /\ ch.class # "space" /\ ~IsIdentifierChar(ch) /\ ~IsKeywordChar(ch)
  <2> SUFFICES ASSUME exc = "none", AtEOF PROVE
        ch.byte = "" /\ ch.class # "space" /\ ~IsIdentifierChar(ch) /\ ~IsKeywordChar(ch)
    OBVIOUS
  <2>1. ch.byte = "" /\ ch.class = "sign"
    <3>1. EndChar.class = "sign"
      BY DEF EndChar
    <3> QED BY <3>1, Zenon DEF AtEnd, AtEOF
  <2>2. "" \notin IdentSign
    BY DEF IdentSign, Dash, Slash
  <2> QED BY <2>1, <2>2 DEF IsIdentifierChar, IsKeywordChar
<1>a. Stay => NoneRead
  BY DEF Stay, NoneRead
<1>1. CASE SkipSpace
  <2>1. In("between") /\ NextChar /\ UNCHANGED <<source, mode>> /\ ch.class = "space"
    BY <1>1 DEF SkipSpace
  <2> QED BY <1>0, <2>1 DEF StepReads, In, Reads
<1>2. CASE EndOfSource
  BY <1>2, <1>a DEF EndOfSource, StepReads, In, AtEOF
<1>3. CASE SingleChar
  <2>1. In("between") /\ NextChar /\ ~AtEOF /\ UNCHANGED source /\ mode' # "done"
    BY <1>3, NotDone DEF SingleChar, AtToken
  <2> QED BY <2>1 DEF StepReads, In, Reads
<1>4. CASE FirstOfPair \/ BeginKeyword \/ BeginComment \/ BeginString \/ BeginBlock \/ BeginIdent
  <2>1. In("between") /\ NextChar /\ ~AtEOF /\ UNCHANGED source
    BY <1>4 DEF FirstOfPair, BeginKeyword, BeginComment, BeginString, BeginBlock, BeginIdent, AtToken
  <2>2. mode' \in {"pair", "keyword", "comment", "string", "angle", "ident"}
    BY <1>4, NotDone
       DEF FirstOfPair, BeginKeyword, BeginComment, BeginString, BeginBlock, BeginIdent
  <2>3. mode' # "done"
    BY <2>2
  <2> QED BY <2>1, <2>3 DEF StepReads, In, Reads
<1>5. CASE SecondOfPair
  <2>1. exc = "none" /\ UNCHANGED source
    BY <1>5 DEF SecondOfPair, In
  <2>2. /\ (NextChar /\ \E pair \in Pairs : pair[2] = ch.byte) \/ Stay
        /\ mode' # "done"
    BY <1>5, NotDone, Zenon DEF SecondOfPair
  <2>3. \A pair \in Pairs : pair[2] # ""
    <3>1. \A pair \in Pairs : pair[2] \in {"=", "&", "|"}
      BY DEF Pairs
    <3> QED BY <3>1
  <2>4. Reads \/ NoneRead
    BY <1>a, <2>2, <2>3, Zenon DEF Reads, AtEOF
  <2> QED BY <2>1, <2>2, <2>4, Zenon DEF StepReads
<1>6. CASE InKeyword
  <2>1. mode = "keyword" /\ exc = "none" /\ UNCHANGED source
    BY <1>6 DEF InKeyword, In
  <2>2. ((NextChar /\ IsKeywordChar(ch)) \/ Stay) /\ (mode' # "done" \/ mode' = mode)
    BY <1>6, NotDone, Zenon DEF InKeyword
  <2>3. mode' # "done"
    BY <2>1, <2>2
  <2>4. Reads \/ NoneRead
    BY <1>0, <1>a, <2>1, <2>2, Zenon DEF Reads
  <2> QED BY <2>1, <2>3, <2>4, Zenon DEF StepReads
<1>7. CASE InComment
  <2>1. exc = "none" /\ UNCHANGED source /\ (Reads \/ NoneRead)
        /\ (mode' = "between" \/ mode' = "comment")
    BY <1>7, <1>a, Zenon DEF InComment, In, Reads
  <2>2. mode' # "done"
    BY <2>1
  <2> QED BY <2>1, <2>2, Zenon DEF StepReads
<1>8. CASE InString
  <2>1. mode = "string" /\ exc = "none" /\ UNCHANGED source
    BY <1>8 DEF InString, In
  <2>2. /\ (NextChar /\ (ch.byte = "\"" \/ ~EndOfLine \/ ch.byte = "%")) \/ Stay
        /\ mode' # "done" \/ mode' = mode \/ mode' = "escape"
    BY <1>8, NotDone DEF InString
  <2>3. mode' # "done"
    BY <2>1, <2>2
  <2>4. Reads \/ NoneRead
    BY <1>a, <2>2 DEF Reads, EndOfLine, AtEOF
  <2> QED BY <2>1, <2>3, <2>4, Zenon DEF StepReads
<1>9. CASE InEscape
  <2>1. mode = "escape" /\ exc = "none" /\ UNCHANGED source
    BY <1>9 DEF InEscape, In
  <2>2. /\ (NextChar /\ ~EndOfLine) \/ Stay \/ UNCHANGED <<pos, ch, line>>
        /\ mode' # "done" \/ mode' = mode \/ mode' = "string"
    BY <1>9, NotDone DEF InEscape
  <2>3. mode' # "done"
    BY <2>1, <2>2
  <2>4. Reads \/ NoneRead
    BY <1>a, <2>2 DEF Reads, EndOfLine, NoneRead
  <2> QED BY <2>1, <2>3, <2>4, Zenon DEF StepReads
<1>10. CASE AfterAngle
  <2>1. exc = "none" /\ UNCHANGED source
    BY <1>10 DEF AfterAngle, In
  <2>2. ((NextChar /\ ch.byte = "%") \/ Stay) /\ (mode' # "done" \/ mode' = "block")
    BY <1>10, NotDone DEF AfterAngle
  <2>3. mode' # "done"
    BY <2>2
  <2>4. Reads \/ NoneRead
    BY <1>a, <2>2 DEF Reads, AtEOF
  <2> QED BY <2>1, <2>3, <2>4, Zenon DEF StepReads
<1>11. CASE InBlock
  <2>1. mode = "block" /\ exc = "none" /\ UNCHANGED source
    BY <1>11 DEF InBlock, In
  <2>2. /\ (NextChar /\ (ch.byte = ">" \/ ~AtEOF)) \/ Stay
        /\ mode' # "done" \/ mode' = mode
    BY <1>11, NotDone DEF InBlock
  <2>3. mode' # "done"
    BY <2>1, <2>2
  <2>4. Reads \/ NoneRead
    BY <1>a, <2>2 DEF Reads, AtEOF
  <2> QED BY <2>1, <2>3, <2>4, Zenon DEF StepReads
<1>12. CASE InIdent
  <2>1. mode = "ident" /\ exc = "none" /\ UNCHANGED source
    BY <1>12 DEF InIdent, In
  <2>2. \/ /\ NextChar /\ (~AtEOF \/ ch.byte = "(")
           /\ mode' # "done" \/ mode' = mode
        \/ ReturnIdent /\ UNCHANGED <<pos, ch, line>>
    BY <1>12, NotDone DEF InIdent
  <2>3. CASE ReturnIdent /\ UNCHANGED <<pos, ch, line>>
    <3>1. mode' # "done" \/ mode' = mode
      BY <2>3, NotDone DEF ReturnIdent
    <3> QED BY <2>1, <2>3, <3>1 DEF StepReads, NoneRead
  <2>4. CASE NextChar /\ (~AtEOF \/ ch.byte = "(") /\ (mode' # "done" \/ mode' = mode)
    <3>1. mode' # "done" /\ ~AtEOF
      BY <2>1, <2>4 DEF AtEOF
    <3> QED BY <2>1, <2>4, <3>1, Zenon DEF StepReads, Reads
  <2> QED BY <2>2, <2>3, <2>4
<1>13. CASE UnknownChar
  <2>1. In("between") /\ NextChar /\ ~AtEOF /\ UNCHANGED source /\ mode' # "done"
    BY <1>13, NotDone DEF UnknownChar, AtToken
  <2> QED BY <2>1 DEF StepReads, In, Reads
<1> QED BY <1>1, <1>2, <1>3, <1>4, <1>5, <1>6, <1>7, <1>8, <1>9, <1>10, <1>11, <1>12, <1>13 DEF Next

----------------------------------------------------------------------------
(* The inductive invariant. *)

\* The byte that is read when the one at p has been.
NextTo(b, p) == NextIn(b, p + 1)

\* What LineOf says of a token of that type that begins at that byte.
LineInSource(b, type, at) ==
  CASE at = 0 -> LineIn(b, EndPlace)
    [] at # 0 /\ b[at] = "<" /\ type # "unknown" ->
         LineIn(b, NextTo(b, NextTo(b, at)) + 1)
    [] at # 0 /\ ~(b[at] = "<" /\ type # "unknown") -> LineIn(b, at)

\* The lexer is one character ahead, and has counted the lines up to there, or to
\* the end.
ReadsAhead(b) ==
  /\ ch.byte = "" => ch = EndChar /\ line = LineIn(b, EndPlace)
  /\ ch.byte # "" =>
       /\ ch.at \in DOMAIN b /\ b[ch.at] = ch.byte /\ pos = ch.at + 1
       /\ pos \in 1..(Len(b) + 1) /\ pos <= EndPlace /\ line = LineIn(b, pos)
  /\ ch.byte = "NL" => ch.class = "space"

\* What was noted when the token began is where it began; of a block string, where
\* what it says begins.
Noted(b) ==
  /\ mode \in {"pair", "keyword", "string", "escape", "ident", "angle"} =>
       begun.at \in DOMAIN b /\ begun.line = LineIn(b, begun.at)
  /\ mode \in {"pair", "keyword", "string", "escape", "ident"} => b[begun.at] # "<"
  /\ mode = "angle" => b[begun.at] = "<" /\ (ch.byte # "" => ch.at = NextTo(b, begun.at))
  /\ mode = "block" =>
       /\ begun.at \in DOMAIN b /\ b[begun.at] = "<"
       /\ begun.line = LineIn(b, NextTo(b, NextTo(b, begun.at)) + 1)

Numbered(b) ==
  /\ IsSeq(tokens)
  /\ \A i \in DOMAIN tokens : tokens[i].line = LineInSource(b, tokens[i].type, tokens[i].at)

LinesInv ==
  /\ source \in Source
  /\ Numbered(source.bytes)
  /\ exc = "none" => ReadsAhead(source.bytes) /\ Noted(source.bytes)

Counted == exc = "none" => ReadsAhead(source.bytes)

\* From p to what is read next the line does not change; it does behind a line end.
LEMMA LineToNext ==
  ASSUME NEW B, NEW b \in Seq(B), NEW p \in 1..(Len(b) + 1)
  PROVE  /\ NextIn(b, p) \in 1..(Len(b) + 1)
         /\ LineIn(b, p) \in Nat
         /\ NextIn(b, p) > Len(b) => /\ LineIn(b, NextIn(b, p) + 1) = LineIn(b, p)
                                     /\ LineIn(b, Len(b) + 1) = LineIn(b, p)
         /\ NextIn(b, p) <= Len(b) =>
              LineIn(b, NextIn(b, p) + 1) =
                IF b[NextIn(b, p)] = "NL" THEN LineIn(b, p) + 1 ELSE LineIn(b, p)
<1> DEFINE q == NextIn(b, p)
<1>1. q \in p..(Len(b) + 1) /\ \A r \in p..(q - 1) : b[r] = "CR"
  BY NextIs
<1>2. Len(b) \in Nat /\ DOMAIN b = 1..Len(b)
  OBVIOUS
<1> HIDE DEF q
<1>3. p \in Nat /\ q \in Nat /\ q + 1 \in Nat /\ p <= q /\ q <= q + 1 /\ q <= Len(b) + 1 /\ 1 <= q
  BY <1>1, <1>2
<1>4. LineIn(b, q) = LineIn(b, p) /\ LineIn(b, p) \in Nat
  <2>1. \A r \in DOMAIN b : p <= r /\ r < q => b[r] # "NL"
    BY <1>1, <1>2, <1>3
  <2> QED BY <1>3, <2>1, LinesBetween
<1>5. CASE q > Len(b)
  <2>1. q = Len(b) + 1
    BY <1>2, <1>3, <1>5
  <2>2. \A r \in DOMAIN b : q <= r /\ r < q + 1 => b[r] # "NL"
    BY <1>2, <1>3, <1>5
  <2>3. LineIn(b, q + 1) = LineIn(b, q)
    BY <1>3, <2>2, LinesBetween
  <2>4. ~(q <= Len(b))
    BY <1>2, <1>3, <1>5
  <2> QED BY <1>2, <1>3, <1>4, <2>1, <2>3, <2>4 DEF q
<1>6. CASE ~(q > Len(b))
  <2>1. q \in DOMAIN b
    BY <1>2, <1>3, <1>6
  <2>2. LineIn(b, q + 1) = IF b[q] = "NL" THEN LineIn(b, q) + 1 ELSE LineIn(b, q)
    <3>1. CASE b[q] = "NL"
      BY <1>3, <2>1, <3>1, LinesBetween
    <3>2. CASE b[q] # "NL"
      <4>1. \A r \in DOMAIN b : q <= r /\ r < q + 1 => b[r] # "NL"
        BY <1>2, <1>3, <3>2
      <4>2. LineIn(b, q + 1) = LineIn(b, q)
        BY <1>3, <4>1, LinesBetween
      <4> QED BY <3>2, <4>2
    <3> QED BY <3>1, <3>2
  <2> QED BY <1>2, <1>3, <1>4, <1>6, <2>2 DEF q
<1> QED BY <1>5, <1>6

LEMMA BytesOfSource ==
  ASSUME source \in Source
  PROVE  /\ source.bytes \in Seq(STRING \ {""})
         /\ \A i \in DOMAIN source.bytes : source.bytes[i] # ""
         /\ Len(source.bytes) \in Nat /\ DOMAIN source.bytes = 1..Len(source.bytes)
<1> DEFINE S == STRING \ {""}
           b == source.bytes
<1>1. b \in Seq(S)
  BY SourcesAreBytes
<1>2. "" \notin S
  OBVIOUS
<1> HIDE DEF S, b
<1>3. (\A i \in DOMAIN b : b[i] \in S) /\ Len(b) \in Nat /\ DOMAIN b = 1..Len(b)
  BY <1>1
<1>4. \A i \in DOMAIN b : b[i] # ""
  BY <1>2, <1>3
<1> QED BY <1>1, <1>3, <1>4 DEF S, b

LEMMA NextIndexIs == \A p : NextIndex(p) = NextIn(source.bytes, p)
BY DEF NextIndex, NextIn

LEMMA LineEndsAreSpace ==
  ASSUME NEW class \in Classes("NL")
  PROVE  class = "space"
<1>1. ~IsDigit("NL")
  BY DEF IsDigit, DigitSeq, Contains
<1> QED BY <1>1 DEF Classes, ClassOf, Lower, Blank

\* The end that the lexer sees: no byte before it is the sign for it, and it is such
\* a byte itself or behind the last one.
LEMMA EndPlaceIs ==
  ASSUME source \in Source
  PROVE  LET b == source.bytes
             n == Len(b)
         IN  /\ EndPlace \in 1..(n + 1)
             /\ \A p \in 1..n : p < EndPlace => ~IsEnd(b[p])
             /\ EndPlace <= n => IsEnd(b[EndPlace])
<1> DEFINE b == source.bytes
           n == Len(b)
           S == {p \in DOMAIN b : IsEnd(b[p])} \cup {n + 1}
<1>1. n \in Nat /\ DOMAIN b = 1..n
  BY BytesOfSource
<1>2. EndPlace = Min(S)
  BY DEF EndPlace
<1> HIDE DEF b, n
<1>3. S \subseteq Nat /\ S # {} /\ S \subseteq 1..(n + 1)
  BY <1>1
<1>4. Min(S) \in S /\ \A y \in S : Min(S) <= y
  BY <1>3, MinIs
<1>5. \A p \in 1..n : p < EndPlace => ~IsEnd(b[p])
  <2> SUFFICES ASSUME NEW p \in 1..n, p < EndPlace, IsEnd(b[p]) PROVE FALSE
    OBVIOUS
  <2>1. p \in S
    BY <1>1
  <2>2. EndPlace <= p /\ EndPlace \in Nat
    BY <1>2, <1>3, <1>4, <2>1
  <2> QED BY <1>1, <2>2
<1>6. EndPlace <= n => IsEnd(b[EndPlace])
  <2>1. ~(n + 1 <= n)
    BY <1>1
  <2> QED BY <1>2, <1>4, <2>1
<1> QED BY <1>2, <1>3, <1>4, <1>5, <1>6 DEF b, n

LEMMA EndStays == source' = source => EndPlace' = EndPlace
BY DEF EndPlace, IsEnd

\* Nothing is dropped at the end, so nextByte stops there.
LEMMA NextBeforeEnd ==
  ASSUME source \in Source, NEW p \in 1..(Len(source.bytes) + 1), p <= EndPlace
  PROVE  LET b == source.bytes
             q == NextIn(b, p)
         IN  /\ q \in p..(Len(b) + 1) /\ q <= EndPlace
             /\ q = EndPlace <=> (q > Len(b) \/ IsEnd(b[q]))
             /\ q # EndPlace => q \in DOMAIN b /\ q <= Len(b) /\ q + 1 <= EndPlace
             /\ \A r \in p..(q - 1) : b[r] = "CR"
<1> DEFINE b == source.bytes
           q == NextIn(b, p)
           n == Len(b)
           e == EndPlace
<1>1. /\ q \in p..(n + 1)
      /\ \A r \in p..(q - 1) : b[r] = "CR"
      /\ n \in Nat /\ DOMAIN b = 1..n
  BY BytesOfSource, NextIs
<1>2. /\ e \in 1..(n + 1) /\ p <= e /\ p \in 1..(n + 1)
      /\ \A r \in 1..n : r < e => ~IsEnd(b[r])
      /\ e <= n => IsEnd(b[e])
  BY EndPlaceIs
<1>3. ~IsEnd("CR")
  BY DEF IsEnd
<1> HIDE DEF b, q, n, e
<1>4. q <= e
  <2> SUFFICES ASSUME ~(q <= e) PROVE FALSE
    OBVIOUS
  <2>1. e \in p..(q - 1) /\ e <= n
    BY <1>1, <1>2
  <2> QED BY <1>1, <1>2, <1>3, <2>1
<1>5. q = e <=> (q > n \/ IsEnd(b[q]))
  <2>1. CASE q = e
    BY <1>1, <1>2, <2>1
  <2>2. CASE q # e
    <3>1. q \in 1..n /\ q < e /\ ~(q > n)
      BY <1>1, <1>2, <1>4, <2>2
    <3> QED BY <1>2, <2>2, <3>1
  <2> QED BY <2>1, <2>2
<1>6. q # e => q \in DOMAIN b /\ q <= n /\ q + 1 <= e
  BY <1>1, <1>2, <1>4
<1> QED BY <1>1, <1>4, <1>5, <1>6 DEF b, q, n, e

\* nextChar: the next character, or the end.
LEMMA NextCharIs ==
  ASSUME source \in Source, pos \in 1..(Len(source.bytes) + 1), pos <= EndPlace,
         NextChar, exc' = "none"
  PROVE  LET b == source.bytes
             q == NextIn(b, pos)
         IN  IF q = EndPlace THEN ch' = EndChar /\ UNCHANGED line
             ELSE /\ \E class \in Classes(b[q]) : ch' = [byte |-> b[q], class |-> class, at |-> q]
                  /\ pos' = q + 1 /\ ~Refuses(ch.byte, b[q])
                  /\ line' = IF b[q] = "NL" THEN line + 1 ELSE line
<1> DEFINE b == source.bytes
           q == NextIn(b, pos)
<1>1. NextIndex(pos) = q /\ (q = EndPlace <=> (q > Len(b) \/ IsEnd(b[q])))
  BY NextIndexIs, NextBeforeEnd
<1>2. \/ (q > Len(b) \/ IsEnd(b[q])) /\ ch' = EndChar /\ UNCHANGED line
      \/ exc' = "config"
      \/ /\ ~(q > Len(b)) /\ ~IsEnd(b[q])
         /\ \E class \in Classes(b[q]) : ch' = [byte |-> b[q], class |-> class, at |-> q]
         /\ pos' = q + 1 /\ ~Refuses(ch.byte, b[q])
         /\ line' = IF b[q] = "NL" THEN line + 1 ELSE line
  <2>1. Len(b) \in Nat /\ q \in pos..(Len(b) + 1)
    BY BytesOfSource, NextBeforeEnd
  <2>2. q <= Len(b) => ~(q > Len(b))
    BY <2>1
  <2> HIDE DEF q
  <2> QED BY <1>1, <2>2 DEF NextChar
<1> HIDE DEF b, q
<1> QED BY <1>1, <1>2 DEF b, q

LEMMA FirstCharIs ==
  ASSUME Init
  PROVE  LET b == source.bytes
             q == NextIn(b, 1)
         IN  /\ exc # "none" \/ q = EndPlace => ch = EndChar
             /\ exc = "none" /\ q = EndPlace => line = 1
             /\ exc = "none" /\ q # EndPlace =>
                  /\ \E class \in Classes(b[q]) : ch = [byte |-> b[q], class |-> class, at |-> q]
                  /\ pos = q + 1 /\ ~Refuses("", b[q])
                  /\ line = IF b[q] = "NL" THEN 2 ELSE 1
<1> DEFINE b == source.bytes
           q == NextIn(b, 1)
<1>1. source \in Source /\ NextIndex(1) = q
  BY NextIndexIs DEF Init
<1>2. 1 \in 1..(Len(b) + 1) /\ 1 <= EndPlace /\ Len(b) \in Nat
  <2>1. EndPlace \in 1..(Len(b) + 1) /\ Len(b) \in Nat
    BY <1>1, EndPlaceIs, BytesOfSource
  <2> QED BY <2>1
<1>3. /\ q = EndPlace <=> (q > Len(b) \/ IsEnd(b[q]))
      /\ q \in 1..(Len(b) + 1)
  BY <1>1, <1>2, NextBeforeEnd
<1>4. \/ (q > Len(b) \/ IsEnd(b[q])) /\ ch = EndChar /\ line = 1 /\ exc = "none"
      \/ ~(q > Len(b)) /\ ~IsEnd(b[q]) /\ ch = EndChar /\ exc = "config"
      \/ /\ ~(q > Len(b)) /\ ~IsEnd(b[q]) /\ exc = "none"
         /\ \E class \in Classes(b[q]) : ch = [byte |-> b[q], class |-> class, at |-> q]
         /\ pos = q + 1 /\ ~Refuses("", b[q])
         /\ line = IF b[q] = "NL" THEN 2 ELSE 1
  <2>1. q <= Len(b) => ~(q > Len(b))
    BY <1>2, <1>3
  <2> HIDE DEF q
  <2> QED BY <1>1, <2>1 DEF Init
<1> HIDE DEF b, q
<1> QED BY <1>3, <1>4 DEF b, q

LEMMA FromTo ==
  ASSUME NEW n \in Nat, NEW p \in 1..(n + 1), NEW q \in p..(n + 1)
  PROVE  /\ p \in Nat /\ q \in Nat /\ p <= q
         /\ \A r \in 1..n : p <= r /\ r < q => r \in p..(q - 1)
         /\ ~(q > n) => q <= n
OBVIOUS

\* The line counted up to there.
LEMMA LineAtEnd ==
  ASSUME source \in Source, NEW p \in 1..(Len(source.bytes) + 1), p <= EndPlace
  PROVE  LET b == source.bytes
             q == NextIn(b, p)
         IN  /\ q = EndPlace => /\ LineIn(b, q + 1) = LineIn(b, p)
                                /\ LineIn(b, EndPlace) = LineIn(b, p)
             /\ q # EndPlace =>
                  LineIn(b, q + 1) = IF b[q] = "NL" THEN LineIn(b, p) + 1 ELSE LineIn(b, p)
<1> DEFINE b == source.bytes
           q == NextIn(b, p)
           n == Len(b)
<1>1. /\ b \in Seq(STRING \ {""}) /\ n \in Nat /\ DOMAIN b = 1..n
      /\ p \in 1..(n + 1)
  BY BytesOfSource
<1>2. /\ q > n => LineIn(b, q + 1) = LineIn(b, p)
      /\ q <= n => LineIn(b, q + 1) = IF b[q] = "NL" THEN LineIn(b, p) + 1 ELSE LineIn(b, p)
  BY <1>1, LineToNext
<1>3. /\ q \in p..(n + 1) /\ (q = EndPlace <=> (q > n \/ IsEnd(b[q])))
      /\ q # EndPlace => q <= n
      /\ \A r \in p..(q - 1) : b[r] = "CR"
  BY NextBeforeEnd
<1>4. ~IsEnd("NL") /\ "CR" # "NL"
  BY DEF IsEnd
<1> HIDE DEF b, q, n
<1>5. LineIn(b, q) = LineIn(b, p)
  <2>1. p \in Nat /\ q \in Nat /\ p <= q
    BY <1>1, <1>3, FromTo, Zenon
  <2>2. \A r \in DOMAIN b : p <= r /\ r < q => b[r] # "NL"
    <3> SUFFICES ASSUME NEW r \in DOMAIN b, p <= r, r < q PROVE b[r] # "NL"
      OBVIOUS
    <3>1. r \in p..(q - 1)
      BY <1>1, <1>3, FromTo, Zenon
    <3> QED BY <1>3, <1>4, <3>1, Zenon
  <2> QED BY <1>1, <2>1, <2>2, LinesBetween
<1>6. CASE q = EndPlace
  <2>1. LineIn(b, q + 1) = LineIn(b, p)
    <3>1. CASE q > n
      BY <1>2, <3>1
    <3>2. CASE ~(q > n)
      <4>1. q <= n /\ b[q] # "NL"
        <5>1. q <= n
          BY <1>1, <1>3, <3>2, FromTo, Zenon
        <5>2. b[q] # "NL"
          BY <1>3, <1>4, <1>6, <3>2, Zenon
        <5> QED BY <5>1, <5>2
      <4> QED BY <1>2, <4>1
    <3> QED BY <3>1, <3>2
  <2> QED BY <1>5, <1>6, <2>1 DEF b, q
<1>7. CASE q # EndPlace
  BY <1>2, <1>3, <1>7 DEF b, q, n
<1> QED BY <1>6, <1>7

\* nextChar when there is a character ahead.
LEMMA ReadNext ==
  ASSUME source \in Source, source' = source, pos \in 1..(Len(source.bytes) + 1),
         pos <= EndPlace, line = LineIn(source.bytes, pos), NextChar, exc' = "none"
  PROVE  /\ ReadsAhead(source.bytes)'
         /\ ch'.byte # "" => ch'.at = NextIn(source.bytes, pos)
         /\ line' = LineIn(source.bytes, NextIn(source.bytes, pos) + 1)
<1> DEFINE b == source.bytes
           p == NextIn(b, pos)
<1>1. /\ b \in Seq(STRING \ {""}) /\ (\A i \in DOMAIN b : b[i] # "")
      /\ Len(b) \in Nat /\ DOMAIN b = 1..Len(b)
  BY BytesOfSource
<1>2. /\ p = EndPlace => LineIn(b, p + 1) = line /\ LineIn(b, EndPlace) = line
      /\ p # EndPlace => LineIn(b, p + 1) = IF b[p] = "NL" THEN line + 1 ELSE line
  BY LineAtEnd
<1>3. p # EndPlace => p \in DOMAIN b /\ p <= Len(b) /\ p + 1 <= EndPlace
  BY NextBeforeEnd
<1>4. b' = b /\ EndPlace' = EndPlace
  BY EndStays
<1>5. CASE p = EndPlace
  <2>1. ch' = EndChar /\ UNCHANGED line
    BY <1>5, NextCharIs
  <2>2. ch'.byte = ""
    BY <2>1 DEF EndChar
  <2> QED BY <1>2, <1>4, <1>5, <2>1, <2>2 DEF ReadsAhead, EndChar
<1>6. CASE p # EndPlace
  <2>2. /\ pos' = p + 1
        /\ line' = IF b[p] = "NL" THEN line + 1 ELSE line
        /\ \E class \in Classes(b[p]) : ch' = [byte |-> b[p], class |-> class, at |-> p]
    BY <1>6, NextCharIs
  <2> HIDE DEF p, b
  <2>1. p \in DOMAIN b /\ p <= Len(b) /\ p + 1 \in 1..(Len(b) + 1) /\ b[p] # ""
    BY <1>1, <1>3, <1>6, Positions, Zenon
  <2>3. ch'.byte = b[p] /\ ch'.at = p /\ (b[p] = "NL" => ch'.class = "space")
    BY <2>2, LineEndsAreSpace
  <2>4. line' = LineIn(b, p + 1)
    BY <1>2, <1>6, <2>2
  <2> QED BY <1>3, <1>6, <2>1, <2>2, <2>3, <2>4, <1>4 DEF ReadsAhead, p, b
<1> QED BY <1>5, <1>6

LEMMA NextCounted == LinesInv /\ Next => Counted'
<1> SUFFICES ASSUME LinesInv, Next, exc' = "none" PROVE ReadsAhead(source.bytes)'
  BY DEF Counted
<1>1. AtEnd
  BY DEF AtEnd, LinesInv, ReadsAhead
<1>2. StepReads
  BY <1>1, EachStepReads
<1>3. /\ exc = "none" /\ source' = source /\ (Reads \/ NoneRead)
      /\ source \in Source /\ ReadsAhead(source.bytes)
  BY <1>2 DEF StepReads, LinesInv
<1>4. CASE Reads
  <2>1. ch.byte # "" /\ NextChar
    BY <1>4 DEF Reads, AtEOF
  <2> QED BY <1>3, <2>1, ReadNext DEF ReadsAhead
<1>5. CASE NoneRead
  BY <1>3, <1>5, EndStays DEF NoneRead, ReadsAhead
<1> QED BY <1>3, <1>4, <1>5

\* At the first character of a token the line is the line of that character.
LEMMA HereIs ==
  ASSUME LinesInv, AtToken
  PROVE  /\ ch.at \in DOMAIN source.bytes /\ source.bytes[ch.at] = ch.byte
         /\ ch.at # 0 /\ pos = ch.at + 1
         /\ line = LineIn(source.bytes, ch.at)
<1> DEFINE b == source.bytes
           at == ch.at
<1>1. source \in Source /\ ReadsAhead(b) /\ ch.class # "space" /\ ch.byte # ""
  BY DEF LinesInv, AtToken, In, AtEOF
<1>2. /\ at \in DOMAIN b /\ b[at] = ch.byte /\ pos = at + 1 /\ line = LineIn(b, pos)
      /\ ch.byte # "NL"
  BY <1>1 DEF ReadsAhead
<1>3. b \in Seq(STRING \ {""}) /\ \A r \in DOMAIN b : r \in Nat /\ r # 0
  BY <1>1, BytesOfSource, Positions, Zenon
<1> HIDE DEF b, at
<1>4. at \in Nat /\ at # 0 /\ at + 1 \in Nat /\ at <= at + 1
  <2>1. at \in Nat /\ at # 0
    BY <1>2, <1>3, Zenon
  <2> QED BY <2>1
<1>5. \A r \in DOMAIN b : at <= r /\ r < at + 1 => b[r] # "NL"
  <2>1. \A r \in Nat : at <= r /\ r < at + 1 => r = at
    BY <1>4
  <2> QED BY <1>2, <1>3, <2>1, Zenon
<1>6. LineIn(b, at + 1) = LineIn(b, at)
  BY <1>3, <1>4, <1>5, LinesBetween
<1> QED BY <1>2, <1>4, <1>6 DEF b, at

LEMMA Returned ==
  ASSUME LinesInv, UNCHANGED source, NEW type, NEW text, NEW since,
         since.line = LineInSource(source.bytes, type, since.at),
         ReturnToken(type, text, since)
  PROVE  Numbered(source.bytes)' /\ Noted(source.bytes)'
<1> DEFINE token == [type |-> type, text |-> text, line |-> since.line, at |-> since.at]
<1>1. token.line = LineInSource(source.bytes, token.type, token.at)
  BY Zenon
<1>2. /\ Numbered(source.bytes) /\ source' = source
      /\ \A t, at : LineInSource(source.bytes, t, at)' = LineInSource(source.bytes, t, at)
  BY EndStays DEF LinesInv, LineInSource
<1>3. tokens' = tokens \/ tokens' = Append(tokens, token)
  BY Zenon DEF ReturnToken
<1>4. Noted(source.bytes)'
  BY DEF ReturnToken, Noted
<1> HIDE DEF token
<1>5. CASE tokens' = tokens
  BY <1>2, <1>4, <1>5 DEF Numbered
<1>6. CASE tokens' = Append(tokens, token)
  <2>1. IsSeq(tokens)
    BY <1>2 DEF Numbered
  <2>2. IsSeq(tokens') /\ \A i \in DOMAIN tokens' : (i \in DOMAIN tokens /\ tokens'[i] = tokens[i])
                                                    \/ tokens'[i] = token
    BY <1>6, <2>1, AppendToSeq
  <2> QED BY <1>1, <1>2, <1>4, <2>2 DEF Numbered
<1> QED BY <1>3, <1>5, <1>6

\* A token that begins with another sign than < is in the line of that sign.
LEMMA LineOfOther ==
  ASSUME NEW b, NEW type, NEW at, at # 0, b[at] # "<" \/ type = "unknown"
  PROVE  LineInSource(b, type, at) = LineIn(b, at)
BY DEF LineInSource

\* Which step it is does not matter if no token is returned and none begins.
LEMMA TokenGoesOn ==
  ASSUME LinesInv, exc = "none", UNCHANGED source, UNCHANGED tokens,
         Counted', exc' = "none" => Noted(source.bytes)'
  PROVE  LinesInv'
<1>1. Numbered(source.bytes)'
  <2>1. Numbered(source.bytes) /\ EndPlace' = EndPlace
    BY EndStays DEF LinesInv
  <2> QED BY <2>1 DEF Numbered, LineInSource
<1> QED BY <1>1 DEF LinesInv, Counted

LEMMA TokenReturned ==
  ASSUME LinesInv, exc = "none", UNCHANGED source, Counted',
         NEW type, NEW text, NEW since,
         since.line = LineInSource(source.bytes, type, since.at),
         ReturnToken(type, text, since)
  PROVE  LinesInv'
<1>1. Numbered(source.bytes)' /\ Noted(source.bytes)'
  BY Returned
<1> QED BY <1>1 DEF LinesInv, Counted

LEMMA TokenBegins ==
  ASSUME LinesInv, AtToken, UNCHANGED source, Counted', NEW m, NEW text, Begin(m, text),
         m \in {"pair", "keyword", "comment", "string", "ident"}, ch.byte # "<"
  PROVE  LinesInv'
<1>1. /\ ch.at \in DOMAIN source.bytes /\ source.bytes[ch.at] = ch.byte
      /\ line = LineIn(source.bytes, ch.at)
  BY HereIs
<1>2. begun' = [line |-> line, at |-> ch.at] /\ mode' = m /\ UNCHANGED tokens
  BY DEF Begin, Here
<1>3. begun'.at = ch.at /\ begun'.line = line
  BY <1>2
<1>4. Noted(source.bytes)'
  BY <1>1, <1>2, <1>3 DEF Noted
<1>5. exc = "none"
  BY DEF AtToken, In
<1> QED BY <1>2, <1>4, <1>5, TokenGoesOn

----------------------------------------------------------------------------
(* Every step keeps the invariant. *)

LEMMA InitLines == Init => LinesInv
<1> SUFFICES ASSUME Init PROVE LinesInv
  OBVIOUS
<1> DEFINE b == source.bytes
           p == NextIn(b, 1)
<1>1. source \in Source /\ mode = "between" /\ tokens = << >> /\ NextIndex(1) = p
  BY NextIndexIs DEF Init
<1>2. /\ b \in Seq(STRING \ {""}) /\ (\A i \in DOMAIN b : b[i] # "")
      /\ Len(b) \in Nat /\ DOMAIN b = 1..Len(b) /\ 1 \in 1..(Len(b) + 1) /\ 1 <= EndPlace
  <2>1. EndPlace \in 1..(Len(b) + 1) /\ Len(b) \in Nat
    BY <1>1, EndPlaceIs, BytesOfSource
  <2>2. 1 \in 1..(Len(b) + 1) /\ 1 <= EndPlace
    BY <2>1
  <2> QED BY <1>1, <2>2, BytesOfSource
<1>3. LineIn(b, 1) = 1
  <2>1. NewLines(b, 1) = {}
    BY <1>2, Positions, Zenon DEF NewLines
  <2> QED BY <2>1, FS_EmptySet DEF LineIn
<1>4. /\ p = EndPlace => LineIn(b, EndPlace) = 1
      /\ p # EndPlace => LineIn(b, p + 1) = IF b[p] = "NL" THEN 2 ELSE 1
  <2>1. LineIn(b, 1) + 1 = 2
    BY <1>3
  <2> QED BY <1>1, <1>2, <1>3, <2>1, LineAtEnd
<1>5. Numbered(b)
  BY <1>1 DEF Numbered, IsSeq
<1>6. Noted(b)
  BY <1>1 DEF Noted
<1>7. ASSUME exc = "none" PROVE ReadsAhead(b)
  <2>1. CASE p = EndPlace
    <3>1. ch = EndChar /\ line = 1
      BY <1>7, <2>1, FirstCharIs
    <3>2. ch.byte = ""
      BY <3>1 DEF EndChar
    <3> QED BY <1>4, <2>1, <3>1, <3>2 DEF ReadsAhead, EndChar
  <2>2. CASE p # EndPlace
    <3>1. /\ \E class \in Classes(b[p]) : ch = [byte |-> b[p], class |-> class, at |-> p]
          /\ pos = p + 1 /\ line = IF b[p] = "NL" THEN 2 ELSE 1
      BY <1>7, <2>2, FirstCharIs
    <3>2. p \in DOMAIN b /\ p <= Len(b) /\ p + 1 <= EndPlace
      BY <1>1, <1>2, <2>2, NextBeforeEnd
    <3> HIDE DEF b, p
    <3>4. p \in DOMAIN b /\ b[p] # "" /\ p <= Len(b) /\ p + 1 \in 1..(Len(b) + 1)
      BY <1>2, <3>2, Positions, Zenon
    <3>5. line = LineIn(b, pos)
      BY <1>4, <2>2, <3>1
    <3>6. ch.byte = b[p] /\ ch.at = p /\ (b[p] = "NL" => ch.class = "space")
      BY <3>1, LineEndsAreSpace
    <3> QED BY <3>1, <3>2, <3>4, <3>5, <3>6 DEF ReadsAhead
  <2> QED BY <2>1, <2>2
<1> QED BY <1>1, <1>5, <1>6, <1>7 DEF LinesInv

\* Tokens that began in an earlier step.
LEMMA ReturnBegun ==
  ASSUME LinesInv, exc = "none", mode \in {"pair", "keyword", "string", "escape", "ident"},
         UNCHANGED source, Counted', NEW type, NEW text, ReturnToken(type, text, begun)
  PROVE  LinesInv'
<1> DEFINE b == source.bytes
<1>1. begun.at \in DOMAIN b /\ begun.line = LineIn(b, begun.at) /\ b[begun.at] # "<"
  BY DEF LinesInv, Noted
<1>2. begun.at # 0
  BY <1>1, BytesOfSource, Positions, Zenon DEF LinesInv
<1>3. begun.line = LineInSource(b, type, begun.at)
  BY <1>1, <1>2, LineOfOther
<1> QED BY <1>3, TokenReturned

\* Signs that are tokens of their own, known or not.
LEMMA ReturnHere ==
  ASSUME LinesInv, AtToken, UNCHANGED source, Counted', NEW type, NEW text,
         ch.byte # "<" \/ type = "unknown", ReturnToken(type, text, Here)
  PROVE  LinesInv'
<1> DEFINE b == source.bytes
<1>1. b[ch.at] = ch.byte /\ ch.at # 0 /\ line = LineIn(b, ch.at) /\ exc = "none"
  BY HereIs DEF AtToken, In
<1>2. Here.line = line /\ Here.at = ch.at
  BY DEF Here
<1>3. Here.line = LineInSource(b, type, Here.at)
  BY <1>1, <1>2, LineOfOther
<1> QED BY <1>1, <1>3, TokenReturned

LEMMA BlockStep ==
  ASSUME LinesInv, Counted', AfterAngle \/ InBlock
  PROVE  LinesInv'
<1> DEFINE b == source.bytes
<1>1. CASE AfterAngle
  <2>1. /\ exc = "none" /\ mode = "angle" /\ UNCHANGED source /\ source \in Source
        /\ ReadsAhead(b) /\ Noted(b)
    BY <1>1 DEF AfterAngle, In, LinesInv
  <2>2. /\ begun.at \in DOMAIN b /\ begun.line = LineIn(b, begun.at) /\ b[begun.at] = "<"
        /\ ch.byte # "" => ch.at = NextTo(b, begun.at)
    BY <2>1 DEF Noted
  <2>3. begun.at # 0
    BY <2>1, <2>2, BytesOfSource, Positions, Zenon
  <2>4. CASE ch.byte = "%"
    <3>1. /\ NextChar /\ mode' = "block" /\ begun' = [begun EXCEPT !.line = line']
          /\ UNCHANGED <<word, tokens>>
      BY <1>1, <2>4 DEF AfterAngle
    <3>2. ASSUME exc' = "none" PROVE Noted(b)'
      <4>1. /\ pos \in 1..(Len(b) + 1) /\ pos <= EndPlace
            /\ line = LineIn(b, pos) /\ pos = ch.at + 1
        BY <2>1, <2>4 DEF ReadsAhead
      <4>2. line' = LineIn(b, NextIn(b, pos) + 1)
        BY <2>1, <3>1, <3>2, <4>1, ReadNext
      <4>3. line' = LineIn(b, NextTo(b, NextTo(b, begun.at)) + 1)
        BY <2>2, <2>4, <4>1, <4>2 DEF NextTo
      <4>4. begun'.at = begun.at /\ begun'.line = line'
        BY <3>1
      <4> QED BY <2>1, <2>2, <3>1, <4>3, <4>4 DEF Noted
    <3> QED BY <2>1, <3>1, <3>2, TokenGoesOn
  <2>5. CASE ch.byte # "%"
    <3>1. Stay /\ ReturnToken("unknown", <<"<">>, begun)
      BY <1>1, <2>5 DEF AfterAngle
    <3>2. begun.line = LineInSource(b, "unknown", begun.at)
      BY <2>2, <2>3, LineOfOther
    <3> QED BY <2>1, <3>1, <3>2, TokenReturned
  <2> QED BY <2>4, <2>5
<1>2. CASE InBlock
  <2>1. /\ exc = "none" /\ mode = "block" /\ UNCHANGED source /\ source \in Source
        /\ Noted(b)
    BY <1>2 DEF InBlock, In, LinesInv
  <2>2. /\ begun.at \in DOMAIN b /\ b[begun.at] = "<"
        /\ begun.line = LineIn(b, NextTo(b, NextTo(b, begun.at)) + 1)
    BY <2>1 DEF Noted
  <2>3. begun.at # 0
    BY <2>1, <2>2, BytesOfSource, Positions, Zenon
  <2>4. \A type : type # "unknown" => begun.line = LineInSource(b, type, begun.at)
    BY <2>2, <2>3 DEF LineInSource
  <2>5. \/ NextChar /\ ReturnToken("string", Front(word), begun)
        \/ Stay /\ ReturnToken("blockWithEof", word, begun)
        \/ NextChar /\ GoOn(Append(word, ch.byte))
    BY <1>2 DEF InBlock
  <2>6. CASE NextChar /\ ReturnToken("string", Front(word), begun)
    <3>1. begun.line = LineInSource(b, "string", begun.at)
      BY <2>4
    <3> QED BY <2>1, <2>6, <3>1, TokenReturned
  <2>7. CASE Stay /\ ReturnToken("blockWithEof", word, begun)
    <3>1. begun.line = LineInSource(b, "blockWithEof", begun.at)
      BY <2>4
    <3> QED BY <2>1, <2>7, <3>1, TokenReturned
  <2>8. CASE NextChar /\ GoOn(Append(word, ch.byte))
    <3>1. UNCHANGED <<mode, begun, tokens>>
      BY <2>8 DEF GoOn
    <3>2. Noted(b)'
      BY <2>1, <3>1 DEF Noted
    <3> QED BY <2>1, <2>8, <3>1, <3>2, TokenGoesOn
  <2> QED BY <2>5, <2>6, <2>7, <2>8
<1> QED BY <1>1, <1>2

LEMMA StringStep ==
  ASSUME LinesInv, Counted', InString \/ InEscape
  PROVE  LinesInv'
<1> DEFINE b == source.bytes
<1>1. exc = "none" /\ mode \in {"string", "escape"} /\ UNCHANGED source /\ Noted(b)
  BY DEF InString, InEscape, In, LinesInv
<1>2. CASE InString
  <2>1. \/ NextChar /\ ReturnToken("string", word, begun)
        \/ Stay /\ ReturnToken("stringWithEol", word, begun)
        \/ NextChar /\ mode' = "escape" /\ UNCHANGED <<word, begun, tokens>>
        \/ NextChar /\ GoOn(Append(word, ch.byte))
    BY <1>2 DEF InString
  <2>2. CASE NextChar /\ ReturnToken("string", word, begun)
    BY <1>1, <2>2, ReturnBegun
  <2>3. CASE Stay /\ ReturnToken("stringWithEol", word, begun)
    BY <1>1, <2>3, ReturnBegun
  <2>4. CASE NextChar /\ mode' = "escape" /\ UNCHANGED <<word, begun, tokens>>
    <3>1. Noted(b)'
      BY <1>1, <2>4 DEF Noted
    <3> QED BY <1>1, <2>4, <3>1, TokenGoesOn
  <2>5. CASE NextChar /\ GoOn(Append(word, ch.byte))
    <3>1. UNCHANGED <<mode, begun, tokens>>
      BY <2>5 DEF GoOn
    <3>2. Noted(b)'
      BY <1>1, <3>1 DEF Noted
    <3> QED BY <1>1, <2>5, <3>1, <3>2, TokenGoesOn
  <2> QED BY <2>1, <2>2, <2>3, <2>4, <2>5
<1>3. CASE InEscape
  <2>1. \/ Stay /\ ReturnToken("stringWithEol", word, begun)
        \/ NextChar /\ mode' = "string" /\ UNCHANGED <<begun, tokens>>
        \/ exc' = "config" /\ UNCHANGED tokens
    BY <1>3 DEF InEscape
  <2>2. CASE Stay /\ ReturnToken("stringWithEol", word, begun)
    BY <1>1, <2>2, ReturnBegun
  <2>3. CASE NextChar /\ mode' = "string" /\ UNCHANGED <<begun, tokens>>
    <3>1. Noted(b)'
      BY <1>1, <2>3 DEF Noted
    <3> QED BY <1>1, <2>3, <3>1, TokenGoesOn
  <2>4. CASE exc' = "config" /\ UNCHANGED tokens
    BY <1>1, <2>4, TokenGoesOn
  <2> QED BY <2>1, <2>2, <2>3, <2>4
<1> QED BY <1>2, <1>3

LEMMA IdentStep ==
  ASSUME LinesInv, Counted', InIdent
  PROVE  LinesInv'
<1> DEFINE b == source.bytes
           func == Append(word, "(")
           F == IF func \in Function THEN "function" ELSE "unknownFunction"
<1>1. exc = "none" /\ mode = "ident" /\ UNCHANGED source /\ Noted(b)
  BY DEF InIdent, In, LinesInv
<1>2. \/ NextChar /\ GoOn(Append(word, ch.byte))
      \/ NextChar /\ ReturnToken(F, func, begun)
      \/ ReturnIdent /\ UNCHANGED <<pos, ch, line, begun>>
  BY DEF InIdent
<1>3. CASE NextChar /\ GoOn(Append(word, ch.byte))
  <2>1. UNCHANGED <<mode, begun, tokens>>
    BY <1>3 DEF GoOn
  <2>2. Noted(b)'
    BY <1>1, <2>1 DEF Noted
  <2> QED BY <1>1, <1>3, <2>1, <2>2, TokenGoesOn
<1>4. CASE NextChar /\ ReturnToken(F, func, begun)
  <2> HIDE DEF F, func
  <2> QED BY <1>1, <1>4, ReturnBegun
<1>5. CASE ReturnIdent /\ UNCHANGED <<pos, ch, line, begun>>
  <2> DEFINE result == IF UidLexer THEN Expand(word, count) ELSE Named(word, count)
             name == result.name
  <2>1. \/ UNCHANGED exc /\ ReturnToken("soleDot", word, begun)
        \/ UNCHANGED exc /\ ReturnToken("twoDots", word, begun)
        \/ UNCHANGED exc /\ ReturnToken("ident", name, begun)
        \/ UNCHANGED exc /\ ReturnToken("illegalIdent", word, begun)
        \/ exc' # "none" /\ UNCHANGED tokens
    BY <1>5 DEF ReturnIdent
  <2> HIDE DEF name
  <2>2. UNCHANGED exc => Stay
    BY <1>5 DEF Stay
  <2>3. CASE UNCHANGED exc /\ ReturnToken("soleDot", word, begun)
    BY <1>1, <2>2, <2>3, ReturnBegun
  <2>4. CASE UNCHANGED exc /\ ReturnToken("twoDots", word, begun)
    BY <1>1, <2>2, <2>4, ReturnBegun
  <2>5. CASE UNCHANGED exc /\ ReturnToken("ident", name, begun)
    BY <1>1, <2>2, <2>5, ReturnBegun
  <2>6. CASE UNCHANGED exc /\ ReturnToken("illegalIdent", word, begun)
    BY <1>1, <2>2, <2>6, ReturnBegun
  <2>7. CASE exc' # "none" /\ UNCHANGED tokens
    BY <1>1, <2>7, TokenGoesOn
  <2> QED BY <2>1, <2>3, <2>4, <2>5, <2>6, <2>7
<1> QED BY <1>2, <1>3, <1>4, <1>5

\* Pairs of signs and keywords.
LEMMA WordStep ==
  ASSUME LinesInv, Counted', SecondOfPair \/ InKeyword
  PROVE  LinesInv'
<1> DEFINE b == source.bytes
<1>1. exc = "none" /\ mode \in {"pair", "keyword"} /\ UNCHANGED source /\ Noted(b)
  BY DEF SecondOfPair, InKeyword, In, LinesInv
<1>2. CASE SecondOfPair
  <2> DEFINE U == IF word[1] \in {"=", "!"} THEN word[1] ELSE "unknown"
  <2>1. \/ \E pair \in Pairs : NextChar /\ ReturnToken(pair[3], << >>, begun)
        \/ Stay /\ ReturnToken(U, << >>, begun)
    BY <1>2 DEF SecondOfPair
  <2> HIDE DEF U
  <2>2. ASSUME NEW T, NextChar, ReturnToken(T, << >>, begun) PROVE LinesInv'
    BY <1>1, <2>2, ReturnBegun
  <2>3. CASE Stay /\ ReturnToken(U, << >>, begun)
    BY <1>1, <2>3, ReturnBegun
  <2> QED BY <2>1, <2>2, <2>3, Zenon
<1>3. CASE InKeyword
  <2> DEFINE T == IF word \in Keyword THEN "keyword" ELSE "unknown"
  <2>1. \/ NextChar /\ GoOn(Append(word, ch.byte))
        \/ Stay /\ ReturnToken(T, word, begun)
    BY <1>3 DEF InKeyword
  <2> HIDE DEF T
  <2>2. CASE NextChar /\ GoOn(Append(word, ch.byte))
    <3>1. UNCHANGED <<mode, begun, tokens>>
      BY <2>2 DEF GoOn
    <3>2. Noted(b)'
      BY <1>1, <3>1 DEF Noted
    <3> QED BY <1>1, <2>2, <3>1, <3>2, TokenGoesOn
  <2>3. CASE Stay /\ ReturnToken(T, word, begun)
    BY <1>1, <2>3, ReturnBegun
  <2> QED BY <2>1, <2>2, <2>3
<1> QED BY <1>2, <1>3

LEMMA BeginStep ==
  ASSUME LinesInv, Counted', \/ FirstOfPair \/ BeginKeyword \/ BeginComment \/ BeginString \/ BeginIdent
  PROVE  LinesInv'
<1>1. UNCHANGED source /\ AtToken /\ NextChar
  BY DEF FirstOfPair, BeginKeyword, BeginComment, BeginString, BeginIdent
<1>2. ch.byte # "<"
  <2>1. \A pair \in Pairs : pair[1] # "<"
    BY DEF Pairs
  <2>2. "<" \in Special
    BY DEF Special
  <2> QED BY <2>1, <2>2 DEF FirstOfPair, BeginKeyword, BeginComment, BeginString, BeginIdent
<1>3. \/ Begin("pair", <<ch.byte>>) \/ Begin("keyword", <<"@">>) \/ Begin("comment", << >>)
      \/ Begin("string", << >>) \/ Begin("ident", <<ch.byte>>)
  BY DEF FirstOfPair, BeginKeyword, BeginComment, BeginString, BeginIdent
<1>4. CASE Begin("pair", <<ch.byte>>)
  BY <1>1, <1>2, <1>4, TokenBegins
<1>5. CASE Begin("keyword", <<"@">>)
  BY <1>1, <1>2, <1>5, TokenBegins
<1>6. CASE Begin("comment", << >>)
  BY <1>1, <1>2, <1>6, TokenBegins
<1>7. CASE Begin("string", << >>)
  BY <1>1, <1>2, <1>7, TokenBegins
<1>8. CASE Begin("ident", <<ch.byte>>)
  BY <1>1, <1>2, <1>8, TokenBegins
<1> QED BY <1>3, <1>4, <1>5, <1>6, <1>7, <1>8

LEMMA BeginBlockStep ==
  ASSUME LinesInv, Counted', BeginBlock
  PROVE  LinesInv'
<1> DEFINE b == source.bytes
<1>1. /\ UNCHANGED source /\ AtToken /\ NextChar /\ Begin("angle", << >>) /\ ch.byte = "<"
      /\ exc = "none" /\ source \in Source /\ ReadsAhead(b)
  BY DEF BeginBlock, AtToken, In, LinesInv
<1>2. /\ ch.at \in DOMAIN b /\ b[ch.at] = "<" /\ pos = ch.at + 1
      /\ line = LineIn(b, ch.at)
  BY <1>1, HereIs
<1>3. begun'.line = line /\ begun'.at = ch.at /\ mode' = "angle" /\ UNCHANGED tokens
  BY <1>1 DEF Begin, Here
<1>4. ASSUME exc' = "none" PROVE Noted(b)'
  <2>1. pos \in 1..(Len(b) + 1) /\ pos <= EndPlace /\ line = LineIn(b, pos)
    BY <1>1 DEF ReadsAhead
  <2>2. ch'.byte # "" => ch'.at = NextTo(b, ch.at)
    BY <1>1, <1>2, <1>4, <2>1, ReadNext DEF NextTo
  <2> QED BY <1>1, <1>2, <1>3, <2>2 DEF Noted
<1> QED BY <1>1, <1>3, <1>4, TokenGoesOn

LEMMA OtherStep ==
  ASSUME LinesInv, Counted', \/ SkipSpace \/ InComment \/ SingleChar \/ UnknownChar
  PROVE  LinesInv'
<1>1. CASE SkipSpace \/ InComment
  <2>1. exc = "none" /\ UNCHANGED <<source, tokens>> /\ (NextChar \/ Stay)
    BY <1>1 DEF SkipSpace, InComment, In
  <2>2. mode' \in {"between", "comment"}
    BY <1>1 DEF SkipSpace, InComment, In
  <2>3. Noted(source.bytes)'
    BY <2>2 DEF Noted
  <2> QED BY <2>1, <2>3, TokenGoesOn
<1>2. CASE SingleChar
  <2>1. /\ AtToken /\ NextChar /\ UNCHANGED source /\ ch.byte # "<"
        /\ ReturnToken(ch.byte, << >>, Here)
    BY <1>2 DEF SingleChar, Single
  <2> QED BY <2>1, ReturnHere
<1>3. CASE UnknownChar
  <2>1. /\ AtToken /\ NextChar /\ UNCHANGED source
        /\ ReturnToken("unknown", <<ch.byte>>, Here)
    BY <1>3 DEF UnknownChar
  <2> QED BY <2>1, ReturnHere
<1> QED BY <1>1, <1>2, <1>3

LEMMA EndStep ==
  ASSUME LinesInv, Counted', EndOfSource
  PROVE  LinesInv'
<1> DEFINE b == source.bytes
           eof == [type |-> "eof", text |-> << >>, line |-> line, at |-> 0]
<1>1. /\ exc = "none" /\ ch.byte = "" /\ Stay /\ UNCHANGED source
      /\ tokens' = Append(tokens, eof) /\ mode' = "done"
      /\ ReadsAhead(b) /\ Numbered(b)
  BY DEF EndOfSource, In, AtEOF, LinesInv
<1>2. /\ eof.line = LineInSource(b, eof.type, eof.at)
      /\ \A t, at : LineInSource(b, t, at)' = LineInSource(b, t, at)
  BY <1>1, EndStays DEF ReadsAhead, LineInSource
<1>3. Noted(b)'
  BY <1>1 DEF Noted
<1> HIDE DEF eof
<1>4. IsSeq(tokens') /\ \A i \in DOMAIN tokens' : (i \in DOMAIN tokens /\ tokens'[i] = tokens[i])
                                                  \/ tokens'[i] = eof
  BY <1>1, AppendToSeq DEF Numbered
<1>5. Numbered(b)'
  <2> DEFINE L(t, at) == LineInSource(b, t, at)
  <2>1. /\ IsSeq(tokens')
        /\ \A i \in DOMAIN tokens' : tokens'[i].line = L(tokens'[i].type, tokens'[i].at)
    <3> HIDE DEF L
    <3>1. \A i \in DOMAIN tokens : tokens[i].line = L(tokens[i].type, tokens[i].at)
      BY <1>1 DEF Numbered, L
    <3>2. eof.line = L(eof.type, eof.at)
      BY <1>2 DEF L
    <3> QED BY <1>4, <3>1, <3>2
  <2>2. \A t, at : LineInSource(b, t, at)' = L(t, at)
    BY <1>2
  <2> HIDE DEF L
  <2> QED BY <2>1, <2>2 DEF Numbered
<1> QED BY <1>1, <1>3, <1>5 DEF LinesInv, Counted

LEMMA NextLines == LinesInv /\ [Next]_vars => LinesInv'
<1> SUFFICES ASSUME LinesInv, [Next]_vars PROVE LinesInv'
  OBVIOUS
<1>0. Next => Counted'
  BY NextCounted
<1>1. CASE AfterAngle \/ InBlock
  BY <1>0, <1>1, BlockStep DEF Next
<1>2. CASE InString \/ InEscape
  BY <1>0, <1>2, StringStep DEF Next
<1>3. CASE InIdent
  BY <1>0, <1>3, IdentStep DEF Next
<1>4. CASE SecondOfPair \/ InKeyword
  BY <1>0, <1>4, WordStep DEF Next
<1>5. CASE FirstOfPair \/ BeginKeyword \/ BeginComment \/ BeginString \/ BeginIdent
  BY <1>0, <1>5, BeginStep DEF Next
<1>6. CASE BeginBlock
  BY <1>0, <1>6, BeginBlockStep DEF Next
<1>7. CASE SkipSpace \/ InComment \/ SingleChar \/ UnknownChar
  BY <1>0, <1>7, OtherStep DEF Next
<1>8. CASE EndOfSource
  BY <1>0, <1>8, EndStep DEF Next
<1>9. CASE UNCHANGED vars
  <2>1. EndPlace' = EndPlace /\ UNCHANGED vars
    BY <1>9, EndStays DEF vars
  <2> QED BY <2>1 DEF vars, LinesInv, Numbered, ReadsAhead, Noted, LineInSource
<1> QED BY <1>1, <1>2, <1>3, <1>4, <1>5, <1>6, <1>7, <1>8, <1>9 DEF Next

LEMMA LinesOfTokens == LinesInv => LinesAreRight
<1> SUFFICES ASSUME LinesInv, NEW i \in DOMAIN tokens PROVE tokens[i].line = LineOf(tokens[i])
  BY DEF LinesAreRight
<1> DEFINE b == source.bytes
<1>1. tokens[i].line = LineInSource(b, tokens[i].type, tokens[i].at)
  BY DEF LinesInv, Numbered
<1>2. \A p : LineAt(p) = LineIn(b, p)
  BY DEF LineAt, LineIn, NewLines
<1>3. \A p : NextByte(p) = NextTo(b, p)
  BY NextIndexIs DEF NextByte, NextTo
<1> QED BY <1>1, <1>2, <1>3 DEF LineOf, LineInSource, IsBlock

\* LexBase::nextToken: the number a token carries is that of the line its first
\* character stands in, whatever stands before it: comments, strings over several
\* lines, carriage returns, letters of two bytes.  A block string carries that of the
\* line the lexer has come to behind its first character.  For every source.
THEOREM LinesAlwaysRight == Spec => []LinesAreRight
<1>1. LinesInv /\ [Next]_vars => LinesInv'
  BY NextLines
<1> QED BY InitLines, <1>1, LinesOfTokens, PTL DEF Spec

----------------------------------------------------------------------------
(* The digits of numbers. *)

\* What a name is written with.
Byte == STRING \cup {"u", "i", "d", "-", ".", "0", "1", "2", "3", "4", "5", "6", "7", "8", "9"}

PowersTo(f, m) == f = [k \in 0..m |-> IF k = 0 THEN 1 ELSE Base * f[k - 1]]

LEMMA PowersExist == \E f : PowersTo(f, Width)
<1> DEFINE Bad == {m \in 0..Width : ~\E f : PowersTo(f, m)}
<1>0. Width \in Nat /\ Width # 0
  BY NumbersHaveDigits
<1> HIDE DEF Bad
<1>1. Bad = {}
  <2> SUFFICES ASSUME Bad # {} PROVE FALSE
    OBVIOUS
  <2>1. PICK m \in Bad : \A l \in Bad : m <= l
    <3>1. Bad \subseteq Nat
      BY <1>0 DEF Bad
    <3> QED BY <3>1, SmallestIs, Zenon
  <2>2. m \in 0..Width
    BY <2>1 DEF Bad
  <2>3. CASE m = 0
    <3> DEFINE g == [k \in 0..0 |-> 1]
    <3>1. PowersTo(g, 0)
      BY DEF PowersTo
    <3> QED BY <2>1, <2>3, <3>1 DEF Bad
  <2>4. CASE m # 0
    <3>1. m - 1 \in 0..Width /\ ~(m <= m - 1)
      BY <1>0, <2>2, <2>4
    <3>2. PICK f : PowersTo(f, m - 1)
      BY <2>1, <3>1 DEF Bad
    <3> DEFINE g == [k \in 0..m |-> IF k = m THEN Base * f[m - 1] ELSE f[k]]
    <3>3. \A k \in 0..m : g[k] = IF k = 0 THEN 1 ELSE Base * g[k - 1]
      <4> SUFFICES ASSUME NEW k \in 0..m PROVE g[k] = IF k = 0 THEN 1 ELSE Base * g[k - 1]
        OBVIOUS
      <4>1. CASE k = m
        <5>1. m - 1 \in 0..m /\ m - 1 # m
          BY <2>2, <2>4
        <5> QED BY <2>2, <2>4, <4>1, <5>1
      <4>2. CASE k # m
        <5>1. k \in 0..(m - 1) /\ (k # 0 => k - 1 \in 0..m /\ k - 1 # m)
          BY <2>2, <4>2
        <5>2. f[k] = IF k = 0 THEN 1 ELSE Base * f[k - 1]
          BY <3>2, <5>1 DEF PowersTo
        <5> QED BY <4>2, <5>1, <5>2
      <4> QED BY <4>1, <4>2
    <3>4. PowersTo(g, m)
      BY <3>3 DEF PowersTo
    <3> QED BY <2>1, <3>4 DEF Bad
  <2> QED BY <2>3, <2>4
<1> QED BY <1>0, <1>1 DEF Bad

LEMMA PowerIs ==
  /\ Power[0] = 1
  /\ \A k \in 1..Width : Power[k] = Base * Power[k - 1]
  /\ \A k \in 0..Width : Power[k] \in Nat \ {0}
<1>0. Width \in Nat /\ Width # 0 /\ Base \in Nat \ {0}
  BY NumbersHaveDigits
<1>1. PowersTo(Power, Width)
  BY PowersExist, Zenon DEF Power, PowersTo
<1>2. Power[0] = 1 /\ \A k \in 1..Width : Power[k] = Base * Power[k - 1]
  BY <1>0, <1>1 DEF PowersTo
<1> DEFINE Bad == {k \in 0..Width : Power[k] \notin Nat \ {0}}
<1>3. Bad = {}
  <2> SUFFICES ASSUME Bad # {} PROVE FALSE
    OBVIOUS
  <2>1. PICK m \in Bad : \A l \in Bad : m <= l
    <3>1. Bad \subseteq Nat
      OBVIOUS
    <3> HIDE DEF Bad
    <3> QED BY <3>1, SmallestIs, Zenon
  <2>2. m \in 0..Width /\ Power[m] \notin Nat \ {0}
    BY <2>1
  <2>3. m # 0
    BY <1>2, <2>2
  <2>4. m - 1 \in 0..Width /\ ~(m <= m - 1) /\ m \in 1..Width
    BY <1>0, <2>2, <2>3
  <2>5. Power[m - 1] \in Nat \ {0}
    BY <2>1, <2>4
  <2>6. Base * Power[m - 1] \in Nat \ {0}
    BY <1>0, <2>5
  <2> QED BY <1>2, <2>2, <2>4, <2>6
<1> QED BY <1>2, <1>3

\* What is left of n up to the digit i.
Upto(n, i) == n \div Power[Width - i]

LEMMA DivTwice ==
  ASSUME NEW n \in Nat, NEW b \in Nat \ {0}, NEW k \in Nat \ {0}
  PROVE  (n \div k) \div b = n \div (b * k)
OBVIOUS

LEMMA DivMod ==
  ASSUME NEW n \in Nat, NEW b \in Nat \ {0}
  PROVE  n = b * (n \div b) + (n % b) /\ n % b \in 0..(b - 1) /\ n \div b \in Nat
OBVIOUS

LEMMA UptoIs ==
  ASSUME NEW n \in Nat
  PROVE  /\ Upto(n, Width) = n /\ (n < Limit => Upto(n, 0) = 0)
         /\ \A i \in 0..Width : Upto(n, i) \in Nat
         /\ \A i \in 1..Width : /\ Upto(n, i) = Base * Upto(n, i - 1) + (Upto(n, i) % Base)
                                /\ Upto(n, i) % Base \in 0..(Base - 1)
<1>0. Width \in Nat \ {0} /\ Base \in Nat \ {0}
  BY NumbersHaveDigits
<1>1. Upto(n, Width) = n
  <2>1. Width - Width = 0
    BY <1>0
  <2> QED BY <2>1, PowerIs DEF Upto
<1>2. \A i \in 0..Width : Power[Width - i] \in Nat \ {0}
  <2>1. \A i \in 0..Width : Width - i \in 0..Width
    BY <1>0
  <2> QED BY <2>1, PowerIs
<1>3. \A i \in 0..Width : Upto(n, i) \in Nat
  BY <1>2, DivMod DEF Upto
<1>4. n < Limit => Upto(n, 0) = 0
  <2>1. Width - 0 = Width /\ Power[Width] \in Nat \ {0}
    BY <1>0, PowerIs
  <2>2. \A l \in Nat \ {0} : n < l => n \div l = 0
    OBVIOUS
  <2> QED BY <2>1, <2>2 DEF Upto, Limit
<1>5. ASSUME NEW i \in 1..Width
      PROVE  /\ Upto(n, i) = Base * Upto(n, i - 1) + (Upto(n, i) % Base)
             /\ Upto(n, i) % Base \in 0..(Base - 1)
  <2>1. /\ Width - (i - 1) \in 1..Width /\ (Width - (i - 1)) - 1 = Width - i
        /\ i \in 0..Width
    BY <1>0
  <2>2. Power[Width - (i - 1)] = Base * Power[Width - i]
    BY <2>1, PowerIs
  <2>3. Upto(n, i) \div Base = Upto(n, i - 1)
    BY <1>0, <1>2, <2>1, <2>2, DivTwice DEF Upto
  <2>4. Upto(n, i) \in Nat
    BY <1>3, <2>1
  <2> HIDE DEF Upto
  <2> QED BY <1>0, <2>3, <2>4, DivMod
<1> QED BY <1>1, <1>3, <1>4, <1>5

\* Numbers differ at a digit first, and there the smaller one has the smaller digit.
LEMMA FirstDigit ==
  ASSUME NEW c \in Nat, NEW d \in Nat, c < d, d < Limit
  PROVE  \E i \in 1..Width : /\ \A h \in 1..(i - 1) : Upto(c, h) % Base = Upto(d, h) % Base
                             /\ Upto(c, i) % Base < Upto(d, i) % Base
<1> DEFINE Less == {i \in 0..Width : Upto(c, i) # Upto(d, i)}
<1>0. Width \in Nat \ {0} /\ Base \in Nat \ {0} /\ Limit \in Nat
  BY NumbersHaveDigits, PowerIs DEF Limit
<1>1. PICK i \in Less : \A h \in Less : i <= h
  <2>1. Width \in Less
    BY <1>0, UptoIs
  <2>2. Less \subseteq Nat
    BY <1>0
  <2> HIDE DEF Less
  <2> QED BY <2>1, <2>2, SmallestIs, Zenon
<1>2. \A h \in 0..Width : h < i => Upto(c, h) = Upto(d, h)
  BY <1>0, <1>1
<1>3. c < Limit
  BY <1>0
<1>4. i \in 1..Width
  <2>1. Upto(c, 0) = 0 /\ Upto(d, 0) = 0
    BY <1>3, UptoIs
  <2> QED BY <1>0, <1>1, <2>1
<1>5. Upto(c, i) <= Upto(d, i)
  <2>1. \A k \in Nat \ {0} : c \div k <= d \div k
    OBVIOUS
  <2>2. Power[Width - i] \in Nat \ {0}
    <3>1. Width - i \in 0..Width
      BY <1>0, <1>4
    <3> QED BY <3>1, PowerIs
  <2> QED BY <2>1, <2>2 DEF Upto
<1>6. Upto(c, i) # Upto(d, i) /\ Upto(c, i - 1) = Upto(d, i - 1)
  <2>1. i - 1 \in 0..Width /\ i - 1 < i
    BY <1>0, <1>4
  <2> QED BY <1>1, <1>2, <2>1
<1>7. /\ Upto(c, i) \in Nat /\ Upto(d, i) \in Nat /\ Upto(d, i - 1) \in Nat
      /\ Upto(c, i) = Base * Upto(c, i - 1) + (Upto(c, i) % Base)
      /\ Upto(d, i) = Base * Upto(d, i - 1) + (Upto(d, i) % Base)
      /\ Upto(c, i) % Base \in 0..(Base - 1) /\ Upto(d, i) % Base \in 0..(Base - 1)
  <2>1. i \in 0..Width /\ i - 1 \in 0..Width
    BY <1>0, <1>4
  <2> QED BY <1>4, <2>1, UptoIs
<1>8. Upto(c, i) % Base < Upto(d, i) % Base
  <2> DEFINE x == Upto(c, i) % Base
             y == Upto(d, i) % Base
             z == Base * Upto(d, i - 1)
  <2>1. Upto(c, i) = z + x /\ Upto(d, i) = z + y /\ x \in Nat /\ y \in Nat /\ z \in Nat
    BY <1>0, <1>6, <1>7
  <2> HIDE DEF x, y, z
  <2>2. x < y
    BY <1>5, <1>6, <2>1
  <2> QED BY <2>2 DEF x, y
<1>9. \A h \in 1..(i - 1) : Upto(c, h) % Base = Upto(d, h) % Base
  <2>1. \A h \in 1..(i - 1) : h \in 0..Width /\ h < i
    BY <1>0, <1>4
  <2> QED BY <1>2, <2>1
<1> QED BY <1>4, <1>8, <1>9

\* The digits as characters.
LEMMA DigitsIs ==
  ASSUME NEW n \in Nat
  PROVE  /\ Digits(n) \in Seq(Byte) /\ Len(Digits(n)) = Width
         /\ \A i \in 1..Width : /\ Digits(n)[i] = DigitSeq[(Upto(n, i) % Base) + 1]
                                /\ (Upto(n, i) % Base) + 1 \in 1..10
                                /\ Digits(n)[i] # "." /\ Digits(n)[i] \in Byte
<1>0. Width \in Nat \ {0} /\ Base \in 2..10
  BY NumbersHaveDigits
<1>1. \A i \in 1..Width : Digits(n)[i] = DigitSeq[(Upto(n, i) % Base) + 1]
  BY DEF Digits, Upto
<1>2. \A i \in 1..Width : (Upto(n, i) % Base) + 1 \in 1..10
  <2>1. \A i \in 1..Width : Upto(n, i) % Base \in 0..(Base - 1)
    BY UptoIs
  <2> QED BY <1>0, <2>1
<1>3. \A k \in 1..10 : DigitSeq[k] \in Byte /\ DigitSeq[k] # "."
  <2>1. /\ DigitSeq[1] = "0" /\ DigitSeq[2] = "1" /\ DigitSeq[3] = "2" /\ DigitSeq[4] = "3"
        /\ DigitSeq[5] = "4" /\ DigitSeq[6] = "5" /\ DigitSeq[7] = "6" /\ DigitSeq[8] = "7"
        /\ DigitSeq[9] = "8" /\ DigitSeq[10] = "9"
    BY DEF DigitSeq
  <2> DEFINE Signs == {"0", "1", "2", "3", "4", "5", "6", "7", "8", "9"}
  <2>2. \A k \in 1..10 : \/ k = 1 \/ k = 2 \/ k = 3 \/ k = 4 \/ k = 5
                         \/ k = 6 \/ k = 7 \/ k = 8 \/ k = 9 \/ k = 10
    OBVIOUS
  <2>3. \A k \in 1..10 : DigitSeq[k] \in Signs
    BY <2>1, <2>2, Zenon
  <2>4. \A sign \in Signs : sign \in Byte
    BY DEF Byte
  <2>5. "." \notin Signs
    OBVIOUS
  <2> HIDE DEF Signs
  <2> QED BY <2>3, <2>4, <2>5, Zenon
<1>4. Digits(n) = [i \in 1..Width |-> DigitSeq[(Upto(n, i) % Base) + 1]]
  BY DEF Digits, Upto
<1>5. Digits(n) \in [1..Width -> Byte]
  BY <1>2, <1>3, <1>4
<1>6. Digits(n) \in Seq(Byte) /\ Len(Digits(n)) = Width
  BY <1>0, <1>5
<1> QED BY <1>1, <1>2, <1>3, <1>6

\* The number of a name with uid-.
HasNumber(name, n) ==
  /\ Len(name) > 4 + Width
  /\ \A i \in 1..4 : name[i] = UidToken[i]
  /\ \A i \in 1..Width : name[4 + i] = Digits(n)[i]

LEMMA NumbersPrecede ==
  ASSUME NEW name1 \in Seq(Byte), NEW name2 \in Seq(Byte), NEW c \in Nat, NEW d \in Nat,
         c < d, d < Limit, HasNumber(name1, c), HasNumber(name2, d)
  PROVE  Precedes(name1, name2)
<1>0. Width \in Nat \ {0} /\ Base \in 2..10
  BY NumbersHaveDigits
<1>1. PICK i \in 1..Width : /\ \A h \in 1..(i - 1) : Upto(c, h) % Base = Upto(d, h) % Base
                            /\ Upto(c, i) % Base < Upto(d, i) % Base
  BY FirstDigit
<1> DEFINE p == 4 + i
           j == (Upto(c, i) % Base) + 1
           k == (Upto(d, i) % Base) + 1
<1>2. /\ p \in DOMAIN name1 /\ p \in 1..Len(name2) /\ p <= Len(name2)
      /\ p - 1 \in 0..Len(name1) /\ p - 1 \in 0..Len(name2)
  BY <1>0, <1>1 DEF HasNumber
<1>3. /\ j \in 1..10 /\ k \in 1..10
      /\ name1[p] = DigitSeq[j] /\ name2[p] = DigitSeq[k]
  BY <1>1, DigitsIs DEF HasNumber
<1>4. j < k
  <2>1. Upto(c, i) % Base \in Int /\ Upto(d, i) % Base \in Int
    BY <1>1, UptoIs
  <2> QED BY <1>1, <2>1
<1>5. \A h \in 1..(p - 1) : name1[h] = name2[h]
  <2>1. \A h \in 1..(i - 1) : h \in 1..Width
    BY <1>0, <1>1
  <2>2. \A h \in 1..(i - 1) : Digits(c)[h] = Digits(d)[h]
    BY <1>1, <2>1, DigitsIs
  <2>3. \A h \in 1..(p - 1) : h \in 1..4 \/ (h - 4 \in 1..(i - 1) /\ h - 4 \in 1..Width /\ 4 + (h - 4) = h)
    BY <1>0, <1>1
  <2> SUFFICES ASSUME NEW h \in 1..(p - 1) PROVE name1[h] = name2[h]
    OBVIOUS
  <2>4. CASE h \in 1..4
    BY <2>4 DEF HasNumber
  <2>5. CASE ~(h \in 1..4)
    <3> DEFINE g == h - 4
    <3>1. g \in 1..(i - 1) /\ g \in 1..Width /\ 4 + g = h
      BY <2>3, <2>5
    <3> HIDE DEF g
    <3>2. name1[4 + g] = Digits(c)[g] /\ name2[4 + g] = Digits(d)[g]
      BY <3>1 DEF HasNumber
    <3> QED BY <2>2, <3>1, <3>2
  <2> QED BY <2>4, <2>5
<1> HIDE DEF p, j, k
<1>6. SubSeq(name1, 1, p - 1) = SubSeq(name2, 1, p - 1)
  <2> DEFINE s == SubSeq(name1, 1, p - 1)
             t == SubSeq(name2, 1, p - 1)
  <2>1. /\ s \in Seq(Byte) /\ Len(s) = p - 1 /\ \A h \in 1..(p - 1) : s[h] = name1[h]
    BY <1>2
  <2>2. /\ t \in Seq(Byte) /\ Len(t) = p - 1 /\ \A h \in 1..(p - 1) : t[h] = name2[h]
    BY <1>2
  <2> HIDE DEF s, t
  <2>3. s = t
    BY <1>5, <2>1, <2>2, SeqEqual
  <2> QED BY <2>3 DEF s, t
<1>7. Len(DigitSeq) = 10
  BY DEF DigitSeq
<1> QED BY <1>2, <1>3, <1>4, <1>6, <1>7, Zenon DEF Precedes

----------------------------------------------------------------------------
(* Names that begin with uid-, and the numbers they are given. *)

BeginsWithUid(name) ==
  Len(name) >= 4 /\ name[1] = "u" /\ name[2] = "i" /\ name[3] = "d" /\ name[4] = "-"

LEMMA UidTokenIs ==
  /\ UidToken \in Seq(Byte) /\ Len(UidToken) = 4 /\ UidToken # << >>
  /\ UidToken[1] = "u" /\ UidToken[2] = "i" /\ UidToken[3] = "d" /\ UidToken[4] = "-"
  /\ <<".">> \in Seq(Byte) /\ Len(<<".">>) = 1 /\ <<".">> # << >> /\ <<".">>[1] = "."
  /\ <<Dash>> \in Seq(Byte) /\ Len(<<Dash>>) = 1 /\ <<Dash>>[1] # "."
<1>1. "u" \in Byte /\ "i" \in Byte /\ "d" \in Byte /\ "-" \in Byte /\ "." \in Byte
  BY DEF Byte
<1> HIDE DEF Byte
<1> QED BY <1>1 DEF UidToken, Dash

\* strncmp with the four characters.
LEMMA BeginsIs ==
  ASSUME NEW name \in Seq(Byte)
  PROVE  /\ StartsWithUidToken(name) <=> BeginsWithUid(name)
         /\ BeginsWithUid(name) => SubSeq(name, 1, 4) = UidToken
<1> HIDE DEF Byte
<1>1. UidToken \in Seq(Byte) /\ Len(UidToken) = 4 /\ Len(name) \in Nat
      /\ SubSeq(UidToken, 1, 4) = UidToken
  <2>1. UidToken \in Seq(Byte) /\ Len(UidToken) = 4
    BY UidTokenIs
  <2>2. SubSeq(UidToken, 1, 4) \in Seq(Byte) /\ Len(SubSeq(UidToken, 1, 4)) = 4
        /\ \A h \in 1..4 : SubSeq(UidToken, 1, 4)[h] = UidToken[h]
    BY <2>1
  <2>3. SubSeq(UidToken, 1, 4) = UidToken
    BY <2>1, <2>2, SeqEqual
  <2> QED BY <2>1, <2>3
<1>2. CASE Len(name) >= 4
  <2> DEFINE s == SubSeq(name, 1, 4)
  <2>1. s \in Seq(Byte) /\ Len(s) = 4 /\ \A h \in 1..4 : s[h] = name[h]
    BY <1>2
  <2> HIDE DEF s
  <2>2. s = UidToken <=> BeginsWithUid(name)
    <3>1. 1 \in 1..4 /\ 2 \in 1..4 /\ 3 \in 1..4 /\ 4 \in 1..4
      OBVIOUS
    <3>2. \A h \in 1..4 : h = 1 \/ h = 2 \/ h = 3 \/ h = 4
      OBVIOUS
    <3>3. BeginsWithUid(name) <=> \A h \in 1..4 : s[h] = UidToken[h]
      BY <1>2, <2>1, <3>1, <3>2, UidTokenIs, ZenonT(60) DEF BeginsWithUid
    <3> QED BY <1>1, <2>1, <3>3, SeqEqual
  <2> QED BY <1>1, <1>2, <2>2 DEF s, StartsWithUidToken, IsPrefix
<1>3. CASE ~(Len(name) >= 4)
  BY <1>1, <1>3 DEF StartsWithUidToken, IsPrefix, BeginsWithUid
<1> QED BY <1>2, <1>3

NoDots(name) == \A i \in DOMAIN name : name[i] # "."

\* Where names with uid- begin in a text.
UidIn(text) ==
  {p \in DOMAIN text : (p = 1 \/ text[p - 1] = ".") /\ StartsWithUidToken(From(text, p))}

\* The names with uid- in a text carry the numbers from c to before d, in their order.
InOrder(text, c, d) ==
  /\ \A p \in UidIn(text) : \E n \in c..(d - 1) : HasNumber(From(text, p), n)
  /\ \A p, q \in UidIn(text) : p < q =>
       \E m, n \in c..(d - 1) :
         m < n /\ HasNumber(From(text, p), m) /\ HasNumber(From(text, q), n)

\* One name behind another.
LEMMA UidBehind ==
  ASSUME NEW first \in Seq(Byte), NEW rest \in Seq(Byte), NoDots(first)
  PROVE  LET whole == first \o <<".">> \o rest
             k == Len(first) + 1
         IN  /\ whole \in Seq(Byte)
             /\ From(whole, 1) = whole
             /\ \A p \in UidIn(whole) :
                  \/ /\ p = 1 /\ 1 \in UidIn(first)
                     /\ \A n : HasNumber(From(first, 1), n) => HasNumber(From(whole, 1), n)
                  \/ /\ p > k /\ p - k \in UidIn(rest)
                     /\ From(whole, p) = From(rest, p - k)
<1> HIDE DEF Byte
<1> DEFINE whole == first \o <<".">> \o rest
           k == Len(first) + 1
<1>0. <<".">> \in Seq(Byte) /\ Len(<<".">>) = 1 /\ <<".">>[1] = "."
  BY UidTokenIs
<1>1. /\ whole \in Seq(Byte) /\ Len(whole) = k + Len(rest) /\ k \in Nat \ {0}
      /\ \A h \in 1..Len(first) : whole[h] = first[h]
      /\ whole[k] = "." /\ \A h \in 1..Len(rest) : whole[k + h] = rest[h]
  <2> DEFINE front == first \o <<".">>
  <2>1. /\ front \in Seq(Byte) /\ Len(front) = k /\ front[k] = "."
        /\ \A h \in 1..Len(first) : front[h] = first[h]
    BY <1>0
  <2> HIDE DEF front
  <2>2. /\ front \o rest \in Seq(Byte) /\ Len(front \o rest) = k + Len(rest)
        /\ \A h \in 1..k : (front \o rest)[h] = front[h]
        /\ \A h \in 1..Len(rest) : (front \o rest)[k + h] = rest[h]
    BY <2>1
  <2>3. k \in 1..k /\ \A h \in 1..Len(first) : h \in 1..k
    OBVIOUS
  <2>4. whole = front \o rest
    BY DEF front
  <2> QED BY <2>1, <2>2, <2>3, <2>4
<1> HIDE DEF whole
<1>2. k = Len(first) + 1 /\ Len(first) \in Nat /\ Len(rest) \in Nat
  OBVIOUS
<1> HIDE DEF k
<1>3. \A s \in Seq(Byte) : \A p \in 1..(Len(s) + 1) :
        /\ From(s, p) \in Seq(Byte) /\ Len(From(s, p)) = Len(s) - p + 1
        /\ \A h \in 1..(Len(s) - p + 1) : From(s, p)[h] = s[p + h - 1]
  BY DEF From
<1>4. From(whole, 1) = whole /\ From(first, 1) = first
  <2>1. ASSUME NEW s \in Seq(Byte) PROVE From(s, 1) = s
    <3>1. 1 \in 1..(Len(s) + 1) /\ Len(s) - 1 + 1 = Len(s)
      OBVIOUS
    <3>2. From(s, 1) \in Seq(Byte) /\ Len(From(s, 1)) = Len(s)
          /\ \A h \in 1..Len(s) : From(s, 1)[h] = s[1 + h - 1]
      BY <1>3, <3>1, Zenon
    <3>3. \A h \in 1..Len(s) : 1 + h - 1 = h
      OBVIOUS
    <3>4. \A h \in 1..Len(s) : From(s, 1)[h] = s[h]
      BY <3>2, <3>3
    <3> QED BY <3>2, <3>4, SeqEqual
  <2> QED BY <1>1, <2>1
<1>5. ASSUME NEW p \in UidIn(whole)
      PROVE  \/ /\ p = 1 /\ 1 \in UidIn(first)
                /\ \A n : HasNumber(first, n) => HasNumber(whole, n)
             \/ /\ p > k /\ p - k \in UidIn(rest)
                /\ From(whole, p) = From(rest, p - k)
  <2>1. /\ p \in 1..Len(whole) /\ (p = 1 \/ whole[p - 1] = ".")
        /\ From(whole, p) \in Seq(Byte) /\ BeginsWithUid(From(whole, p))
    <3>1. p \in 1..Len(whole) /\ p \in 1..(Len(whole) + 1) /\ (p = 1 \/ whole[p - 1] = ".")
          /\ StartsWithUidToken(From(whole, p))
      BY <1>1 DEF UidIn
    <3> QED BY <1>1, <1>3, <3>1, BeginsIs
  <2>2. CASE p = 1
    <3>1. BeginsWithUid(whole)
      BY <1>4, <2>1, <2>2
    <3>2. Len(first) >= 4
      <4>1. k # 1 /\ k # 2 /\ k # 3 /\ k # 4
        BY <1>1, <3>1 DEF BeginsWithUid
      <4> QED BY <1>1, <1>2, <4>1
    <3>3. BeginsWithUid(first)
      <4>1. 1 \in 1..Len(first) /\ 2 \in 1..Len(first) /\ 3 \in 1..Len(first) /\ 4 \in 1..Len(first)
        BY <1>2, <3>2
      <4>2. /\ whole[1] = first[1] /\ whole[2] = first[2]
            /\ whole[3] = first[3] /\ whole[4] = first[4]
        BY <1>1, <4>1, Zenon
      <4> QED BY <3>1, <3>2, <4>2, Zenon DEF BeginsWithUid
    <3>4. 1 \in UidIn(first)
      BY <1>4, <3>2, <3>3, BeginsIs DEF UidIn
    <3>5. ASSUME NEW n, HasNumber(first, n) PROVE HasNumber(whole, n)
      <4>0. Width \in Nat
        BY NumbersHaveDigits
      <4>1. Len(whole) > 4 + Width /\ Len(first) > 4 + Width
        BY <1>1, <1>2, <3>5, <4>0 DEF HasNumber
      <4>2. \A i \in 1..4 : i \in 1..Len(first)
        BY <1>2, <3>2
      <4>3. \A i \in 1..Width : 4 + i \in 1..Len(first)
        BY <1>2, <4>0, <4>1
      <4> QED BY <1>1, <3>5, <4>1, <4>2, <4>3, Zenon DEF HasNumber
    <3> QED BY <2>2, <3>4, <3>5
  <2>3. CASE p # 1
    <3>1. p - 1 \in 1..Len(whole) /\ whole[p - 1] = "."
      BY <2>1, <2>3
    <3>2. ~(p - 1 \in 1..Len(first))
      BY <1>1, <3>1 DEF NoDots
    <3>3. p > k /\ p - k \in 1..Len(rest) /\ k + (p - k) = p
      BY <1>1, <1>2, <2>1, <3>1, <3>2
    <3> DEFINE r == p - k
    <3>4. r = 1 \/ rest[r - 1] = "."
      <4>1. r # 1 => r - 1 \in 1..Len(rest) /\ k + (r - 1) = p - 1
        BY <1>1, <1>2, <2>1, <3>3
      <4> QED BY <1>1, <3>1, <4>1
    <3>5. From(whole, p) = From(rest, r)
      <4>1. p \in 1..(Len(whole) + 1) /\ r \in 1..(Len(rest) + 1)
            /\ Len(whole) - p + 1 = Len(rest) - r + 1
        BY <1>1, <1>2, <2>1, <3>3
      <4>2. \A h \in 1..(Len(rest) - r + 1) : whole[p + h - 1] = rest[r + h - 1]
        <5>1. \A h \in 1..(Len(rest) - r + 1) :
                r + h - 1 \in 1..Len(rest) /\ k + (r + h - 1) = p + h - 1
          BY <1>1, <1>2, <2>1, <3>3
        <5> QED BY <1>1, <5>1, Zenon
      <4> DEFINE s == From(whole, p)
                 t == From(rest, r)
      <4>3. s \in Seq(Byte) /\ Len(s) = Len(rest) - r + 1
            /\ \A h \in 1..(Len(rest) - r + 1) : s[h] = whole[p + h - 1]
        BY <1>1, <1>3, <4>1, ZenonT(60)
      <4>4. t \in Seq(Byte) /\ Len(t) = Len(rest) - r + 1
            /\ \A h \in 1..(Len(rest) - r + 1) : t[h] = rest[r + h - 1]
        BY <1>3, <4>1
      <4> HIDE DEF s, t, r
      <4>5. s = t
        BY <4>2, <4>3, <4>4, SeqEqual
      <4> QED BY <4>5 DEF s, t
    <3>6. StartsWithUidToken(From(rest, r))
      BY <2>1, <3>5, BeginsIs
    <3>7. r \in UidIn(rest)
      BY <3>3, <3>4, <3>6 DEF UidIn
    <3> QED BY <3>3, <3>5, <3>7
  <2> QED BY <2>2, <2>3
<1> QED BY <1>1, <1>4, <1>5 DEF whole, k

LEMMA OrderBehind ==
  ASSUME NEW first \in Seq(Byte), NEW rest \in Seq(Byte), NoDots(first),
         NEW c \in Nat, NEW e \in Nat, NEW d \in Nat, c <= e, e <= d,
         InOrder(first, c, e), InOrder(rest, e, d)
  PROVE  InOrder(first \o <<".">> \o rest, c, d)
<1> HIDE DEF Byte
<1> DEFINE whole == first \o <<".">> \o rest
           k == Len(first) + 1
<1>0. k \in Nat
  OBVIOUS
<1>1. \A p \in UidIn(whole) :
        \/ /\ p = 1 /\ 1 \in UidIn(first)
           /\ \A n : HasNumber(From(first, 1), n) => HasNumber(From(whole, 1), n)
        \/ /\ p > k /\ p - k \in UidIn(rest)
           /\ From(whole, p) = From(rest, p - k)
  BY UidBehind
<1>2. (\A n \in c..(e - 1) : n \in c..(d - 1)) /\ (\A n \in e..(d - 1) : n \in c..(d - 1))
  OBVIOUS
<1>3. \A m \in c..(e - 1), n \in e..(d - 1) : m < n
  OBVIOUS
<1>4. \A p \in UidIn(whole) : p \in Nat
  <2>1. whole \in Seq(Byte)
    BY UidBehind
  <2> HIDE DEF whole
  <2>2. DOMAIN whole \subseteq Nat
    BY <2>1
  <2> QED BY <2>2 DEF UidIn
<1> HIDE DEF whole, k
<1>5. ASSUME NEW p \in UidIn(whole)
      PROVE  \/ p = 1 /\ \E n \in c..(e - 1) : HasNumber(From(whole, p), n)
             \/ p > k /\ \E n \in e..(d - 1) : HasNumber(From(whole, p), n)
  <2>1. CASE p = 1 /\ 1 \in UidIn(first)
               /\ \A n : HasNumber(From(first, 1), n) => HasNumber(From(whole, 1), n)
    BY <2>1, Zenon DEF InOrder
  <2>2. CASE p > k /\ p - k \in UidIn(rest) /\ From(whole, p) = From(rest, p - k)
    <3>1. \E n \in e..(d - 1) : HasNumber(From(rest, p - k), n)
      BY <2>2, Zenon DEF InOrder
    <3> QED BY <2>2, <3>1
  <2> QED BY <1>1, <2>1, <2>2, Zenon
<1>6. \A p \in UidIn(whole) : \E n \in c..(d - 1) : HasNumber(From(whole, p), n)
  BY <1>2, <1>5, Zenon
<1>7. ASSUME NEW p \in UidIn(whole), NEW q \in UidIn(whole), p < q
      PROVE  \E m, n \in c..(d - 1) :
               m < n /\ HasNumber(From(whole, p), m) /\ HasNumber(From(whole, q), n)
  <2>1. q > k /\ q - k \in UidIn(rest) /\ From(whole, q) = From(rest, q - k)
    <3>1. q # 1
      <4>1. p = 1 \/ p > k
        BY <1>1
      <4>2. k >= 1
        BY <1>0 DEF k
      <4> QED BY <1>0, <1>4, <1>7, <4>1, <4>2
    <3> QED BY <1>1, <3>1
  <2>2. CASE p = 1
    <3>1. PICK m \in c..(e - 1) : HasNumber(From(whole, p), m)
      <4>1. ~(p > k)
        BY <1>0, <2>2 DEF k
      <4> QED BY <1>5, <4>1, Zenon
    <3>2. PICK n \in e..(d - 1) : HasNumber(From(whole, q), n)
      <4>1. q # 1
        BY <1>4, <1>7, <2>2
      <4> QED BY <1>5, <4>1, Zenon
    <3> QED BY <1>2, <1>3, <3>1, <3>2, Zenon
  <2>3. CASE p # 1
    <3>1. p > k /\ p - k \in UidIn(rest) /\ From(whole, p) = From(rest, p - k)
      BY <1>1, <2>3, Zenon
    <3>2. p - k < q - k
      BY <1>0, <1>4, <1>7
    <3>3. PICK m \in e..(d - 1), n \in e..(d - 1) :
            m < n /\ HasNumber(From(rest, p - k), m) /\ HasNumber(From(rest, q - k), n)
      BY <2>1, <3>1, <3>2, Zenon DEF InOrder
    <3> QED BY <1>2, <2>1, <3>1, <3>3
  <2> QED BY <2>2, <2>3
<1>8. InOrder(whole, c, d)
  BY <1>6, <1>7, Zenon DEF InOrder
<1> QED BY <1>8 DEF whole

\* Without a name no number, and in a name without dots only its own.
LEMMA OrderOfOne ==
  ASSUME NEW name \in Seq(Byte), NoDots(name), NEW c \in Nat
  PROVE  /\ ~StartsWithUidToken(name) => InOrder(name, c, c)
         /\ HasNumber(name, c) => InOrder(name, c, c + 1)
<1> HIDE DEF Byte
<1>1. From(name, 1) = name
  <2> DEFINE s == From(name, 1)
  <2>1. s = SubSeq(name, 1, Len(name)) /\ Len(name) \in Nat
    BY DEF From
  <2>2. s \in Seq(Byte) /\ Len(s) = Len(name) /\ \A h \in 1..Len(name) : s[h] = name[h]
    BY <2>1
  <2> HIDE DEF s
  <2>3. s = name
    BY <2>2, SeqEqual
  <2> QED BY <2>3 DEF s
<1>2. ASSUME NEW p \in UidIn(name) PROVE p = 1 /\ StartsWithUidToken(name)
  <2>1. p \in 1..Len(name) /\ (p = 1 \/ name[p - 1] = ".") /\ StartsWithUidToken(From(name, p))
    BY DEF UidIn
  <2>2. p # 1 => p - 1 \in DOMAIN name
    BY <2>1
  <2> QED BY <1>1, <2>1, <2>2 DEF NoDots
<1>3. ~StartsWithUidToken(name) => UidIn(name) = {}
  BY <1>2
<1>4. \A p, q \in UidIn(name) : ~(p < q)
  <2>1. ~(1 < 1)
    OBVIOUS
  <2> QED BY <1>2, <2>1, Zenon
<1>5. c \in c..((c + 1) - 1)
  OBVIOUS
<1>6. ASSUME HasNumber(name, c) PROVE InOrder(name, c, c + 1)
  <2>1. \A p \in UidIn(name) : HasNumber(From(name, p), c)
    BY <1>1, <1>2, <1>6, Zenon
  <2> QED BY <1>4, <1>5, <2>1, Zenon DEF InOrder
<1>7. ~StartsWithUidToken(name) => InOrder(name, c, c)
  BY <1>3, <1>4, Zenon DEF InOrder
<1> QED BY <1>6, <1>7

\* The parts between dots, each in its order, make a name in order.
LEMMA OrderOfJoin ==
  ASSUME NEW names \in Seq(Seq(Byte)), names # << >>, NEW at,
         \A i \in 1..Len(names) : /\ NoDots(names[i])
                                  /\ InOrder(names[i], at[i], at[i + 1])
                                  /\ at[i] <= at[i + 1],
         \A i \in 1..(Len(names) + 1) : at[i] \in Nat
  PROVE  InOrder(Join(names, <<".">>), at[1], at[Len(names) + 1])
<1> HIDE DEF Byte
<1> DEFINE n == Len(names)
           Tl(i) == From(names, i)
           Good(i) == /\ InOrder(Join(Tl(i), <<".">>), at[i], at[n + 1])
                      /\ at[i] <= at[n + 1]
           Bad == {i \in 1..n : ~Good(i)}
<1>0. n \in Nat \ {0} /\ 1 \in 1..n
  OBVIOUS
<1>1. \A i \in 1..n : /\ Tl(i) \in Seq(Seq(Byte)) /\ Tl(i) # << >> /\ Len(Tl(i)) = n - i + 1
                      /\ \A h \in 1..(n - i + 1) : Tl(i)[h] = names[i + h - 1]
                      /\ names[i] \in Seq(Byte)
  <2> SUFFICES ASSUME NEW i \in 1..n
               PROVE  /\ Tl(i) \in Seq(Seq(Byte)) /\ Len(Tl(i)) = n - i + 1
                      /\ \A h \in 1..(n - i + 1) : Tl(i)[h] = names[i + h - 1]
    BY <1>0, SMTT(30)
  <2>1. Tl(i) = SubSeq(names, i, n) /\ i \in 1..(n + 1) /\ i <= n + 1
    BY <1>0 DEF From
  <2> DEFINE S == Seq(Byte)
  <2> HIDE DEF S
  <2>2. names \in Seq(S)
    BY DEF S
  <2>3. Tl(i) \in Seq(S) /\ Len(Tl(i)) = n - i + 1
        /\ \A h \in 1..(n - i + 1) : Tl(i)[h] = names[i + h - 1]
    BY <1>0, <2>1, <2>2, SMTT(30)
  <2> QED BY <2>3 DEF S
<1>2. <<".">> \in Seq(Byte)
  BY UidTokenIs
<1>3. Tl(1) = names
  <2>1. Tl(1) \in Seq(Seq(Byte)) /\ Len(Tl(1)) = Len(names)
    BY <1>0, <1>1
  <2>2. \A h \in 1..Len(names) : h \in 1..(n - 1 + 1) /\ 1 + h - 1 = h
    OBVIOUS
  <2>3. \A h \in 1..Len(names) : Tl(1)[h] = names[h]
    BY <1>0, <1>1, <2>2
  <2> HIDE DEF Tl
  <2> QED BY <2>1, <2>3, SeqEqual
<1> HIDE DEF Tl
<1>4. \A i \in 1..n : i # n => Tl(i) = <<names[i]>> \o Tl(i + 1)
  <2> SUFFICES ASSUME NEW i \in 1..n, i # n PROVE Tl(i) = <<names[i]>> \o Tl(i + 1)
    OBVIOUS
  <2> DEFINE s == <<names[i]>> \o Tl(i + 1)
  <2>1. i + 1 \in 1..n /\ n - (i + 1) + 1 = n - i
    BY <1>0
  <2>2. Tl(i + 1) \in Seq(Seq(Byte)) /\ Len(Tl(i + 1)) = n - i
        /\ \A h \in 1..(n - i) : Tl(i + 1)[h] = names[i + 1 + h - 1]
    BY <1>1, <2>1
  <2>3. s \in Seq(Seq(Byte)) /\ Len(s) = n - i + 1 /\ s[1] = names[i]
        /\ \A h \in 1..(n - i) : s[h + 1] = Tl(i + 1)[h]
    BY <1>1, <2>2, ConsIs, SMTT(30)
  <2> HIDE DEF s
  <2>4. \A h \in 1..(n - i + 1) : s[h] = Tl(i)[h]
    <3> SUFFICES ASSUME NEW h \in 1..(n - i + 1) PROVE s[h] = names[i + h - 1]
      BY <1>1
    <3>1. CASE h = 1
      BY <2>3, <3>1
    <3>2. CASE h # 1
      <4>1. h - 1 \in 1..(n - i) /\ (h - 1) + 1 = h /\ i + 1 + (h - 1) - 1 = i + h - 1
        BY <1>0, <3>2
      <4>2. s[(h - 1) + 1] = Tl(i + 1)[h - 1] /\ Tl(i + 1)[h - 1] = names[i + 1 + (h - 1) - 1]
        BY <2>2, <2>3, <4>1, Zenon
      <4> QED BY <4>1, <4>2
    <3> QED BY <3>1, <3>2
  <2>5. s = Tl(i)
    <3>1. Tl(i) \in Seq(Seq(Byte)) /\ Len(Tl(i)) = n - i + 1
      BY <1>1
    <3> QED BY <2>3, <2>4, <3>1, SeqEqual
  <2> QED BY <2>5 DEF s
<1>5. Tl(n) = <<names[n]>>
  <2>1. n \in 1..n /\ n - n + 1 = 1 /\ n + 1 - 1 = n /\ 1 \in 1..1
    BY <1>0
  <2>2. Tl(n) \in Seq(Seq(Byte)) /\ Len(Tl(n)) = 1 /\ Tl(n)[1] = names[n]
    BY <1>1, <2>1
  <2>3. <<names[n]>> \in Seq(Seq(Byte)) /\ Len(<<names[n]>>) = 1 /\ <<names[n]>>[1] = names[n]
    BY <1>1, <2>1
  <2>4. \A h \in 1..1 : h = 1
    OBVIOUS
  <2>5. \A h \in 1..1 : Tl(n)[h] = <<names[n]>>[h]
    BY <2>2, <2>3, <2>4
  <2> QED BY <2>2, <2>3, <2>5, SeqEqual
<1>6. Bad = {}
  <2> SUFFICES ASSUME Bad # {} PROVE FALSE
    OBVIOUS
  <2>1. PICK i \in Bad : \A h \in Bad : h <= i
    <3>1. Bad \subseteq 0..n
      BY <1>0
    <3> HIDE DEF Bad
    <3> QED BY <1>0, <3>1, LargestIs, Zenon
  <2>2. i \in 1..n /\ ~Good(i)
    BY <2>1
  <2>3. /\ NoDots(names[i]) /\ InOrder(names[i], at[i], at[i + 1]) /\ at[i] <= at[i + 1]
        /\ at[i] \in Nat /\ at[i + 1] \in Nat /\ names[i] \in Seq(Byte)
    <3>1. i \in 1..(n + 1) /\ i + 1 \in 1..(n + 1)
      BY <1>0, <2>2
    <3> QED BY <1>1, <2>2, <3>1
  <2>4. CASE i = n
    <3>1. Join(Tl(i), <<".">>) = names[i]
      <4>1. Tl(i) = <<names[i]>>
        BY <1>5, <2>4
      <4> QED BY <1>2, <2>3, <4>1, JoinOne
    <3> QED BY <2>2, <2>3, <2>4, <3>1, Zenon
  <2>5. CASE i # n
    <3>1. i + 1 \in 1..n /\ ~(i + 1 <= i) /\ n + 1 \in 1..(n + 1)
      BY <1>0, <2>2, <2>5
    <3>2. Good(i + 1)
      BY <2>1, <3>1
    <3>3. at[n + 1] \in Nat
      BY <3>1
    <3>4. Tl(i + 1) \in Seq(Seq(Byte)) /\ Tl(i + 1) # << >>
      BY <1>1, <3>1
    <3>5. Join(Tl(i), <<".">>) = names[i] \o <<".">> \o Join(Tl(i + 1), <<".">>)
      <4>1. Tl(i) = <<names[i]>> \o Tl(i + 1)
        BY <1>4, <2>2, <2>5
      <4>2. Join(<<names[i]>> \o Tl(i + 1), <<".">>)
            = names[i] \o <<".">> \o Join(Tl(i + 1), <<".">>)
        BY <1>2, <2>3, <3>4, JoinCons, ZenonT(60)
      <4> QED BY <4>1, <4>2
    <3>6. Join(Tl(i + 1), <<".">>) \in Seq(Byte)
      BY <1>2, <3>4, JoinType, Zenon
    <3>7. at[i] <= at[n + 1]
      <4>1. at[i + 1] <= at[n + 1]
        BY <3>2, Zenon
      <4>2. \A x, y, z \in Nat : x <= y /\ y <= z => x <= z
        OBVIOUS
      <4> QED BY <2>3, <3>3, <4>1, <4>2, Zenon
    <3>8. InOrder(Join(Tl(i), <<".">>), at[i], at[n + 1])
      BY <2>3, <3>2, <3>3, <3>5, <3>6, OrderBehind, Zenon
    <3> QED BY <2>2, <3>7, <3>8
  <2> QED BY <2>4, <2>5
<1> QED BY <1>0, <1>3, <1>6, Zenon

\* A text all of whose signs stand in another.
LEMMA NoDotsWithin ==
  ASSUME NEW name \in Seq(Byte), NoDots(name), NEW text \in Seq(Byte), NEW k \in Nat,
         \A h \in 1..Len(text) : h + k \in 1..Len(name) /\ text[h] = name[h + k]
  PROVE  NoDots(text)
<1> HIDE DEF Byte
<1>1. DOMAIN text = 1..Len(text) /\ DOMAIN name = 1..Len(name)
  OBVIOUS
<1> QED BY <1>1, Zenon DEF NoDots

LEMMA ConcatIs ==
  ASSUME NEW s \in Seq(Byte), NEW t \in Seq(Byte), NEW k \in Nat, k = Len(s)
  PROVE  /\ s \o t \in Seq(Byte) /\ Len(s \o t) = k + Len(t)
         /\ \A i \in 1..k : (s \o t)[i] = s[i]
         /\ \A i \in 1..Len(t) : (s \o t)[k + i] = t[i]
<1> HIDE DEF Byte
<1> QED OBVIOUS

LEMMA FromIs ==
  ASSUME NEW name \in Seq(Byte), NEW k \in 0..Len(name)
  PROVE  /\ From(name, k + 1) \in Seq(Byte) /\ Len(From(name, k + 1)) = Len(name) - k
         /\ \A h \in 1..(Len(name) - k) : From(name, k + 1)[h] = name[h + k]
<1> HIDE DEF Byte
<1>1. From(name, k + 1) = SubSeq(name, k + 1, Len(name)) /\ Len(name) \in Nat
  BY DEF From
<1>2. \A h \in 1..(Len(name) - k) : (k + 1) + h - 1 = h + k
  OBVIOUS
<1>3. /\ SubSeq(name, k + 1, Len(name)) \in Seq(Byte)
      /\ Len(SubSeq(name, k + 1, Len(name))) = Len(name) - k
      /\ \A h \in 1..(Len(name) - k) : SubSeq(name, k + 1, Len(name))[h] = name[(k + 1) + h - 1]
  BY <1>1
<1> QED BY <1>1, <1>2, <1>3

LEMMA LeadingDigitsIs ==
  ASSUME NEW text \in Seq(Byte)
  PROVE  LeadingDigits(text) \in 0..Len(text)
<1> HIDE DEF Byte
<1> DEFINE I == {i \in 1..Len(text) : ~IsDigit(text[i])}
<1>1. SelectInSeq(text, LAMBDA c : ~IsDigit(c)) = IF I # {} THEN Min(I) ELSE 0
  BY DEF SelectInSeq
<1>2. I # {} => Min(I) \in 1..Len(text)
  <2>1. I \subseteq Nat /\ I \subseteq 1..Len(text)
    OBVIOUS
  <2> HIDE DEF I
  <2>2. I # {} => Min(I) \in I
    BY <2>1, MinIs, Zenon
  <2> QED BY <2>1, <2>2
<1> HIDE DEF I
<1> QED BY <1>1, <1>2 DEF LeadingDigits

\* formatExpanded for a name whose number of digits was read.
LEMMA FormatIs ==
  ASSUME NEW suffix \in Seq(Byte), NoDots(suffix), NEW c \in 0..Limit
  PROVE  LET r == FormatExpanded(suffix, c)
         IN  \/ /\ c < Limit /\ r.exc = "none" /\ r.count = c + 1
                /\ r.name \in Seq(Byte) /\ NoDots(r.name) /\ HasNumber(r.name, c)
             \/ c = Limit /\ r.exc = "foreign" /\ r.count = c
<1> HIDE DEF Byte
<1>0. Limit \in Nat /\ c \in Nat /\ Width \in Nat \ {0}
  BY PowerIs, NumbersHaveDigits DEF Limit
<1>1. CASE c >= Limit
  <2>1. FormatExpanded(suffix, c) = Thrown("foreign", c) /\ c = Limit
    BY <1>0, <1>1 DEF FormatExpanded
  <2> QED BY <2>1 DEF Thrown
<1>2. CASE ~(c >= Limit)
  <2> DEFINE digits == Digits(c)
             name == UidToken \o digits \o <<Dash>> \o suffix
  <2>1. FormatExpanded(suffix, c) = Named(name, c + 1) /\ c < Limit
    BY <1>0, <1>2 DEF FormatExpanded
  <2>2. /\ digits \in Seq(Byte) /\ Len(digits) = Width
        /\ \A i \in 1..Width : digits[i] # "."
    BY <1>0, DigitsIs
  <2>3. /\ UidToken \in Seq(Byte) /\ Len(UidToken) = 4
        /\ \A i \in 1..4 : UidToken[i] # "."
        /\ <<Dash>> \in Seq(Byte) /\ Len(<<Dash>>) = 1 /\ <<Dash>>[1] # "."
    <3>1. \A i \in 1..4 : i = 1 \/ i = 2 \/ i = 3 \/ i = 4
      OBVIOUS
    <3>2. "u" # "." /\ "i" # "." /\ "d" # "." /\ "-" # "."
      OBVIOUS
    <3> QED BY <3>1, <3>2, UidTokenIs, Zenon
  <2>4. \A i \in 1..Len(suffix) : suffix[i] # "."
    BY DEF NoDots
  <2> DEFINE head == UidToken \o digits
             front == head \o <<Dash>>
  <2> HIDE DEF digits
  <2>5. /\ head \in Seq(Byte) /\ Len(head) = 4 + Width
        /\ \A i \in 1..4 : head[i] = UidToken[i]
        /\ \A i \in 1..Width : head[4 + i] = digits[i]
    <3>1. 4 \in Nat
      OBVIOUS
    <3>2. 4 = Len(UidToken)
      BY <2>3
    <3>3. UidToken \in Seq(Byte) /\ digits \in Seq(Byte)
      BY <2>2, <2>3
    <3>4. /\ UidToken \o digits \in Seq(Byte) /\ Len(UidToken \o digits) = 4 + Len(digits)
          /\ \A i \in 1..4 : (UidToken \o digits)[i] = UidToken[i]
          /\ \A i \in 1..Len(digits) : (UidToken \o digits)[4 + i] = digits[i]
      BY <3>1, <3>2, <3>3, ConcatIs, ZenonT(60)
    <3>5. head = UidToken \o digits
      OBVIOUS
    <3> HIDE DEF head
    <3>6. /\ head \in Seq(Byte) /\ Len(head) = 4 + Len(digits)
          /\ \A i \in 1..4 : head[i] = UidToken[i]
          /\ \A i \in 1..Len(digits) : head[4 + i] = digits[i]
      BY <3>4, <3>5, Zenon
    <3> QED BY <2>2, <3>6
  <2>6. \A i \in 1..(4 + Width) : head[i] # "."
    <3>1. \A i \in 1..(4 + Width) : i \in 1..4 \/ (i - 4 \in 1..Width /\ 4 + (i - 4) = i)
      BY <1>0
    <3> QED BY <2>2, <2>3, <2>5, <3>1
  <2> HIDE DEF head
  <2>7. /\ front \in Seq(Byte) /\ Len(front) = 5 + Width
        /\ \A i \in 1..(4 + Width) : front[i] = head[i]
        /\ front[5 + Width] = <<Dash>>[1]
    BY <1>0, <2>3, <2>5
  <2>8. \A i \in 1..(5 + Width) : front[i] # "."
    <3>1. \A i \in 1..(5 + Width) : i \in 1..(4 + Width) \/ i = 5 + Width
      BY <1>0
    <3> QED BY <2>3, <2>6, <2>7, <3>1
  <2>9. name = front \o suffix
    BY DEF front, head
  <2> HIDE DEF front, name
  <2>10. /\ name \in Seq(Byte) /\ Len(name) = 5 + Width + Len(suffix)
         /\ \A i \in 1..(5 + Width) : name[i] = front[i]
         /\ \A i \in 1..Len(suffix) : name[5 + Width + i] = suffix[i]
    <3>1. 5 + Width \in Nat
      BY <1>0
    <3>2. 5 + Width = Len(front)
      BY <2>7
    <3>3. front \in Seq(Byte)
      BY <2>7
    <3>4. /\ front \o suffix \in Seq(Byte) /\ Len(front \o suffix) = 5 + Width + Len(suffix)
          /\ \A i \in 1..(5 + Width) : (front \o suffix)[i] = front[i]
          /\ \A i \in 1..Len(suffix) : (front \o suffix)[5 + Width + i] = suffix[i]
      BY <3>1, <3>2, <3>3, ConcatIs, Zenon
    <3> QED BY <2>9, <3>4, Zenon
  <2>11. NoDots(name)
    <3>1. \A i \in 1..Len(name) : \/ i \in 1..(5 + Width)
                                  \/ /\ i - (5 + Width) \in 1..Len(suffix)
                                     /\ 5 + Width + (i - (5 + Width)) = i
      BY <1>0, <2>10
    <3>2. \A i \in 1..(5 + Width) : name[i] # "."
      BY <2>8, <2>10
    <3>3. \A i \in 1..Len(suffix) : name[5 + Width + i] # "."
      BY <2>4, <2>10
    <3>4. \A i \in 1..Len(name) : name[i] # "."
      BY <3>1, <3>2, <3>3
    <3>5. DOMAIN name = 1..Len(name)
      BY <2>10
    <3> QED BY <3>4, <3>5, Zenon DEF NoDots
  <2>12. HasNumber(name, c)
    <3>1. Len(name) > 4 + Width
      BY <1>0, <2>10
    <3>2. /\ \A i \in 1..4 : i \in 1..(4 + Width) /\ i \in 1..(5 + Width)
          /\ \A i \in 1..Width : 4 + i \in 1..(4 + Width) /\ 4 + i \in 1..(5 + Width)
      BY <1>0
    <3>3. \A i \in 1..4 : name[i] = UidToken[i]
      BY <2>5, <2>7, <2>10, <3>2
    <3>4. \A i \in 1..Width : name[4 + i] = digits[i]
      BY <2>5, <2>7, <2>10, <3>2
    <3> QED BY <3>1, <3>3, <3>4 DEF HasNumber, digits
  <2> QED BY <2>1, <2>10, <2>11, <2>12 DEF Named
<1> QED BY <1>1, <1>2

\* expandOne: a name without uid- stays, one with it gets the next number.
LEMMA OneIs ==
  ASSUME NEW name \in Seq(Byte), NoDots(name), NEW c \in 0..Limit
  PROVE  LET r == ExpandOne(name, c)
             e == IF StartsWithUidToken(name) THEN c + 1 ELSE c
         IN  \/ /\ r.exc = "none" /\ r.count = e /\ e \in 0..Limit
                /\ r.name \in Seq(Byte) /\ NoDots(r.name) /\ InOrder(r.name, c, e)
             \/ r.exc = "config" /\ r.count = c
             \/ r.exc = "foreign" /\ r.count = c /\ c = Limit
<1> HIDE DEF Byte
<1> DEFINE payload == Payload(name)
           n == LeadingDigits(payload)
           rest == From(payload, n + 1)
           suffix == IF n = 0 THEN rest ELSE Tail(rest)
           refused == ~HasValidPrefix(name) \/ (n > 0 /\ ~HasValidPayload(rest))
           r == ExpandOne(name, c)
<1>0. Limit \in Nat /\ c \in Nat
  <2>1. Width \in 0..Width
    BY NumbersHaveDigits
  <2>2. Limit \in Nat
    BY <2>1, PowerIs DEF Limit
  <2> QED BY <2>2
<1>1. CASE ~StartsWithUidToken(name)
  <2>1. r = Named(name, c)
    BY <1>1 DEF ExpandOne
  <2> QED BY <1>0, <1>1, <2>1, OrderOfOne DEF Named
<1>2. CASE StartsWithUidToken(name) /\ refused
  <2>1. r = Thrown("config", c)
    BY <1>2, Zenon DEF ExpandOne
  <2> QED BY <2>1 DEF Thrown
<1>3. CASE StartsWithUidToken(name) /\ ~refused
  <2>1. r = FormatExpanded(suffix, c)
    BY <1>3 DEF ExpandOne
  <2>2. payload \in Seq(Byte) /\ NoDots(payload)
    <3>1. 4 \in 0..Len(name) /\ Len(UidToken) + 1 = 4 + 1
      BY <1>3, BeginsIs, UidTokenIs DEF BeginsWithUid
    <3>2. /\ payload \in Seq(Byte) /\ Len(payload) = Len(name) - 4
          /\ \A h \in 1..(Len(name) - 4) : payload[h] = name[h + 4]
      BY <3>1, FromIs DEF Payload
    <3>3. \A h \in 1..Len(payload) : h + 4 \in 1..Len(name) /\ payload[h] = name[h + 4]
      BY <3>1, <3>2
    <3> HIDE DEF payload
    <3> QED BY <3>2, <3>3, NoDotsWithin
  <2> HIDE DEF payload
  <2>3. n \in 0..Len(payload)
    BY <2>2, LeadingDigitsIs
  <2> HIDE DEF n
  <2>4. rest \in Seq(Byte) /\ NoDots(rest)
    <3>1. /\ rest \in Seq(Byte) /\ Len(rest) = Len(payload) - n
          /\ \A h \in 1..(Len(payload) - n) : rest[h] = payload[h + n]
      <4>1. n \in 0..Len(payload) /\ payload \in Seq(Byte)
        BY <2>2, <2>3
      <4> QED BY <4>1, FromIs
    <3>2. \A h \in 1..Len(rest) : h + n \in 1..Len(payload) /\ rest[h] = payload[h + n]
      BY <2>2, <2>3, <3>1
    <3>3. n \in Nat
      BY <2>2, <2>3
    <3> HIDE DEF rest
    <3> QED BY <2>2, <3>1, <3>2, <3>3, NoDotsWithin
  <2>5. n # 0 => Len(rest) > 1
    BY <1>3, <2>3 DEF HasValidPayload
  <2> HIDE DEF rest
  <2>6. suffix \in Seq(Byte) /\ NoDots(suffix)
    <3>1. CASE n = 0
      BY <2>4, <3>1
    <3>2. CASE n # 0
      <4>1. /\ suffix \in Seq(Byte) /\ Len(suffix) = Len(rest) - 1
            /\ \A h \in 1..(Len(rest) - 1) : suffix[h] = rest[h + 1]
        BY <2>4, <2>5, <3>2
      <4>2. \A h \in 1..Len(suffix) : h + 1 \in 1..Len(rest) /\ suffix[h] = rest[h + 1]
        BY <2>4, <4>1
      <4> HIDE DEF suffix
      <4> QED BY <2>4, <4>1, <4>2, NoDotsWithin
    <3> QED BY <3>1, <3>2
  <2> HIDE DEF suffix, r
  <2>7. \/ /\ c < Limit /\ r.exc = "none" /\ r.count = c + 1
           /\ r.name \in Seq(Byte) /\ NoDots(r.name) /\ HasNumber(r.name, c)
        \/ c = Limit /\ r.exc = "foreign" /\ r.count = c
    BY <2>1, <2>6, FormatIs
  <2>8. CASE c < Limit /\ r.exc = "none" /\ r.count = c + 1
             /\ r.name \in Seq(Byte) /\ NoDots(r.name) /\ HasNumber(r.name, c)
    BY <1>0, <1>3, <2>8, OrderOfOne DEF r
  <2> QED BY <2>7, <2>8 DEF r
<1> QED BY <1>1, <1>2, <1>3

\* splitScopes: there are parts, and no dots in them.
LEMMA PartsAre ==
  ASSUME NEW name \in Seq(Byte)
  PROVE  LET parts == SplitScopes(name)
         IN  /\ parts \in Seq(Seq(Byte)) /\ parts # << >>
             /\ \A i \in 1..Len(parts) : NoDots(parts[i])
<1> HIDE DEF Byte
<1> DEFINE list == Split(name, <<".">>)
           S == Seq(Byte)
<1>0. <<".">> \in Seq(Byte) /\ <<".">> # << >> /\ Len(<<".">>) = 1
  BY UidTokenIs
<1>1. list \in Seq(S) /\ list # << >>
  <2>1. 1 \in 1..(Len(name) + 1)
    OBVIOUS
  <2>2. PICK split : /\ \A i \in 1..(Len(name) + 1) : split[i] \in Seq(Seq(Byte)) /\ split[i] # << >>
                     /\ Split(name, <<".">>) = split[1]
    BY <1>0, SplitWords, ZenonT(60)
  <2> QED BY <2>1, <2>2, Zenon
<1>2. /\ \A i \in 1..(Len(list) - 1) : Find(list[i] \o <<".">>, <<".">>) = Len(list[i]) + 1
      /\ Find(Last(list), <<".">>) = 0
  <2>1. IsCutAt(list, name, <<".">>)
    BY <1>0, SplitCuts, Zenon
  <2> HIDE DEF list
  <2> QED BY <2>1, Zenon DEF IsCutAt
<1> HIDE DEF list
<1>3. ASSUME NEW s \in Seq(Byte), NEW h \in 1..Len(s), s[h] = "."
      PROVE  SubSeq(s, h, h + 1 - 1) = <<".">>
  <2>1. SubSeq(s, h, h) = <<s[h]>>
    <3>1. s[h] \in Byte /\ h \in Nat /\ Len(s) \in Nat
      BY <1>3
    <3>2. SubSeq(s, h, h) \in Seq(Byte) /\ Len(SubSeq(s, h, h)) = 1 /\ SubSeq(s, h, h)[1] = s[h]
      BY <1>3, <3>1
    <3>3. <<s[h]>> \in Seq(Byte) /\ Len(<<s[h]>>) = 1 /\ <<s[h]>>[1] = s[h]
      BY <3>1
    <3>4. \A i \in 1..1 : i = 1
      OBVIOUS
    <3>5. \A i \in 1..1 : SubSeq(s, h, h)[i] = <<s[h]>>[i]
      BY <3>2, <3>3, <3>4
    <3> QED BY <3>2, <3>3, <3>5, SeqEqual
  <2>2. h + 1 - 1 = h
    OBVIOUS
  <2> QED BY <1>3, <2>1, <2>2
<1>4. ASSUME NEW i \in 1..Len(list) PROVE NoDots(list[i])
  <2>1. list[i] \in Seq(Byte) /\ Len(list[i]) \in Nat /\ DOMAIN list[i] = 1..Len(list[i])
    BY <1>1 DEF S
  <2>2. CASE i = Len(list)
    <3>1. Find(list[i], <<".">>) = 0
      BY <1>2, <2>2 DEF Last
    <3>2. FoundAt(Find(list[i], <<".">>), list[i], <<".">>, 1)
      <4>1. 1 \in Nat \ {0} /\ Len(<<".">>) \in Nat
        BY <1>0
      <4> QED BY <2>1, <4>1, FoundIs, Zenon DEF Find
    <3>3. \A h \in 1..(Len(list[i]) - 1 + 1) : SubSeq(list[i], h, h + 1 - 1) # <<".">>
      BY <1>0, <3>1, <3>2 DEF FoundAt
    <3>4. Len(list[i]) - 1 + 1 = Len(list[i])
      BY <2>1
    <3> QED BY <1>3, <2>1, <3>3, <3>4, Zenon DEF NoDots
  <2>3. CASE i # Len(list)
    <3> DEFINE s == list[i] \o <<".">>
               n == Len(list[i])
    <3>1. i \in 1..(Len(list) - 1)
      BY <1>1, <2>3
    <3>2. s \in Seq(Byte) /\ Len(s) = n + 1 /\ \A h \in 1..n : s[h] = list[i][h]
      BY <1>0, <2>1
    <3>3. Find(s, <<".">>) = n + 1
      BY <1>2, <3>1
    <3> HIDE DEF s, n
    <3>4. n \in Nat /\ DOMAIN list[i] = 1..n
      BY <2>1 DEF n
    <3>5. FoundAt(Find(s, <<".">>), s, <<".">>, 1)
      <4>1. 1 \in Nat \ {0} /\ Len(<<".">>) \in Nat /\ Len(s) \in Nat
        BY <1>0, <3>2
      <4> QED BY <4>1, FoundIs, Zenon DEF Find
    <3>6. \A h \in 1..((n + 1) - 1) : SubSeq(s, h, h + 1 - 1) # <<".">>
      BY <1>0, <3>3, <3>4, <3>5 DEF FoundAt
    <3>7. \A h \in 1..n : h \in 1..((n + 1) - 1) /\ h \in 1..Len(s)
      BY <3>2, <3>4
    <3>8. \A h \in 1..n : s[h] # "."
      BY <1>3, <3>2, <3>6, <3>7, Zenon
    <3> QED BY <3>2, <3>4, <3>8, Zenon DEF NoDots
  <2> QED BY <2>2, <2>3
<1>5. CASE Len(list) > 1 /\ Last(list) = << >>
  <2> DEFINE front == SubSeq(list, 1, Len(list) - 1)
  <2>1. SplitScopes(name) = front
    BY <1>5 DEF SplitScopes, Front, list
  <2>2. front \in Seq(S) /\ Len(front) = Len(list) - 1
        /\ \A i \in 1..(Len(list) - 1) : front[i] = list[i]
    BY <1>1, <1>5
  <2>3. front # << >>
    <3>1. Len(list) \in Nat /\ Len(<< >>) = 0
      BY <1>1
    <3>2. Len(front) = Len(list) - 1
      BY <2>2
    <3> HIDE DEF front
    <3> QED BY <1>5, <3>1, <3>2
  <2> HIDE DEF front
  <2>4. \A i \in 1..Len(front) : i \in 1..Len(list) /\ front[i] = list[i]
    BY <1>1, <2>2
  <2> QED BY <1>4, <2>1, <2>2, <2>3, <2>4 DEF S
<1>6. CASE ~(Len(list) > 1 /\ Last(list) = << >>)
  <2>1. SplitScopes(name) = list
    BY <1>6 DEF SplitScopes, list
  <2> QED BY <1>1, <1>4, <2>1 DEF S
<1> QED BY <1>5, <1>6

\* Where uid- is not found no name begins with it.
LEMMA NoUidFound ==
  ASSUME NEW name \in Seq(Byte), Find(name, UidToken) = 0
  PROVE  UidIn(name) = {}
<1> HIDE DEF Byte
<1> SUFFICES ASSUME NEW p \in UidIn(name) PROVE FALSE
  OBVIOUS
<1>1. UidToken \in Seq(Byte) /\ Len(UidToken) = 4 /\ Len(name) \in Nat
  BY UidTokenIs
<1>2. p \in 1..Len(name) /\ StartsWithUidToken(From(name, p))
  BY DEF UidIn
<1> DEFINE s == From(name, p)
<1>3. s \in Seq(Byte) /\ Len(s) = Len(name) - p + 1
      /\ \A h \in 1..(Len(name) - p + 1) : s[h] = name[p + h - 1]
  BY <1>2 DEF From
<1> HIDE DEF s
<1>4. BeginsWithUid(s) /\ SubSeq(s, 1, 4) = UidToken
  BY <1>2, <1>3, BeginsIs DEF s
<1>5. p \in 1..(Len(name) - 4 + 1)
  BY <1>1, <1>2, <1>3, <1>4 DEF BeginsWithUid
<1>6. SubSeq(name, p, p + 4 - 1) = UidToken
  <2> DEFINE t == SubSeq(name, p, p + 4 - 1)
  <2>1. t \in Seq(Byte) /\ Len(t) = 4 /\ \A h \in 1..4 : t[h] = name[p + h - 1]
    BY <1>1, <1>5
  <2> DEFINE u == SubSeq(s, 1, 4)
  <2>2. u \in Seq(Byte) /\ Len(u) = 4 /\ \A h \in 1..4 : u[h] = s[h]
    BY <1>1, <1>3, <1>5
  <2>3. \A h \in 1..4 : h \in 1..(Len(name) - p + 1)
    BY <1>1, <1>5
  <2> HIDE DEF t, u
  <2>4. \A h \in 1..4 : t[h] = u[h]
    BY <1>3, <2>1, <2>2, <2>3
  <2>5. t = u
    BY <2>1, <2>2, <2>4, SeqEqual
  <2> QED BY <1>4, <2>5 DEF t, u
<1>7. FoundAt(0, name, UidToken, 1)
  <2>1. 1 \in Nat \ {0} /\ Len(UidToken) \in Nat
    BY <1>1
  <2> QED BY <1>1, <2>1, FoundIs, Zenon DEF Find
<1> QED BY <1>1, <1>5, <1>6, <1>7 DEF FoundAt

\* The numbers taken by the parts before one.
Taken(parts, i) == Cardinality({j \in 1..(i - 1) : StartsWithUidToken(parts[j])})

LEMMA TakenIs ==
  ASSUME NEW parts
  PROVE  /\ Taken(parts, 1) = 0
         /\ \A i \in Nat \ {0} :
              /\ Taken(parts, i) \in Nat
              /\ Taken(parts, i + 1) = IF StartsWithUidToken(parts[i]) THEN Taken(parts, i) + 1
                                       ELSE Taken(parts, i)
<1> DEFINE T(i) == {j \in 1..(i - 1) : StartsWithUidToken(parts[j])}
<1>1. T(1) = {}
  OBVIOUS
<1>2. \A i \in Nat : IsFiniteSet(T(i))
  <2> SUFFICES ASSUME NEW i \in Nat PROVE IsFiniteSet(T(i))
    OBVIOUS
  <2>1. IsFiniteSet(1..(i - 1))
    BY FS_Interval
  <2>2. T(i) \subseteq 1..(i - 1)
    OBVIOUS
  <2> HIDE DEF T
  <2> QED BY <2>1, <2>2, FS_Subset
<1>3. ASSUME NEW i \in Nat \ {0}
      PROVE  T(i + 1) = (IF StartsWithUidToken(parts[i]) THEN T(i) \cup {i} ELSE T(i)) /\ i \notin T(i)
  <2>1. 1..((i + 1) - 1) = (1..(i - 1)) \cup {i} /\ i \notin 1..(i - 1)
    OBVIOUS
  <2>2. \A j : j \in T(i + 1) <=> (j \in 1..(i - 1) \/ j = i) /\ StartsWithUidToken(parts[j])
    BY <2>1
  <2>3. \A j : j \in T(i) <=> j \in 1..(i - 1) /\ StartsWithUidToken(parts[j])
    OBVIOUS
  <2> HIDE DEF T
  <2>4. i \notin T(i)
    BY <2>1, <2>3
  <2>5. CASE StartsWithUidToken(parts[i])
    <3>1. T(i + 1) = T(i) \cup {i}
      BY <2>2, <2>3, <2>5
    <3> QED BY <2>4, <2>5, <3>1
  <2>6. CASE ~StartsWithUidToken(parts[i])
    <3>1. T(i + 1) = T(i)
      BY <2>2, <2>3, <2>6
    <3> QED BY <2>4, <2>6, <3>1
  <2> QED BY <2>5, <2>6
<1>4. \A i \in Nat : Taken(parts, i) = Cardinality(T(i))
  BY DEF Taken
<1> HIDE DEF T
<1>5. Taken(parts, 1) = 0
  BY <1>1, <1>4, FS_EmptySet
<1>6. ASSUME NEW i \in Nat \ {0}
      PROVE  /\ Taken(parts, i) \in Nat
             /\ Taken(parts, i + 1) = IF StartsWithUidToken(parts[i]) THEN Taken(parts, i) + 1
                                      ELSE Taken(parts, i)
  <2>1. Cardinality(T(i)) \in Nat
    BY <1>2, FS_CardinalityType
  <2>2. Cardinality(T(i) \cup {i}) = Cardinality(T(i)) + 1
    BY <1>2, <1>3, FS_AddElement
  <2> QED BY <1>3, <1>4, <2>1, <2>2
<1> QED BY <1>5, <1>6

LEMMA ExpandParts ==
  ASSUME NEW name \in Seq(Byte), NEW c \in 0..Limit, Find(name, UidToken) # 0
  PROVE  LET parts == SplitScopes(name)
         IN  Expand(name, c) =
               Together([i \in DOMAIN parts |-> ExpandOne(parts[i], c + Taken(parts, i))])
<1> DEFINE parts == SplitScopes(name)
           results == [i \in DOMAIN parts |-> ExpandOne(parts[i], c + Taken(parts, i))]
<1>1. PartByPart(parts, c, ExpandOne) = results
  BY DEF PartByPart, Taken
<1>2. {PartByPart(p, c, ExpandOne) : p \in {SplitScopes(name)}} = {results}
  BY <1>1
<1>3. {Together(r) : r \in {PartByPart(p, c, ExpandOne) : p \in {SplitScopes(name)}}}
      = {Together(results)}
  BY <1>2
<1> HIDE DEF results
<1>4. (CHOOSE result \in {Together(results)} : TRUE) = Together(results)
  OBVIOUS
<1>5. Expand(name, c) = Together(results)
  BY <1>3, <1>4 DEF Expand, EachPart
<1> QED BY <1>5 DEF results

\* expand: what the names with uid- in a name become, and the numbers left.
LEMMA ExpandIs ==
  ASSUME NEW name \in Seq(Byte), NEW c \in 0..Limit
  PROVE  LET r == Expand(name, c)
         IN  /\ r.count \in c..Limit
             /\ \/ r.exc = "none" /\ r.name \in Seq(Byte) /\ InOrder(r.name, c, r.count)
                \/ r.exc = "config"
                \/ r.exc = "foreign" /\ r.count = Limit
<1> HIDE DEF Byte
<1>0. Limit \in Nat /\ c \in Nat /\ c <= Limit
  <2>1. Width \in 0..Width
    BY NumbersHaveDigits
  <2>2. Limit \in Nat
    BY <2>1, PowerIs DEF Limit
  <2> QED BY <2>2
<1>1. CASE Find(name, UidToken) = 0
  <2>1. Expand(name, c) = Named(name, c)
    BY <1>1 DEF Expand, EachPart
  <2>2. InOrder(name, c, c)
    BY <1>1, NoUidFound, Zenon DEF InOrder
  <2> QED BY <1>0, <2>1, <2>2 DEF Named
<1>2. CASE Find(name, UidToken) # 0
  <2> DEFINE parts == SplitScopes(name)
             n == Len(parts)
             at == [i \in 1..(n + 1) |-> c + Taken(parts, i)]
             results == [i \in DOMAIN parts |-> ExpandOne(parts[i], c + Taken(parts, i))]
             failed == {i \in DOMAIN results : results[i].exc # "none"}
  <2>1. Expand(name, c) = Together(results)
    BY <1>2, ExpandParts
  <2>2. /\ parts \in Seq(Seq(Byte)) /\ n \in Nat \ {0} /\ DOMAIN parts = 1..n
        /\ \A i \in 1..n : NoDots(parts[i]) /\ parts[i] \in Seq(Byte)
    <3>1. parts \in Seq(Seq(Byte)) /\ parts # << >> /\ \A i \in 1..Len(parts) : NoDots(parts[i])
      BY PartsAre
    <3> HIDE DEF parts
    <3> QED BY <3>1
  <2> HIDE DEF parts, n
  <2>3. /\ at[1] = c
        /\ \A i \in 1..(n + 1) : at[i] \in Nat /\ c <= at[i]
        /\ \A i \in 1..n : /\ at[i + 1] = IF StartsWithUidToken(parts[i]) THEN at[i] + 1 ELSE at[i]
                           /\ results[i] = ExpandOne(parts[i], at[i])
                           /\ i \in 1..(n + 1) /\ i + 1 \in 1..(n + 1)
    <3>1. 1 \in 1..(n + 1) /\ Taken(parts, 1) = 0
      BY <2>2, TakenIs
    <3>2. \A i \in 1..(n + 1) : Taken(parts, i) \in Nat /\ i \in Nat \ {0}
      <4>1. \A i \in 1..(n + 1) : i \in Nat \ {0}
        BY <2>2
      <4> QED BY <4>1, TakenIs, Zenon
    <3>3. \A i \in 1..n : i \in 1..(n + 1) /\ i + 1 \in 1..(n + 1)
      BY <2>2
    <3>4. at[1] = c
      BY <1>0, <3>1
    <3>5. \A i \in 1..(n + 1) : at[i] \in Nat /\ c <= at[i]
      BY <1>0, <3>2
    <3>6. \A i \in 1..n : at[i + 1] = IF StartsWithUidToken(parts[i]) THEN at[i] + 1 ELSE at[i]
      <4> SUFFICES ASSUME NEW i \in 1..n
                   PROVE  at[i + 1] = IF StartsWithUidToken(parts[i]) THEN at[i] + 1 ELSE at[i]
        OBVIOUS
      <4>1. at[i] = c + Taken(parts, i) /\ at[i + 1] = c + Taken(parts, i + 1)
        BY <3>3
      <4>2. Taken(parts, i + 1) = IF StartsWithUidToken(parts[i]) THEN Taken(parts, i) + 1
                                  ELSE Taken(parts, i)
        BY <3>2, <3>3, TakenIs, Zenon
      <4>3. Taken(parts, i) \in Nat
        BY <3>2, <3>3
      <4> HIDE DEF at
      <4> QED BY <1>0, <4>1, <4>2, <4>3
    <3>7. \A i \in 1..n : results[i] = ExpandOne(parts[i], at[i])
      BY <2>2, <3>3
    <3> QED BY <3>3, <3>4, <3>5, <3>6, <3>7
  <2>4. DOMAIN results = 1..n
    BY <2>2
  <2> HIDE DEF at, results
  <2>5. ASSUME NEW i \in 1..n, at[i] <= Limit
        PROVE  LET r == results[i]
               IN  \/ /\ r.exc = "none" /\ r.count = at[i + 1] /\ at[i + 1] <= Limit
                      /\ r.name \in Seq(Byte) /\ NoDots(r.name) /\ InOrder(r.name, at[i], at[i + 1])
                   \/ r.exc = "config" /\ r.count = at[i]
                   \/ r.exc = "foreign" /\ r.count = at[i] /\ at[i] = Limit
    <3>1. at[i] \in 0..Limit /\ parts[i] \in Seq(Byte) /\ NoDots(parts[i])
      BY <1>0, <2>2, <2>3, <2>5
    <3>2. results[i] = ExpandOne(parts[i], at[i])
          /\ at[i + 1] = IF StartsWithUidToken(parts[i]) THEN at[i] + 1 ELSE at[i]
      BY <2>3
    <3> DEFINE r == ExpandOne(parts[i], at[i])
               e == IF StartsWithUidToken(parts[i]) THEN at[i] + 1 ELSE at[i]
    <3>3. \/ /\ r.exc = "none" /\ r.count = e /\ e \in 0..Limit
             /\ r.name \in Seq(Byte) /\ NoDots(r.name) /\ InOrder(r.name, at[i], e)
          \/ r.exc = "config" /\ r.count = at[i]
          \/ r.exc = "foreign" /\ r.count = at[i] /\ at[i] = Limit
      BY <3>1, OneIs
    <3>4. e \in 0..Limit => e <= Limit
      BY <1>0
    <3> HIDE DEF r, e
    <3>5. results[i] = r /\ at[i + 1] = e
      BY <3>2 DEF r, e
    <3> QED BY <3>3, <3>4, <3>5
  \* Up to the first part that fails there are numbers.
  <2>6. ASSUME NEW k \in 1..(n + 1), \A j \in 1..n : j < k => j \notin failed
        PROVE  at[k] <= Limit
    <3> DEFINE Bad == {i \in 1..k : ~(at[i] <= Limit)}
    <3>1. Bad = {}
      <4> SUFFICES ASSUME Bad # {} PROVE FALSE
        OBVIOUS
      <4>1. PICK i \in Bad : \A h \in Bad : i <= h
        <5>1. Bad \subseteq Nat
          BY <2>2
        <5> HIDE DEF Bad
        <5> QED BY <5>1, SmallestIs, Zenon
      <4>2. i \in 1..k /\ ~(at[i] <= Limit)
        BY <4>1
      <4>3. i # 1
        BY <1>0, <2>3, <4>2
      <4> DEFINE j == i - 1
      <4>4. j \in 1..k /\ j \in 1..n /\ j < k /\ j + 1 = i /\ ~(i <= j)
        BY <2>2, <4>2, <4>3
      <4> HIDE DEF j
      <4>5. at[j] <= Limit
        BY <4>1, <4>4
      <4>6. results[j].exc = "none"
        BY <2>4, <2>6, <4>4
      <4>7. at[j + 1] <= Limit
        BY <2>5, <4>4, <4>5, <4>6
      <4> QED BY <4>2, <4>4, <4>7
    <3>2. k \in 1..k
      BY <2>2
    <3> QED BY <3>1, <3>2
  <2>7. CASE failed # {}
    <3> DEFINE k == Min(failed)
    <3>1. failed \subseteq Nat /\ failed \subseteq 1..n
      BY <2>2, <2>4
    <3> HIDE DEF failed
    <3>2. k \in failed /\ \A j \in failed : k <= j
      BY <2>7, <3>1, MinIs, Zenon
    <3> HIDE DEF k
    <3>3. k \in 1..n /\ k \in 1..(n + 1) /\ \A j \in 1..n : j < k => j \notin failed
      BY <2>2, <3>1, <3>2
    <3>4. at[k] <= Limit
      BY <2>6, <3>3
    <3>5. Expand(name, c) = results[k]
      BY <2>1, <2>7 DEF Together, failed, k
    <3>6. results[k].exc # "none"
      BY <3>2 DEF failed
    <3>7. \/ results[k].exc = "config" /\ results[k].count = at[k]
          \/ results[k].exc = "foreign" /\ results[k].count = at[k] /\ at[k] = Limit
      BY <2>5, <3>3, <3>4, <3>6
    <3>8. at[k] \in c..Limit
      BY <1>0, <2>3, <3>3, <3>4
    <3> QED BY <3>5, <3>7, <3>8
  <2>8. CASE failed = {}
    <3> DEFINE names == [i \in DOMAIN results |-> results[i].name]
               text == Join(names, <<".">>)
    <3>1. ASSUME NEW i \in 1..n
          PROVE  /\ results[i].count = at[i + 1] /\ results[i].name \in Seq(Byte)
                 /\ NoDots(results[i].name) /\ InOrder(results[i].name, at[i], at[i + 1])
      <4>1. at[i] <= Limit
        BY <2>3, <2>6, <2>8
      <4>2. results[i].exc = "none"
        BY <2>4, <2>8
      <4> QED BY <2>5, <4>1, <4>2
    <3>2. /\ names \in Seq(Seq(Byte)) /\ Len(names) = n
          /\ \A i \in 1..n : names[i] = results[i].name
      <4> DEFINE S == Seq(Byte)
      <4>1. \A i \in 1..n : results[i].name \in S
        BY <3>1
      <4> HIDE DEF S
      <4>2. names \in [1..n -> S]
        BY <2>4, <4>1
      <4>3. names \in Seq(S) /\ Len(names) = n
        BY <2>2, <4>2
      <4> QED BY <2>4, <4>3 DEF S
    <3>3. at[n + 1] <= Limit /\ at[n + 1] \in Nat /\ c <= at[n + 1]
      BY <2>2, <2>3, <2>6, <2>8
    <3>4. \A i \in 1..n : at[i] <= at[i + 1]
      BY <2>3
    <3>5. Expand(name, c) = Named(text, Last(results).count)
      BY <2>1, <2>8 DEF Together
    <3>6. Last(results) = results[n]
      <4>1. Len(results) = n
        BY <2>2, <2>4
      <4> QED BY <4>1 DEF Last
    <3> HIDE DEF names
    <3>7. InOrder(text, c, at[n + 1])
      <4>1. names # << >>
        BY <2>2, <3>2
      <4>2. \A i \in 1..Len(names) : /\ NoDots(names[i])
                                     /\ InOrder(names[i], at[i], at[i + 1])
                                     /\ at[i] <= at[i + 1]
        BY <3>1, <3>2, <3>4
      <4>3. \A i \in 1..(Len(names) + 1) : at[i] \in Nat
        BY <2>3, <3>2
      <4>4. InOrder(Join(names, <<".">>), at[1], at[Len(names) + 1])
        BY <3>2, <4>1, <4>2, <4>3, OrderOfJoin
      <4> QED BY <2>3, <3>2, <4>4
    <3>8. text \in Seq(Byte)
      BY <3>2, UidTokenIs, JoinType
    <3>9. Last(results).count = at[n + 1]
      BY <2>2, <3>1, <3>6
    <3> HIDE DEF text
    <3>10. at[n + 1] \in c..Limit
      BY <1>0, <3>3
    <3> QED BY <3>5, <3>7, <3>8, <3>9, <3>10 DEF Named
  <2> QED BY <2>7, <2>8
<1> QED BY <1>1, <1>2

----------------------------------------------------------------------------
(* The names of a source. *)

\* The names with uid- of the tokens carry numbers before c, in their order.
TokensInOrder(list, c) ==
  /\ \A i \in DOMAIN list : list[i].type = "ident" =>
       list[i].text \in Seq(Byte) /\ InOrder(list[i].text, 0, c)
  /\ \A i, j \in DOMAIN list : i < j /\ list[i].type = "ident" /\ list[j].type = "ident" =>
       \A p \in UidIn(list[i].text), q \in UidIn(list[j].text) :
         \E m, n \in 0..(c - 1) : /\ m < n
                                  /\ HasNumber(From(list[i].text, p), m)
                                  /\ HasNumber(From(list[j].text, q), n)

LEMMA OrderKept ==
  ASSUME NEW text, NEW b \in Nat, NEW c \in Nat, NEW d \in Nat, NEW e \in Nat,
         b <= c, d <= e, InOrder(text, c, d)
  PROVE  InOrder(text, b, e)
<1>1. \A n \in c..(d - 1) : n \in b..(e - 1)
  OBVIOUS
<1> QED BY <1>1, Zenon DEF InOrder

LEMMA TokensKept ==
  ASSUME NEW list, NEW c \in Nat, NEW d \in Nat, c <= d, TokensInOrder(list, c)
  PROVE  TokensInOrder(list, d)
<1> HIDE DEF Byte
<1>1. \A n \in 0..(c - 1) : n \in 0..(d - 1)
  OBVIOUS
<1>2. \A i \in DOMAIN list : list[i].type = "ident" => InOrder(list[i].text, 0, d)
  <2>1. 0 \in Nat /\ 0 <= 0
    OBVIOUS
  <2> QED BY <2>1, OrderKept, Zenon DEF TokensInOrder
<1>3. ASSUME NEW i \in DOMAIN list, NEW j \in DOMAIN list, i < j, list[i].type = "ident",
             list[j].type = "ident", NEW p \in UidIn(list[i].text), NEW q \in UidIn(list[j].text)
      PROVE  \E m, n \in 0..(d - 1) : /\ m < n
                                      /\ HasNumber(From(list[i].text, p), m)
                                      /\ HasNumber(From(list[j].text, q), n)
  <2>1. PICK m \in 0..(c - 1), n \in 0..(c - 1) :
          /\ m < n
          /\ HasNumber(From(list[i].text, p), m)
          /\ HasNumber(From(list[j].text, q), n)
    BY <1>3, Zenon DEF TokensInOrder
  <2> QED BY <1>1, <2>1, Zenon
<1> QED BY <1>2, <1>3, Zenon DEF TokensInOrder

\* A token more.
LEMMA TokensMore ==
  ASSUME NEW list, IsSeq(list), NEW c \in Nat, NEW d \in Nat, c <= d, TokensInOrder(list, c),
         NEW token,
         token.type = "ident" => token.text \in Seq(Byte) /\ InOrder(token.text, c, d)
  PROVE  TokensInOrder(Append(list, token), d)
<1> HIDE DEF Byte
<1> DEFINE more == Append(list, token)
           k == Len(list)
<1>1. /\ k \in Nat /\ DOMAIN list = 1..k /\ DOMAIN more = 1..(k + 1)
      /\ more[k + 1] = token /\ \A i \in 1..k : more[i] = list[i]
  <2> DEFINE S == {list[i] : i \in 1..Len(list)} \cup {token}
  <2>1. k \in Nat /\ list = [i \in 1..k |-> list[i]] /\ \A i \in 1..k : list[i] \in S
    BY DEF IsSeq
  <2> HIDE DEF S, k
  <2>2. [i \in 1..k |-> list[i]] \in Seq(S)
    BY <2>1
  <2>3. list \in Seq(S) /\ token \in S
    BY <2>1, <2>2 DEF S
  <2>4. Len(list) = k
    BY DEF k
  <2> QED BY <2>1, <2>3, <2>4
<1> HIDE DEF more, k
<1>2. TokensInOrder(list, d)
  BY TokensKept
<1>3. \A i \in DOMAIN more : i \in DOMAIN list \/ i = k + 1
  BY <1>1
<1>4. ASSUME NEW i \in DOMAIN more, more[i].type = "ident"
      PROVE  more[i].text \in Seq(Byte) /\ InOrder(more[i].text, 0, d)
  <2>1. CASE i \in DOMAIN list
    <3>1. more[i] = list[i]
      BY <1>1, <2>1
    <3> QED BY <1>2, <1>4, <2>1, <3>1, Zenon DEF TokensInOrder
  <2>2. CASE i = k + 1
    <3>1. more[i] = token
      BY <1>1, <2>2
    <3>2. InOrder(token.text, 0, d)
      <4>1. 0 \in Nat /\ 0 <= c /\ d <= d
        OBVIOUS
      <4> QED BY <1>4, <3>1, <4>1, OrderKept, Zenon
    <3> QED BY <1>4, <3>1, <3>2
  <2> QED BY <1>3, <2>1, <2>2
<1>5. ASSUME NEW i \in DOMAIN more, NEW j \in DOMAIN more, i < j, more[i].type = "ident",
             more[j].type = "ident", NEW p \in UidIn(more[i].text), NEW q \in UidIn(more[j].text)
      PROVE  \E m, n \in 0..(d - 1) : /\ m < n
                                      /\ HasNumber(From(more[i].text, p), m)
                                      /\ HasNumber(From(more[j].text, q), n)
  <2>1. i \in DOMAIN list /\ more[i] = list[i]
    BY <1>1, <1>5
  <2>2. CASE j \in DOMAIN list
    <3>1. more[j] = list[j]
      BY <1>1, <2>2
    <3> QED BY <1>2, <1>5, <2>1, <2>2, <3>1, Zenon DEF TokensInOrder
  <2>3. CASE j = k + 1
    <3>1. more[j] = token
      BY <1>1, <2>3
    <3>2. PICK m \in 0..(c - 1) : HasNumber(From(more[i].text, p), m)
      BY <1>5, <2>1, Zenon DEF TokensInOrder, InOrder
    <3>3. PICK n \in c..(d - 1) : HasNumber(From(more[j].text, q), n)
      BY <1>5, <3>1, Zenon DEF InOrder
    <3>4. m < n /\ m \in 0..(d - 1) /\ n \in 0..(d - 1)
      OBVIOUS
    <3> QED BY <3>2, <3>3, <3>4, Zenon
  <2> QED BY <1>3, <2>2, <2>3
<1>6. TokensInOrder(more, d)
  BY <1>4, <1>5, Zenon DEF TokensInOrder
<1> QED BY <1>6 DEF more

OrderInv ==
  /\ LinesInv
  /\ count \in 0..Limit /\ (exc = "foreign" => count = Limit)
  /\ mode = "ident" => word \in Seq(Byte)
  /\ UidLexer => TokensInOrder(tokens, count)

LEMMA InitOrder == Init => OrderInv
<1> SUFFICES ASSUME Init PROVE OrderInv
  OBVIOUS
<1>1. Limit \in Nat
  <2>1. Width \in 0..Width
    BY NumbersHaveDigits
  <2> QED BY <2>1, PowerIs DEF Limit
<1>2. mode = "between" /\ count = 0 /\ tokens = << >>
  BY DEF Init
<1>3. exc # "foreign"
  BY Zenon DEF Init
<1>4. TokensInOrder(tokens, count)
  BY <1>2 DEF TokensInOrder
<1> QED BY <1>1, <1>2, <1>3, <1>4, InitLines DEF OrderInv

\* Steps that return no name.
NoName ==
  /\ exc' # "foreign" /\ UNCHANGED count
  /\ tokens' = tokens \/ \E token : token.type # "ident" /\ tokens' = Append(tokens, token)
  /\ mode' = "ident" => word' \in Seq(Byte)

LEMMA NoNameKeeps ==
  ASSUME OrderInv, [Next]_vars, NoName
  PROVE  OrderInv'
<1> HIDE DEF Byte
<1>1. LinesInv'
  BY NextLines DEF OrderInv
<1>2. Limit \in Nat /\ count \in 0..Limit /\ count \in Nat
  <2>1. Width \in 0..Width
    BY NumbersHaveDigits
  <2>2. Limit \in Nat
    BY <2>1, PowerIs DEF Limit
  <2> QED BY <2>2 DEF OrderInv
<1>3. ASSUME UidLexer PROVE TokensInOrder(tokens', count)
  <2>1. TokensInOrder(tokens, count) /\ IsSeq(tokens)
    BY <1>3 DEF OrderInv, LinesInv, Numbered
  <2>2. ASSUME NEW token, token.type # "ident", tokens' = Append(tokens, token)
        PROVE  TokensInOrder(tokens', count)
    <3>1. count <= count
      BY <1>2
    <3>2. TokensInOrder(Append(tokens, token), count)
      BY <1>2, <2>1, <2>2, <3>1, TokensMore, Zenon
    <3> QED BY <2>2, <3>2
  <2> QED BY <2>1, <2>2, Zenon DEF NoName
<1>4. count' = count /\ exc' # "foreign" /\ (mode' = "ident" => word' \in Seq(Byte))
  BY DEF NoName
<1>5. UidLexer => TokensInOrder(tokens', count')
  BY <1>3, <1>4
<1> QED BY <1>1, <1>2, <1>4, <1>5 DEF OrderInv

LEMMA ReadsOn ==
  ASSUME exc = "none", NextChar \/ Stay
  PROVE  exc' # "foreign"
<1>1. CASE NextChar
  <2>1. exc' = "config" \/ exc' = exc
    BY <1>1 DEF NextChar
  <2> QED BY <2>1
<1>2. CASE Stay
  BY <1>2 DEF Stay
<1> QED BY <1>1, <1>2

\* Another token than a name is returned, or one goes on.
LEMMA ReturnsOther ==
  ASSUME exc = "none", NextChar \/ Stay, UNCHANGED count, NEW type, type # "ident",
         NEW text, NEW since, ReturnToken(type, text, since)
  PROVE  NoName
<1> DEFINE token == [type |-> type, text |-> text, line |-> since.line, at |-> since.at]
<1>1. token.type # "ident"
  OBVIOUS
<1>2. (tokens' = tokens \/ tokens' = Append(tokens, token)) /\ mode' = "between"
  BY Zenon DEF ReturnToken
<1> HIDE DEF token
<1>3. mode' # "ident"
  BY <1>2
<1> QED BY <1>1, <1>2, <1>3, ReadsOn, Zenon DEF NoName

LEMMA NoToken ==
  ASSUME exc = "none", NextChar \/ Stay, UNCHANGED <<count, tokens>>, mode' # "ident"
  PROVE  NoName
BY ReadsOn, Zenon DEF NoName

LEMMA SignSteps ==
  ASSUME SkipSpace \/ EndOfSource \/ SingleChar \/ FirstOfPair \/ SecondOfPair \/ UnknownChar
  PROVE  NoName
<1>1. exc = "none" /\ UNCHANGED count
  BY DEF SkipSpace, EndOfSource, SingleChar, FirstOfPair, SecondOfPair, UnknownChar, AtToken, In
<1>2. CASE SkipSpace
  <2>1. NextChar /\ UNCHANGED tokens /\ mode' = "between"
    BY <1>2 DEF SkipSpace, In
  <2>2. mode' # "ident"
    BY <2>1
  <2> QED BY <1>1, <2>1, <2>2, NoToken
<1>3. CASE EndOfSource
  <2> DEFINE token == [type |-> "eof", text |-> << >>, line |-> line, at |-> 0]
  <2>1. tokens' = Append(tokens, token) /\ mode' = "done" /\ Stay
    BY <1>3 DEF EndOfSource
  <2>2. token.type # "ident" /\ mode' # "ident"
    BY <2>1
  <2> HIDE DEF token
  <2> QED BY <1>1, <2>1, <2>2, ReadsOn, Zenon DEF NoName
<1>4. CASE SingleChar
  <2>1. ch.byte \in Single /\ NextChar /\ ReturnToken(ch.byte, << >>, Here)
    BY <1>4 DEF SingleChar
  <2>2. ch.byte # "ident"
    BY <2>1 DEF Single
  <2> QED BY <1>1, <2>1, <2>2, ReturnsOther
<1>5. CASE FirstOfPair
  <2>1. NextChar /\ UNCHANGED tokens /\ mode' = "pair"
    BY <1>5 DEF FirstOfPair, Begin
  <2>2. mode' # "ident"
    BY <2>1
  <2> QED BY <1>1, <2>1, <2>2, NoToken
<1>6. CASE SecondOfPair
  <2> DEFINE U == IF word[1] \in {"=", "!"} THEN word[1] ELSE "unknown"
  <2>1. \/ \E pair \in Pairs : NextChar /\ ReturnToken(pair[3], << >>, begun)
        \/ Stay /\ ReturnToken(U, << >>, begun)
    BY <1>6 DEF SecondOfPair
  <2>2. (\A pair \in Pairs : pair[3] # "ident") /\ U # "ident"
    BY DEF Pairs
  <2> HIDE DEF U
  <2>3. ASSUME NEW T, T # "ident", NextChar, ReturnToken(T, << >>, begun) PROVE NoName
    BY <1>1, <2>3, ReturnsOther
  <2>4. CASE Stay /\ ReturnToken(U, << >>, begun)
    BY <1>1, <2>2, <2>4, ReturnsOther
  <2> QED BY <2>1, <2>2, <2>3, <2>4, Zenon
<1>7. CASE UnknownChar
  <2>1. NextChar /\ ReturnToken("unknown", <<ch.byte>>, Here)
    BY <1>7 DEF UnknownChar
  <2>2. "unknown" # "ident"
    OBVIOUS
  <2> QED BY <1>1, <2>1, <2>2, ReturnsOther
<1> QED BY <1>2, <1>3, <1>4, <1>5, <1>6, <1>7

LEMMA WordSteps ==
  ASSUME BeginKeyword \/ InKeyword \/ BeginComment \/ InComment
  PROVE  NoName
<1>1. exc = "none" /\ UNCHANGED count
  BY DEF BeginKeyword, InKeyword, BeginComment, InComment, AtToken, In
<1>2. CASE BeginKeyword
  <2>1. NextChar /\ UNCHANGED tokens /\ mode' = "keyword"
    BY <1>2 DEF BeginKeyword, Begin
  <2>2. mode' # "ident"
    BY <2>1
  <2> QED BY <1>1, <2>1, <2>2, NoToken
<1>3. CASE InKeyword
  <2> DEFINE T == IF word \in Keyword THEN "keyword" ELSE "unknown"
  <2>1. \/ NextChar /\ GoOn(Append(word, ch.byte)) /\ mode = "keyword"
        \/ Stay /\ ReturnToken(T, word, begun)
    BY <1>3 DEF InKeyword, In
  <2>2. T # "ident"
    OBVIOUS
  <2> HIDE DEF T
  <2>3. CASE NextChar /\ GoOn(Append(word, ch.byte)) /\ mode = "keyword"
    <3>1. UNCHANGED tokens /\ mode' = "keyword"
      BY <2>3 DEF GoOn
    <3>2. mode' # "ident"
      BY <3>1
    <3> QED BY <1>1, <2>3, <3>1, <3>2, NoToken
  <2>4. CASE Stay /\ ReturnToken(T, word, begun)
    BY <1>1, <2>2, <2>4, ReturnsOther
  <2> QED BY <2>1, <2>3, <2>4
<1>4. CASE BeginComment
  <2>1. NextChar /\ UNCHANGED tokens /\ mode' = "comment"
    BY <1>4 DEF BeginComment, Begin
  <2>2. mode' # "ident"
    BY <2>1
  <2> QED BY <1>1, <2>1, <2>2, NoToken
<1>5. CASE InComment
  <2>1. (NextChar \/ Stay) /\ UNCHANGED tokens /\ (mode' = "between" \/ mode' = "comment")
    BY <1>5, Zenon DEF InComment
  <2>2. mode' # "ident"
    BY <2>1
  <2> QED BY <1>1, <2>1, <2>2, NoToken
<1> QED BY <1>2, <1>3, <1>4, <1>5

LEMMA StringSteps ==
  ASSUME BeginString \/ InString \/ InEscape
  PROVE  NoName
<1>1. exc = "none" /\ UNCHANGED count
  BY DEF BeginString, InString, InEscape, AtToken, In
<1>2. CASE BeginString
  <2>1. NextChar /\ UNCHANGED tokens /\ mode' = "string"
    BY <1>2 DEF BeginString, Begin
  <2>2. mode' # "ident"
    BY <2>1
  <2> QED BY <1>1, <2>1, <2>2, NoToken
<1>3. CASE InString
  <2>1. \/ NextChar /\ ReturnToken("string", word, begun)
        \/ Stay /\ ReturnToken("stringWithEol", word, begun)
        \/ NextChar /\ mode' = "escape" /\ UNCHANGED tokens
        \/ NextChar /\ GoOn(Append(word, ch.byte)) /\ mode = "string"
    BY <1>3 DEF InString, In
  <2>2. "string" # "ident" /\ "stringWithEol" # "ident"
    OBVIOUS
  <2>3. CASE NextChar /\ ReturnToken("string", word, begun)
    BY <1>1, <2>2, <2>3, ReturnsOther
  <2>4. CASE Stay /\ ReturnToken("stringWithEol", word, begun)
    BY <1>1, <2>2, <2>4, ReturnsOther
  <2>5. CASE NextChar /\ mode' = "escape" /\ UNCHANGED tokens
    <3>1. mode' # "ident"
      BY <2>5
    <3> QED BY <1>1, <2>5, <3>1, NoToken
  <2>6. CASE NextChar /\ GoOn(Append(word, ch.byte)) /\ mode = "string"
    <3>1. UNCHANGED tokens /\ mode' = "string"
      BY <2>6 DEF GoOn
    <3>2. mode' # "ident"
      BY <3>1
    <3> QED BY <1>1, <2>6, <3>1, <3>2, NoToken
  <2> QED BY <2>1, <2>3, <2>4, <2>5, <2>6
<1>4. CASE InEscape
  <2>1. \/ Stay /\ ReturnToken("stringWithEol", word, begun)
        \/ NextChar /\ mode' = "string" /\ UNCHANGED tokens
        \/ exc' = "config" /\ mode' = mode /\ mode = "escape" /\ UNCHANGED tokens
    BY <1>4 DEF InEscape, In
  <2>2. CASE Stay /\ ReturnToken("stringWithEol", word, begun)
    <3>1. "stringWithEol" # "ident"
      OBVIOUS
    <3> QED BY <1>1, <2>2, <3>1, ReturnsOther
  <2>3. CASE NextChar /\ mode' = "string" /\ UNCHANGED tokens
    <3>1. mode' # "ident"
      BY <2>3
    <3> QED BY <1>1, <2>3, <3>1, NoToken
  <2>4. CASE exc' = "config" /\ mode' = mode /\ mode = "escape" /\ UNCHANGED tokens
    <3>1. mode' # "ident" /\ exc' # "foreign"
      BY <2>4
    <3> QED BY <1>1, <2>4, <3>1, Zenon DEF NoName
  <2> QED BY <2>1, <2>2, <2>3, <2>4
<1> QED BY <1>2, <1>3, <1>4

LEMMA BlockSteps ==
  ASSUME BeginBlock \/ AfterAngle \/ InBlock
  PROVE  NoName
<1>1. exc = "none" /\ UNCHANGED count
  BY DEF BeginBlock, AfterAngle, InBlock, AtToken, In
<1>2. CASE BeginBlock
  <2>1. NextChar /\ UNCHANGED tokens /\ mode' = "angle"
    BY <1>2 DEF BeginBlock, Begin
  <2>2. mode' # "ident"
    BY <2>1
  <2> QED BY <1>1, <2>1, <2>2, NoToken
<1>3. CASE AfterAngle
  <2>1. \/ NextChar /\ mode' = "block" /\ UNCHANGED tokens
        \/ Stay /\ ReturnToken("unknown", <<"<">>, begun)
    BY <1>3 DEF AfterAngle
  <2>2. CASE NextChar /\ mode' = "block" /\ UNCHANGED tokens
    <3>1. mode' # "ident"
      BY <2>2
    <3> QED BY <1>1, <2>2, <3>1, NoToken
  <2>3. CASE Stay /\ ReturnToken("unknown", <<"<">>, begun)
    <3>1. "unknown" # "ident"
      OBVIOUS
    <3> QED BY <1>1, <2>3, <3>1, ReturnsOther
  <2> QED BY <2>1, <2>2, <2>3
<1>4. CASE InBlock
  <2>1. \/ NextChar /\ ReturnToken("string", Front(word), begun)
        \/ Stay /\ ReturnToken("blockWithEof", word, begun)
        \/ NextChar /\ GoOn(Append(word, ch.byte)) /\ mode = "block"
    BY <1>4 DEF InBlock, In
  <2>2. "string" # "ident" /\ "blockWithEof" # "ident"
    OBVIOUS
  <2>3. CASE NextChar /\ ReturnToken("string", Front(word), begun)
    BY <1>1, <2>2, <2>3, ReturnsOther
  <2>4. CASE Stay /\ ReturnToken("blockWithEof", word, begun)
    BY <1>1, <2>2, <2>4, ReturnsOther
  <2>5. CASE NextChar /\ GoOn(Append(word, ch.byte)) /\ mode = "block"
    <3>1. UNCHANGED tokens /\ mode' = "block"
      BY <2>5 DEF GoOn
    <3>2. mode' # "ident"
      BY <3>1
    <3> QED BY <1>1, <2>5, <3>1, <3>2, NoToken
  <2> QED BY <2>1, <2>3, <2>4, <2>5
<1> QED BY <1>2, <1>3, <1>4

\* What is read ahead can stand in a name.
LEMMA AheadIsByte ==
  ASSUME LinesInv, exc = "none", ~AtEOF
  PROVE  ch.byte \in Byte
<1>1. source \in Source /\ ch.at \in DOMAIN source.bytes /\ source.bytes[ch.at] = ch.byte
  BY DEF LinesInv, ReadsAhead, AtEOF
<1> DEFINE S == STRING \ {""}
<1>2. source.bytes \in Seq(S)
  BY <1>1, BytesOfSource
<1> HIDE DEF S
<1>3. ch.byte \in S
  BY <1>1, <1>2
<1> QED BY <1>3 DEF S, Byte

LEMMA BeginsName ==
  ASSUME OrderInv, BeginIdent
  PROVE  NoName
<1> HIDE DEF Byte
<1>1. exc = "none" /\ UNCHANGED count /\ ~AtEOF /\ NextChar
  BY DEF BeginIdent, AtToken, In
<1>2. UNCHANGED tokens /\ word' = <<ch.byte>>
  BY DEF BeginIdent, Begin
<1>3. ch.byte \in Byte
  BY <1>1, AheadIsByte DEF OrderInv
<1>4. word' \in Seq(Byte)
  BY <1>2, <1>3
<1> QED BY <1>1, <1>2, <1>4, ReadsOn, Zenon DEF NoName

\* The identifier is complete: it gets the numbers from count on.
LEMMA NameStep ==
  ASSUME OrderInv, InIdent
  PROVE  OrderInv'
<1> HIDE DEF Byte
<1>0. Limit \in Nat /\ count \in 0..Limit /\ count \in Nat /\ [Next]_vars
  <2>1. Width \in 0..Width
    BY NumbersHaveDigits
  <2>2. Limit \in Nat
    BY <2>1, PowerIs DEF Limit
  <2> QED BY <2>2 DEF OrderInv, Next
<1>1. /\ exc = "none" /\ mode = "ident" /\ word \in Seq(Byte) /\ LinesInv
      /\ \/ ~AtEOF /\ NextChar /\ GoOn(Append(word, ch.byte)) /\ UNCHANGED count
         \/ /\ NextChar /\ UNCHANGED count
            /\ \E type \in {"function", "unknownFunction"} :
                 ReturnToken(type, Append(word, "("), begun)
         \/ ReturnIdent /\ UNCHANGED <<pos, ch, line, begun>>
  BY DEF InIdent, In, OrderInv
<1>2. CASE ~AtEOF /\ NextChar /\ GoOn(Append(word, ch.byte)) /\ UNCHANGED count
  <2>1. ch.byte \in Byte
    BY <1>1, <1>2, AheadIsByte
  <2>2. UNCHANGED tokens /\ word' = Append(word, ch.byte)
    BY <1>2 DEF GoOn
  <2>3. word' \in Seq(Byte)
    BY <1>1, <2>1, <2>2
  <2>4. NoName
    BY <1>1, <1>2, <2>2, <2>3, ReadsOn, Zenon DEF NoName
  <2> QED BY <1>0, <2>4, NoNameKeeps
<1>3. CASE /\ NextChar /\ UNCHANGED count
           /\ \E type \in {"function", "unknownFunction"} :
                ReturnToken(type, Append(word, "("), begun)
  <2>1. PICK type \in {"function", "unknownFunction"} : ReturnToken(type, Append(word, "("), begun)
    BY <1>3
  <2>2. type # "ident"
    OBVIOUS
  <2>3. NoName
    BY <1>1, <1>3, <2>1, <2>2, ReturnsOther
  <2> QED BY <1>0, <2>3, NoNameKeeps
<1>4. CASE ReturnIdent /\ UNCHANGED <<pos, ch, line, begun>>
  <2> DEFINE r == IF UidLexer THEN Expand(word, count) ELSE Named(word, count)
  <2>1. \/ /\ UNCHANGED <<count, exc>>
           /\ \E type \in {"soleDot", "twoDots"} : ReturnToken(type, word, begun)
        \/ /\ count' = r.count
           /\ \/ r.exc = "none" /\ UNCHANGED exc /\ ReturnToken("ident", r.name, begun)
              \/ r.exc = "config" /\ UNCHANGED exc /\ ReturnToken("illegalIdent", word, begun)
              \/ /\ r.exc # "none" /\ r.exc # "config"
                 /\ exc' = r.exc /\ UNCHANGED <<mode, word, tokens>>
    BY <1>4 DEF ReturnIdent
  <2>2. CASE /\ UNCHANGED <<count, exc>>
             /\ \E type \in {"soleDot", "twoDots"} : ReturnToken(type, word, begun)
    <3>1. PICK type \in {"soleDot", "twoDots"} : ReturnToken(type, word, begun)
      BY <2>2
    <3>2. type # "ident" /\ Stay
      BY <1>4, <2>2 DEF Stay
    <3>3. NoName
      BY <1>1, <2>2, <3>1, <3>2, ReturnsOther
    <3> QED BY <1>0, <3>3, NoNameKeeps
  <2>3. /\ r.count \in count..Limit
        /\ \/ /\ r.exc = "none"
              /\ UidLexer => r.name \in Seq(Byte) /\ InOrder(r.name, count, r.count)
           \/ r.exc = "config"
           \/ r.exc = "foreign" /\ r.count = Limit
    <3>1. CASE UidLexer
      <4>1. r = Expand(word, count)
        BY <3>1
      <4> DEFINE e == Expand(word, count)
      <4>2. /\ e.count \in count..Limit
            /\ \/ e.exc = "none" /\ e.name \in Seq(Byte) /\ InOrder(e.name, count, e.count)
               \/ e.exc = "config"
               \/ e.exc = "foreign" /\ e.count = Limit
        BY <1>0, <1>1, ExpandIs
      <4> HIDE DEF e, r
      <4>3. r = e
        BY <4>1 DEF e
      <4> QED BY <4>2, <4>3
    <3>2. CASE ~UidLexer
      <4>1. r = Named(word, count)
        BY <3>2
      <4>2. r.exc = "none" /\ r.count = count
        BY <4>1 DEF Named
      <4> HIDE DEF r
      <4> QED BY <1>0, <3>2, <4>2
    <3> QED BY <3>1, <3>2
  <2> HIDE DEF r
  <2>4. LinesInv'
    BY <1>0, <1>1, NextLines
  <2>5. r.count \in Nat /\ count <= r.count /\ r.count \in 0..Limit
    BY <1>0, <2>3
  <2>6. UidLexer => TokensInOrder(tokens, count) /\ TokensInOrder(tokens, r.count) /\ IsSeq(tokens)
    BY <1>0, <2>5, TokensKept DEF OrderInv, LinesInv, Numbered
  <2>7. CASE /\ count' = r.count /\ r.exc = "none" /\ UNCHANGED exc
             /\ ReturnToken("ident", r.name, begun)
    <3> DEFINE token == [type |-> "ident", text |-> r.name, line |-> begun.line, at |-> begun.at]
    <3>1. (tokens' = tokens \/ tokens' = Append(tokens, token)) /\ mode' = "between"
      BY <2>7, Zenon DEF ReturnToken
    <3>2. token.type = "ident" /\ token.text = r.name
      OBVIOUS
    <3> HIDE DEF token
    <3>3. ASSUME UidLexer PROVE TokensInOrder(Append(tokens, token), r.count)
      <4>1. token.text \in Seq(Byte) /\ InOrder(token.text, count, r.count)
        BY <2>3, <2>7, <3>2, <3>3
      <4> QED BY <1>0, <2>5, <2>6, <3>3, <4>1, TokensMore, Zenon
    <3>4. UidLexer => TokensInOrder(tokens', count')
      BY <2>6, <2>7, <3>1, <3>3
    <3>5. exc' # "foreign" /\ mode' # "ident" /\ count' \in 0..Limit
      BY <1>1, <2>5, <2>7, <3>1
    <3> QED BY <2>4, <3>4, <3>5 DEF OrderInv
  <2>8. CASE /\ count' = r.count /\ r.exc = "config" /\ UNCHANGED exc
             /\ ReturnToken("illegalIdent", word, begun)
    <3> DEFINE token == [type |-> "illegalIdent", text |-> word,
                         line |-> begun.line, at |-> begun.at]
    <3>1. (tokens' = tokens \/ tokens' = Append(tokens, token)) /\ mode' = "between"
      BY <2>8, Zenon DEF ReturnToken
    <3>2. token.type # "ident"
      OBVIOUS
    <3> HIDE DEF token
    <3>3. UidLexer => TokensInOrder(Append(tokens, token), r.count)
      BY <1>0, <2>5, <2>6, <3>2, TokensMore, Zenon
    <3>4. UidLexer => TokensInOrder(tokens', count')
      BY <2>6, <2>8, <3>1, <3>3
    <3>5. exc' # "foreign" /\ mode' # "ident" /\ count' \in 0..Limit
      BY <1>1, <2>5, <2>8, <3>1
    <3> QED BY <2>4, <3>4, <3>5 DEF OrderInv
  <2>9. CASE /\ count' = r.count /\ r.exc # "none" /\ r.exc # "config"
             /\ exc' = r.exc /\ UNCHANGED <<mode, word, tokens>>
    <3>1. count' = Limit /\ count' \in 0..Limit
      BY <2>3, <2>5, <2>9
    <3>2. UidLexer => TokensInOrder(tokens', count')
      BY <2>6, <2>9
    <3>3. word' \in Seq(Byte)
      BY <1>1, <2>9
    <3> QED BY <2>4, <3>1, <3>2, <3>3 DEF OrderInv
  <2> QED BY <2>1, <2>2, <2>7, <2>8, <2>9
<1> QED BY <1>1, <1>2, <1>3, <1>4

LEMMA NextOrder == OrderInv /\ [Next]_vars => OrderInv'
<1> HIDE DEF Byte
<1> SUFFICES ASSUME OrderInv, [Next]_vars PROVE OrderInv'
  OBVIOUS
<1>1. CASE SkipSpace \/ EndOfSource \/ SingleChar \/ FirstOfPair \/ SecondOfPair \/ UnknownChar
  BY <1>1, SignSteps, NoNameKeeps
<1>2. CASE BeginKeyword \/ InKeyword \/ BeginComment \/ InComment
  BY <1>2, WordSteps, NoNameKeeps
<1>3. CASE BeginString \/ InString \/ InEscape
  BY <1>3, StringSteps, NoNameKeeps
<1>4. CASE BeginBlock \/ AfterAngle \/ InBlock
  BY <1>4, BlockSteps, NoNameKeeps
<1>5. CASE BeginIdent
  BY <1>5, BeginsName, NoNameKeeps
<1>6. CASE InIdent
  BY <1>6, NameStep
<1>7. CASE UNCHANGED vars
  <2>1. LinesInv'
    BY NextLines DEF OrderInv
  <2>2. UNCHANGED <<count, exc, mode, word, tokens>>
    BY <1>7 DEF vars
  <2> QED BY <2>1, <2>2 DEF OrderInv
<1> QED BY <1>1, <1>2, <1>3, <1>4, <1>5, <1>6, <1>7 DEF Next

LEMMA OrderOfTokens == OrderInv => UidNamesKeepOrder
<1> HIDE DEF Byte
<1> SUFFICES ASSUME OrderInv, UidLexer PROVE UidNamesKeepOrder
  BY DEF UidNamesKeepOrder
<1>1. TokensInOrder(tokens, count) /\ IsSeq(tokens) /\ count \in 0..Limit
      /\ (exc = "foreign" => count = Limit)
  BY DEF OrderInv, LinesInv, Numbered
<1>2. Limit \in Nat
  <2>1. Width \in 0..Width
    BY NumbersHaveDigits
  <2> QED BY <2>1, PowerIs DEF Limit
<1>3. \A i \in DOMAIN tokens : \A p \in UidStarts(tokens[i]) :
        tokens[i].type = "ident" /\ p \in UidIn(tokens[i].text)
  BY DEF UidStarts, UidIn
<1>4. ASSUME NEW i \in DOMAIN tokens, NEW p \in UidStarts(tokens[i])
      PROVE  From(tokens[i].text, p) \in Seq(Byte)
  <2> DEFINE text == tokens[i].text
  <2>1. text \in Seq(Byte) /\ p \in DOMAIN text
    BY <1>1, <1>3 DEF TokensInOrder, UidIn
  <2> HIDE DEF text
  <2> QED BY <2>1, PieceIs DEF text
<1>5. ASSUME NEW i \in DOMAIN tokens, NEW j \in DOMAIN tokens,
             NEW p \in UidStarts(tokens[i]), NEW q \in UidStarts(tokens[j]),
             i < j \/ (i = j /\ p < q)
      PROVE  Precedes(From(tokens[i].text, p), From(tokens[j].text, q))
  <2>1. \E m, n \in 0..(count - 1) : /\ m < n
                                     /\ HasNumber(From(tokens[i].text, p), m)
                                     /\ HasNumber(From(tokens[j].text, q), n)
    <3>1. CASE i < j
      BY <1>1, <1>3, <3>1, Zenon DEF TokensInOrder
    <3>2. CASE i = j /\ p < q
      <4>1. InOrder(tokens[i].text, 0, count)
        BY <1>1, <1>3, Zenon DEF TokensInOrder
      <4> QED BY <1>3, <3>2, <4>1, Zenon DEF InOrder
    <3> QED BY <1>5, <3>1, <3>2
  <2>2. PICK m \in 0..(count - 1), n \in 0..(count - 1) :
          /\ m < n
          /\ HasNumber(From(tokens[i].text, p), m)
          /\ HasNumber(From(tokens[j].text, q), n)
    BY <2>1
  <2>3. m \in Nat /\ n \in Nat /\ n < Limit
    BY <1>1, <1>2
  <2> QED BY <1>4, <2>2, <2>3, NumbersPrecede, Zenon
<1>6. count <= Limit
  BY <1>1, <1>2
<1> QED BY <1>1, <1>5, <1>6, Zenon DEF UidNamesKeepOrder

\* UidIdentifierProcessor::expand, called for each identifier of a source: the names
\* with uid-, those of a dotted name one after the other, are given numbers that differ
\* and whose digits sort them as they stand in the source, whatever numbers they come
\* with and however many digits there are; the exception comes when no number is left.
\* For every source, base and width.
THEOREM UidNamesAlwaysKeepOrder == Spec => []UidNamesKeepOrder
<1>1. OrderInv /\ [Next]_vars => OrderInv'
  BY NextOrder
<1> QED BY InitOrder, <1>1, OrderOfTokens, PTL DEF Spec

----------------------------------------------------------------------------
(* What is no character is not read. *)

\* Carriage returns from p to before q; and before p the byte that was read ahead, if any.
OnlyReturns(b, p, q) == \A r \in p..(q - 1) : b[r] = "CR"
IsBefore(b, p, byte) == byte # "CR" /\ IF p = 1 THEN byte = "" ELSE b[p - 1] = byte

\* Carriage returns do not count.
LEMMA ReturnsFit == ASSUME NEW b, NEW j, b[j] = "CR" PROVE Fits(b, j)
BY DEF Fits, Adjacent

\* The next byte that counts, behind the one that was read ahead.
LEMMA NextFits ==
  ASSUME NEW b, NEW n \in Nat, DOMAIN b = 1..n, NEW p \in 1..n, NEW q \in p..n,
         NEW before, IsBefore(b, p, before), OnlyReturns(b, p, q), b[q] # "CR",
         ~Refuses(before, b[q])
  PROVE  Fits(b, q)
<1>1. p \in 1..n /\ q \in p..n /\ q \in 1..n
  OBVIOUS
<1>2. b[q] \notin {"bad", "xFF"} /\ (before = "lead" <=> b[q] = "cont")
  BY DEF Refuses
<1>3. ASSUME NEW i \in 1..n, Adjacent(b, i, q) PROVE p # 1 /\ i = p - 1
  <2>1. i < q /\ b[i] # "CR"
    BY <1>3 DEF Adjacent
  <2>2. ~(i \in p..(q - 1))
    BY <2>1 DEF OnlyReturns
  <2>3. i < p
    BY <1>1, <2>1, <2>2
  <2>4. p # 1
    BY <1>1, <2>3
  <2>5. i = p - 1
    <3>1. i # p - 1 => p - 1 \in (i + 1)..(q - 1)
      BY <1>1, <2>3
    <3>2. b[p - 1] # "CR"
      BY <2>4 DEF IsBefore
    <3> QED BY <1>3, <3>1, <3>2 DEF Adjacent
  <2> QED BY <2>4, <2>5
<1>4. ASSUME b[q] = "cont" PROVE \E i \in 1..n : Adjacent(b, i, q) /\ b[i] = "lead"
  <2>1. before = "lead"
    BY <1>2, <1>4
  <2>2. p # 1 /\ b[p - 1] = "lead"
    BY <2>1 DEF IsBefore
  <2>3. p - 1 \in 1..n /\ p - 1 < q /\ (p - 1) + 1 = p
    BY <1>1, <2>2
  <2>4. Adjacent(b, p - 1, q)
    BY <2>2, <2>3 DEF Adjacent, OnlyReturns
  <2> QED BY <2>2, <2>3, <2>4
<1>5. \A i \in 1..n : Adjacent(b, i, q) /\ b[i] = "lead" => b[q] = "cont"
  <2>1. p # 1 => b[p - 1] = before
    BY DEF IsBefore
  <2> QED BY <1>2, <1>3, <2>1
<1> QED BY <1>2, <1>4, <1>5 DEF Fits

\* nextChar from position p, with the byte before it.
LEMMA ReadFits ==
  ASSUME NEW b, NEW n \in Nat, DOMAIN b = 1..n, NEW p \in 1..n, NEW q \in p..n,
         NEW before, IsBefore(b, p, before), OnlyReturns(b, p, q), b[q] # "CR",
         ~Refuses(before, b[q]),
         \A j \in 1..(p - 1) : Fits(b, j)
  PROVE  \A j \in 1..q : Fits(b, j)
<1>1. Fits(b, q)
  BY NextFits
<1>2. \A j \in 1..q : j \in 1..(p - 1) \/ j \in p..(q - 1) \/ j = q
  OBVIOUS
<1>3. \A j \in p..(q - 1) : Fits(b, j)
  BY ReturnsFit DEF OnlyReturns
<1> QED BY <1>1, <1>2, <1>3

FitSoFar(b) ==
  /\ \A j \in 1..((IF ch.byte = "" THEN EndPlace ELSE pos) - 1) : Fits(b, j)
  /\ ch.byte # "CR"

CharsInv ==
  /\ LinesInv
  /\ exc = "none" => FitSoFar(source.bytes)
  /\ mode = "done" => exc = "none" /\ ch.byte = ""
  /\ ch.at < EndPlace

LEMMA Place ==
  ASSUME NEW n \in Nat, NEW e \in 1..(n + 1), NEW p \in 1..e, NEW q \in p..e
  PROVE  /\ q # e => p \in 1..n /\ q \in p..n /\ q \in 1..n /\ q <= n /\ q < e
         /\ 0 < e
         /\ (q + 1) - 1 = q
         /\ \A r \in 1..(e - 1) : r \in 1..(p - 1) \/ r \in p..(e - 1)
         /\ \A i \in 1..n : (i + 1) - 1 = i /\ i + 1 # 1
OBVIOUS

LEMMA PlaceBefore ==
  ASSUME NEW n \in Nat, NEW e \in 1..(n + 1), NEW p \in 1..(n + 1), p <= e,
         NEW q \in p..(n + 1), q <= e
  PROVE  p \in 1..e /\ q \in p..e /\ (q <= n => ~(q > n))
OBVIOUS

\* What the steps need of a source.
LEMMA NextInSource ==
  ASSUME source \in Source, NEW p \in 1..(Len(source.bytes) + 1), p <= EndPlace
  PROVE  LET b == source.bytes
             n == Len(b)
             q == NextIn(b, p)
         IN  /\ n \in Nat /\ DOMAIN b = 1..n /\ EndPlace \in 1..(n + 1)
             /\ p \in 1..EndPlace /\ q \in p..EndPlace
             /\ q # EndPlace => b[q] # "CR" /\ b[q] # ""
             /\ OnlyReturns(b, p, q)
<1> DEFINE b == source.bytes
           S == STRING \ {""}
           n == Len(b)
           q == NextIn(b, p)
           e == EndPlace
<1>1. b \in Seq(S) /\ n \in Nat /\ DOMAIN b = 1..n /\ \A i \in DOMAIN b : b[i] # ""
  BY BytesOfSource
<1> HIDE DEF S
<1>2. q > n \/ b[q] # "CR"
  BY <1>1, NextIs
<1>3. /\ q \in p..(n + 1) /\ q <= e
      /\ q # e => q \in DOMAIN b /\ q <= n
      /\ \A r \in p..(q - 1) : b[r] = "CR"
  BY NextBeforeEnd
<1>4. e \in 1..(n + 1) /\ p \in 1..(n + 1) /\ p <= e
  BY EndPlaceIs
<1> HIDE DEF n, q, b, e
<1>5. p \in 1..e /\ q \in p..e /\ (q # e => ~(q > n))
  BY <1>1, <1>3, <1>4, PlaceBefore, Zenon
<1>6. OnlyReturns(b, p, q)
  BY <1>3 DEF OnlyReturns
<1> QED BY <1>1, <1>2, <1>3, <1>4, <1>5, <1>6 DEF n, q, b, e

\* The byte ahead when nextChar returns from position p.
LEMMA FitAhead ==
  ASSUME NEW b, NEW n \in Nat, DOMAIN b = 1..n, NEW e \in 1..(n + 1), NEW p \in 1..e,
         NEW q \in p..e, OnlyReturns(b, p, q),
         q # e => b[q] # "CR" /\ b[q] # "",
         NEW before, IsBefore(b, p, before),
         \A j \in 1..(p - 1) : Fits(b, j),
         NEW newCh, NEW newPos,
         IF q = e THEN newCh.byte = ""
         ELSE newCh.byte = b[q] /\ newPos = q + 1 /\ ~Refuses(before, b[q])
  PROVE  /\ \A j \in 1..((IF newCh.byte = "" THEN e ELSE newPos) - 1) : Fits(b, j)
         /\ newCh.byte # "CR"
<1>1. CASE q = e
  <2>1. \A r \in p..(e - 1) : Fits(b, r)
    BY <1>1, ReturnsFit DEF OnlyReturns
  <2>2. \A r \in 1..(e - 1) : r \in 1..(p - 1) \/ r \in p..(e - 1)
    BY Place, Zenon
  <2> QED BY <1>1, <2>1, <2>2
<1>2. CASE q # e
  <2>1. p \in 1..n /\ q \in p..n /\ q <= n
    BY <1>2, Place, Zenon
  <2>2. newCh.byte = b[q] /\ newPos = q + 1 /\ ~Refuses(before, b[q])
    BY <1>2
  <2>3. \A j \in 1..q : Fits(b, j)
    BY <1>2, <2>1, <2>2, ReadFits
  <2>4. newPos - 1 = q
    BY <2>2, Place, Zenon
  <2> QED BY <1>2, <2>2, <2>3, <2>4
<1> QED BY <1>1, <1>2

LEMMA InitChars == Init => CharsInv
<1> SUFFICES ASSUME Init PROVE CharsInv
  OBVIOUS
<1> DEFINE b == source.bytes
           n == Len(b)
           e == EndPlace
           p == NextIn(b, 1)
<1>1. source \in Source /\ mode = "between"
  BY DEF Init
<1>2. /\ n \in Nat /\ DOMAIN b = 1..n /\ e \in 1..(n + 1) /\ 1 \in 1..e
      /\ p \in 1..e /\ OnlyReturns(b, 1, p) /\ (p # e => b[p] # "CR" /\ b[p] # "")
  <2>1. e \in 1..(n + 1) /\ n \in Nat
    BY <1>1, EndPlaceIs, BytesOfSource
  <2>2. 1 \in 1..(n + 1) /\ 1 <= e
    BY <2>1
  <2> QED BY <1>1, <2>2, NextInSource
<1>3. /\ exc # "none" \/ p = e => ch.byte = "" /\ ch.at = 0
      /\ exc = "none" /\ p # e =>
           ch.byte = b[p] /\ ch.at = p /\ pos = p + 1 /\ ~Refuses("", b[p])
  <2>1. exc # "none" \/ p = e => ch = EndChar
    BY FirstCharIs
  <2>2. exc = "none" /\ p # e =>
          /\ \E class \in Classes(b[p]) : ch = [byte |-> b[p], class |-> class, at |-> p]
          /\ pos = p + 1 /\ ~Refuses("", b[p])
    BY FirstCharIs
  <2> HIDE DEF b, p, e
  <2>3. EndChar.byte = "" /\ EndChar.at = 0
    BY DEF EndChar
  <2>4. ASSUME exc = "none", p # e PROVE ch.byte = b[p] /\ ch.at = p
    <3>1. PICK class : ch = [byte |-> b[p], class |-> class, at |-> p]
      BY <2>2, <2>4, Zenon
    <3> QED BY <3>1, Zenon
  <2> QED BY <2>1, <2>2, <2>3, <2>4, Zenon
<1>4. ASSUME exc = "none" PROVE FitSoFar(b)
  <2>1. IF p = e THEN ch.byte = ""
        ELSE ch.byte = b[p] /\ pos = p + 1 /\ ~Refuses("", b[p])
    BY <1>3, <1>4
  <2>2. IsBefore(b, 1, "")
    BY DEF IsBefore
  <2>3. \A j \in 1..(1 - 1) : Fits(b, j)
    OBVIOUS
  <2> HIDE DEF b, p, n, e
  <2>4. /\ \A j \in 1..((IF ch.byte = "" THEN e ELSE pos) - 1) : Fits(b, j)
        /\ ch.byte # "CR"
    BY <1>2, <2>1, <2>2, <2>3, FitAhead
  <2> QED BY <2>4 DEF FitSoFar, e
<1>5. ch.at < e
  <2> HIDE DEF b, p, n, e
  <2>1. p # e => p < e
    BY <1>2, Place, Zenon
  <2>2. 0 < e
    BY <1>2, Place, Zenon
  <2> QED BY <1>3, <2>1, <2>2
<1> QED BY <1>1, <1>4, <1>5, InitLines DEF CharsInv

\* A step that reads: the byte ahead fits behind those before it.
LEMMA ReadsFit ==
  ASSUME CharsInv, exc = "none", UNCHANGED source, Reads, exc' = "none"
  PROVE  FitSoFar(source.bytes)' /\ (ch.at < EndPlace)'
<1> DEFINE b == source.bytes
           n == Len(b)
           e == EndPlace
           q == NextIn(b, pos)
<1>1. /\ source \in Source /\ ReadsAhead(b) /\ FitSoFar(b) /\ ch.byte # "" /\ NextChar
      /\ pos \in 1..(n + 1) /\ pos <= e /\ pos = ch.at + 1
      /\ ch.at \in DOMAIN b /\ b[ch.at] = ch.byte
  BY DEF CharsInv, LinesInv, Reads, AtEOF, ReadsAhead
<1>2. /\ n \in Nat /\ DOMAIN b = 1..n /\ e \in 1..(n + 1) /\ pos \in 1..e
      /\ q \in pos..e /\ OnlyReturns(b, pos, q) /\ (q # e => b[q] # "CR" /\ b[q] # "")
  BY <1>1, NextInSource
<1>3. /\ q = e => ch'.byte = "" /\ ch'.at = 0
      /\ q # e => ch'.byte = b[q] /\ ch'.at = q /\ pos' = q + 1 /\ ~Refuses(ch.byte, b[q])
  <2>1. q = e => ch' = EndChar
    BY <1>1, NextCharIs
  <2>2. q # e =>
          /\ \E class \in Classes(b[q]) : ch' = [byte |-> b[q], class |-> class, at |-> q]
          /\ pos' = q + 1 /\ ~Refuses(ch.byte, b[q])
    BY <1>1, NextCharIs
  <2> HIDE DEF b, q, e
  <2>3. EndChar.byte = "" /\ EndChar.at = 0
    BY DEF EndChar
  <2>4. q # e => ch'.byte = b[q] /\ ch'.at = q
    BY <2>2
  <2> QED BY <2>1, <2>2, <2>3, <2>4, Zenon
<1>4. /\ ch.byte # "CR" /\ \A j \in 1..(pos - 1) : Fits(b, j)
  BY <1>1 DEF FitSoFar
<1>5. b' = b /\ EndPlace' = e
  BY EndStays
<1> HIDE DEF b, n, q, e
<1>6. IsBefore(b, pos, ch.byte)
  <2>1. \A i \in 1..n : (i + 1) - 1 = i /\ i + 1 # 1
    BY <1>2, Place, Zenon
  <2>2. pos # 1 /\ b[pos - 1] = ch.byte
    BY <1>1, <1>2, <2>1
  <2> QED BY <1>4, <2>2 DEF IsBefore
<1>7. /\ \A j \in 1..((IF ch'.byte = "" THEN e ELSE pos') - 1) : Fits(b, j)
      /\ ch'.byte # "CR"
  <2>1. IF q = e THEN ch'.byte = ""
        ELSE ch'.byte = b[q] /\ pos' = q + 1 /\ ~Refuses(ch.byte, b[q])
    BY <1>3
  <2> QED BY <1>2, <1>4, <1>6, <2>1, FitAhead
<1>8. ch'.at < e
  <2>1. (q # e => q < e) /\ 0 < e
    BY <1>2, Place, Zenon
  <2> QED BY <1>3, <2>1
<1> QED BY <1>5, <1>7, <1>8 DEF FitSoFar, b

LEMMA NextChars == CharsInv /\ [Next]_vars => CharsInv'
<1> SUFFICES ASSUME CharsInv, [Next]_vars PROVE CharsInv'
  OBVIOUS
<1>1. LinesInv'
  BY NextLines DEF CharsInv
<1>2. CASE Next
  <2>1. StepReads
    <3>1. AtEnd
      BY DEF AtEnd, CharsInv, LinesInv, ReadsAhead
    <3> QED BY <1>2, <3>1, EachStepReads
  <2>2. mode' = "done" => exc' = "none" /\ ch'.byte = ""
    BY <2>1 DEF StepReads, Stay
  <2>3. exc = "none" /\ UNCHANGED source /\ EndPlace' = EndPlace
    BY <2>1, EndStays DEF StepReads
  <2>4. CASE NoneRead
    BY <1>1, <2>2, <2>3, <2>4 DEF CharsInv, FitSoFar, NoneRead
  <2>5. CASE Reads /\ exc' = "none"
    BY <1>1, <2>2, <2>3, <2>5, ReadsFit DEF CharsInv
  <2>6. CASE Reads /\ exc' # "none"
    <3>1. UNCHANGED ch
      BY <2>3, <2>6 DEF Reads, NextChar
    <3> QED BY <1>1, <2>2, <2>3, <2>6, <3>1 DEF CharsInv
  <2> QED BY <2>1, <2>4, <2>5, <2>6 DEF StepReads
<1>3. CASE UNCHANGED vars
  <2>1. UNCHANGED <<source, pos, ch, exc, mode>> /\ EndPlace' = EndPlace
    BY <1>3, EndStays DEF vars
  <2> QED BY <1>1, <2>1 DEF CharsInv, FitSoFar
<1> QED BY <1>2, <1>3

LEMMA CharsOfSource == CharsInv => OnlyCharactersAreRead
BY DEF CharsInv, FitSoFar, OnlyCharactersAreRead

\* LexBase::nextChar: a source that is read to its end was a sequence of characters,
\* carriage returns left aside, up to where the lexer sees the end: no byte that
\* belongs to none, and no half of a letter, gets into a token, a string or a comment;
\* only a letter the end cuts goes unnoticed.  And nothing behind that end is read: of
\* a file there is nothing, in a string or the output of a command a byte 0xFF is the
\* end.  For every source, and for a char with a sign or without one.
THEOREM OnlyCharactersAreEverRead == Spec => []OnlyCharactersAreRead
<1>1. CharsInv /\ [Next]_vars => CharsInv'
  BY NextChars
<1> QED BY InitChars, <1>1, CharsOfSource, PTL DEF Spec

==============================================================================
