-------------------------------- MODULE Lexer --------------------------------
(***************************************************************************)
(* LexBase: how a source becomes tokens.  A step looks at the character    *)
(* that was read ahead, m_ch, and reads the next one.  A parser asks for   *)
(* one token after the other until the end of the source.                  *)
(*                                                                         *)
(* A source is a sequence of bytes: letters and signs stand for themselves *)
(* and "NL", "CR", "TAB" for line feed, carriage return and tabulator.     *)
(* "lead" and "cont" are the two bytes of a letter that is not ASCII, "bad" *)
(* and "xFF" are bytes that no character has.  A source is not ended by a  *)
(* byte NUL: C strings and text files have none.                           *)
(***************************************************************************)
EXTENDS UidNames

CONSTANTS
  Source,     \* sources, with the tokens they were written from
  Keyword,    \* m_keywordInfoArray, which bsearch needs sorted
  Function,   \* m_funcInfoArray, spelled with the parenthesis
  UidLexer,   \* FALSE for the schema's lexer, which leaves names as they are
  SignedChar  \* char has a sign, as on x86 but not on ARM

\* "" is what m_ch holds when nothing has been read.
ASSUME SourcesAreBytes == \A s \in Source : s.bytes \in Seq(STRING \ {""})
ASSUME CharHasASign == SignedChar \in BOOLEAN

VARIABLES
  source,     \* m_source, with m_sourceType
  pos,        \* the byte to be read next: m_ptr, or the position of m_file
  ch,         \* m_ch: the byte, the class of its wide character, its position
  line,       \* m_lineNum
  mode,       \* where in nextToken the lexer is
  word,       \* spelling
  begun,      \* lineNum, and the position, noted when the token began
  count,      \* m_count of the UidIdentifierProcessor
  tokens,     \* the tokens returned so far
  exc         \* the exception on its way to the parser, if any

vars == <<source, pos, ch, line, mode, word, begun, count, tokens, exc>>

----------------------------------------------------------------------------
(* Characters: nextByte, nextChar, MBChar. *)

Lower == {"a", "b", "c", "d", "e", "f", "i", "n", "t", "u", "x"}
IdentSign == {Dash, "_", ".", ":", "$", "?", Slash, "\\"}
AnyClass == {"ascii", "letter", "digit", "space", "sign"}

ClassOf(byte) ==
  CASE byte \in Lower             -> "ascii"
    [] IsDigit(byte)              -> "digit"
    [] byte \in {Blank, "NL", "TAB"} -> "space"
    [] byte = "cont"              -> "letter"
    [] OTHER                      -> "sign"

\* mbrtowc answers -2 to the first of two bytes and stores no wide character; the
\* loop takes that for success, and m_ch gets what was on the stack.
Classes(byte) == IF byte = "lead" THEN AnyClass ELSE {ClassOf(byte)}

\* mbrtowc answers -1 to a byte that cannot follow the one before it.
Refuses(before, byte) == byte \in {"bad", "xFF"} \/ ((before = "lead") # (byte = "cont"))

\* nextByte: a byte of a string or of the output of a command is a char that becomes
\* an int before it is compared with EOF, and 0xFF becomes -1, which is EOF.  get()
\* does not give a byte of a file as -1.
IsEnd(byte) == byte = "xFF" /\ SignedChar /\ source.type # "File"

\* Where a source ends for the lexer: at the first such byte, or behind its last.
EndPlace == Min({p \in DOMAIN source.bytes : IsEnd(source.bytes[p])} \cup {Len(source.bytes) + 1})

\* m_ch after reset, with m_atEOF.
EndChar == [byte |-> "", class |-> "sign", at |-> 0]
AtEOF == ch.byte = ""

\* Mutant: carriage returns are handed out.
NextIndexAny(p) == p

\* nextByte drops carriage returns.
NextIndex(p) ==
  CHOOSE q \in p..(Len(source.bytes) + 1) :
    /\ q > Len(source.bytes) \/ source.bytes[q] # "CR"
    /\ \A r \in p..(q - 1) : source.bytes[r] = "CR"

\* nextChar.  What begins with bytes that were refused is refused too: the loop
\* adds bytes until m_ch is full or the source ends, an exception both ways.  A byte
\* taken for the end is passed all the same.
NextChar ==
  LET p == NextIndex(pos)
      byte == source.bytes[p]
  IN  \/ /\ p > Len(source.bytes)
         /\ ch' = EndChar
         /\ UNCHANGED <<pos, line, exc>>
      \/ /\ p <= Len(source.bytes) /\ IsEnd(byte)
         /\ ch' = EndChar /\ pos' = p + 1
         /\ UNCHANGED <<line, exc>>
      \/ /\ p <= Len(source.bytes) /\ ~IsEnd(byte) /\ Refuses(ch.byte, byte)
         /\ exc' = "config"
         /\ UNCHANGED <<pos, ch, line>>
      \/ /\ p <= Len(source.bytes) /\ ~IsEnd(byte) /\ ~Refuses(ch.byte, byte)
         /\ \E class \in Classes(byte) : ch' = [byte |-> byte, class |-> class, at |-> p]
         /\ pos' = p + 1
         /\ line' = IF byte = "NL" THEN line + 1 ELSE line
         /\ UNCHANGED exc

\* Nothing is read.
Stay == UNCHANGED <<pos, ch, line, exc>>

Init ==
  /\ source \in Source
  /\ LET p == NextIndex(1)
         byte == source.bytes[p]
     IN  \/ /\ p > Len(source.bytes)
            /\ ch = EndChar /\ pos = 1 /\ line = 1 /\ exc = "none"
         \/ /\ p <= Len(source.bytes) /\ IsEnd(byte)
            /\ ch = EndChar /\ pos = p + 1 /\ line = 1 /\ exc = "none"
         \/ /\ p <= Len(source.bytes) /\ ~IsEnd(byte) /\ Refuses("", byte)
            /\ ch = EndChar /\ pos = 1 /\ line = 1 /\ exc = "config"
         \/ /\ p <= Len(source.bytes) /\ ~IsEnd(byte) /\ ~Refuses("", byte)
            /\ \E class \in Classes(byte) : ch = [byte |-> byte, class |-> class, at |-> p]
            /\ pos = p + 1 /\ line = (IF byte = "NL" THEN 2 ELSE 1) /\ exc = "none"
  /\ mode = "between"
  /\ word = << >>
  /\ begun = [line |-> 1, at |-> 1]
  /\ count = 0
  /\ tokens = << >>

----------------------------------------------------------------------------
(* Tokens. *)

In(m) == mode = m /\ exc = "none"

IsIdentifierChar(c) == c.class \in {"ascii", "letter", "digit"} \/ c.byte \in IdentSign
IsKeywordChar(c) == c.class = "ascii"

\* Mutant: the line is noted at the end of the token.
ReturnTokenHere(type, text, since) ==
  /\ tokens' = IF exc' # "none" THEN tokens
               ELSE Append(tokens, [type |-> type, text |-> text, line |-> line, at |-> since.at])
  /\ mode' = "between"
  /\ word' = << >>

\* token.reset and return, unless nextChar has raised an exception.
ReturnToken(type, text, since) ==
  /\ tokens' = IF exc' # "none" THEN tokens
               ELSE Append(tokens, [type |-> type, text |-> text, line |-> since.line, at |-> since.at])
  /\ mode' = "between"
  /\ word' = << >>

\* The first character of a token that goes on.
Here == [line |-> line, at |-> ch.at]
Begin(newMode, text) ==
  /\ mode' = newMode
  /\ word' = text
  /\ begun' = Here
  /\ UNCHANGED tokens

\* The token goes on with the next character.
GoOn(text) ==
  /\ word' = text
  /\ UNCHANGED <<mode, begun, tokens>>

Single == {"+", ";", "[", "]", "{", "}", "(", ")", ","}
\* The two signs and the token they make.
Pairs == {<<"?", "=", "?=">>, <<"!", "=", "!=">>, <<"&", "&", "&&">>,
          <<"|", "|", "||">>, <<"=", "=", "==">>}

SkipSpace ==
  /\ In("between") /\ ch.class = "space"
  /\ NextChar
  /\ UNCHANGED <<source, mode, word, begun, count, tokens>>

EndOfSource ==
  /\ In("between") /\ ch.class # "space" /\ AtEOF
  /\ tokens' = Append(tokens, [type |-> "eof", text |-> << >>, line |-> line, at |-> 0])
  /\ mode' = "done"
  /\ Stay
  /\ UNCHANGED <<source, word, begun, count>>

\* The switch over the first character.
AtToken == In("between") /\ ch.class # "space" /\ ~AtEOF

SingleChar ==
  /\ AtToken /\ ch.byte \in Single
  /\ NextChar
  /\ ReturnToken(ch.byte, << >>, Here)
  /\ UNCHANGED <<source, begun, count>>

FirstOfPair ==
  /\ AtToken /\ \E pair \in Pairs : pair[1] = ch.byte
  /\ NextChar
  /\ Begin("pair", <<ch.byte>>)
  /\ UNCHANGED <<source, count>>

\* "=" and "!" are tokens of their own, the other three are not.
SecondOfPair ==
  /\ In("pair")
  /\ \/ \E pair \in Pairs : /\ pair[1] = word[1] /\ pair[2] = ch.byte
                            /\ NextChar
                            /\ ReturnToken(pair[3], << >>, begun)
     \/ /\ \A pair \in Pairs : pair[1] # word[1] \/ pair[2] # ch.byte
        /\ Stay
        /\ ReturnToken(IF word[1] \in {"=", "!"} THEN word[1] ELSE "unknown", << >>, begun)
  /\ UNCHANGED <<source, begun, count>>

BeginKeyword ==
  /\ AtToken /\ ch.byte = "@"
  /\ NextChar
  /\ Begin("keyword", <<"@">>)
  /\ UNCHANGED <<source, count>>

InKeyword ==
  /\ In("keyword")
  /\ IF IsKeywordChar(ch)
     THEN NextChar /\ GoOn(Append(word, ch.byte))
     ELSE /\ Stay /\ UNCHANGED begun
          /\ ReturnToken(IF word \in Keyword THEN "keyword" ELSE "unknown", word, begun)
  /\ UNCHANGED <<source, count>>

BeginComment ==
  /\ AtToken /\ ch.byte = "#"
  /\ NextChar
  /\ Begin("comment", << >>)
  /\ UNCHANGED <<source, count>>

\* Mutant: the end of the source does not end a comment.
InCommentForever ==
  /\ In("comment")
  /\ NextChar
  /\ mode' = IF ch.byte = "NL" THEN "between" ELSE "comment"
  /\ UNCHANGED <<source, word, begun, count, tokens>>

\* To the end of the line, or of the source; nextToken calls itself for what
\* follows.
InComment ==
  /\ In("comment")
  /\ IF AtEOF THEN Stay ELSE NextChar
  /\ mode' = IF AtEOF \/ ch.byte = "NL" THEN "between" ELSE "comment"
  /\ UNCHANGED <<source, word, begun, count, tokens>>

----------------------------------------------------------------------------
(* Strings: consumeString and consumeBlockString. *)

BeginString ==
  /\ AtToken /\ ch.byte = "\""
  /\ NextChar
  /\ Begin("string", << >>)
  /\ UNCHANGED <<source, count>>

EndOfLine == AtEOF \/ ch.byte = "NL"

InString ==
  /\ In("string")
  /\ CASE ch.byte = "\"" -> NextChar /\ ReturnToken("string", word, begun) /\ UNCHANGED begun
       [] EndOfLine      -> Stay /\ ReturnToken("stringWithEol", word, begun) /\ UNCHANGED begun
       [] ch.byte = "%"  -> NextChar /\ mode' = "escape" /\ UNCHANGED <<word, begun, tokens>>
       [] OTHER          -> NextChar /\ GoOn(Append(word, ch.byte))
  /\ UNCHANGED <<source, count>>

\* What a sign behind % stands for.
Escaped == [t |-> "TAB", n |-> "NL"] @@ ("%" :> "%") @@ ("\"" :> "\"")

InEscape ==
  /\ In("escape")
  /\ CASE EndOfLine -> Stay /\ ReturnToken("stringWithEol", word, begun)
       [] ~EndOfLine /\ ch.byte \in DOMAIN Escaped ->
            NextChar /\ word' = Append(word, Escaped[ch.byte]) /\ mode' = "string"
              /\ UNCHANGED tokens
       [] OTHER -> exc' = "config" /\ UNCHANGED <<pos, ch, line, mode, word, tokens>>
  /\ UNCHANGED <<source, begun, count>>

BeginBlock ==
  /\ AtToken /\ ch.byte = "<"
  /\ NextChar
  /\ Begin("angle", << >>)
  /\ UNCHANGED <<source, count>>

\* The line of a block string is noted when the character behind <% has been read.
AfterAngle ==
  /\ In("angle")
  /\ IF ch.byte = "%"
     THEN NextChar /\ mode' = "block" /\ begun' = [begun EXCEPT !.line = line']
            /\ UNCHANGED <<word, tokens>>
     ELSE Stay /\ ReturnToken("unknown", <<"<">>, begun) /\ UNCHANGED begun
  /\ UNCHANGED <<source, count>>

InBlock ==
  /\ In("block")
  /\ CASE word # << >> /\ Last(word) = "%" /\ ch.byte = ">" ->
            NextChar /\ ReturnToken("string", Front(word), begun) /\ UNCHANGED begun
       [] ~(word # << >> /\ Last(word) = "%" /\ ch.byte = ">") /\ AtEOF ->
            Stay /\ ReturnToken("blockWithEof", word, begun) /\ UNCHANGED begun
       [] OTHER -> NextChar /\ GoOn(Append(word, ch.byte))
  /\ UNCHANGED <<source, count>>

----------------------------------------------------------------------------
(* Functions and identifiers. *)

Special == Single \cup {pair[1] : pair \in Pairs} \cup {"@", "#", "\"", "<"}

BeginIdent ==
  /\ AtToken /\ ch.byte \notin Special /\ IsIdentifierChar(ch)
  /\ NextChar
  /\ Begin("ident", <<ch.byte>>)
  /\ UNCHANGED <<source, count>>

\* The identifier is complete and no function: it is checked and expanded.
ReturnIdent ==
  LET result == IF UidLexer THEN Expand(word, count) ELSE Named(word, count)
  IN  CASE word = <<".">> -> UNCHANGED <<count, exc>> /\ ReturnToken("soleDot", word, begun)
        [] Find(word, <<".", ".">>) # 0 ->
             UNCHANGED <<count, exc>> /\ ReturnToken("twoDots", word, begun)
        [] OTHER ->
             /\ count' = result.count
             /\ CASE result.exc = "none" ->
                       UNCHANGED exc /\ ReturnToken("ident", result.name, begun)
                  [] result.exc = "config" ->
                       UNCHANGED exc /\ ReturnToken("illegalIdent", word, begun)
                  [] OTHER ->
                       exc' = result.exc /\ UNCHANGED <<mode, word, tokens>>

InIdent ==
  /\ In("ident")
  /\ CASE ~AtEOF /\ IsIdentifierChar(ch) ->
            NextChar /\ GoOn(Append(word, ch.byte)) /\ UNCHANGED count
       [] ch.byte = "(" ->
            LET func == Append(word, "(")
            IN  /\ NextChar
                /\ ReturnToken(IF func \in Function THEN "function" ELSE "unknownFunction",
                               func, begun)
                /\ UNCHANGED <<begun, count>>
       [] OTHER -> ReturnIdent /\ UNCHANGED <<pos, ch, line, begun>>
  /\ UNCHANGED source

UnknownChar ==
  /\ AtToken /\ ch.byte \notin Special /\ ~IsIdentifierChar(ch)
  /\ NextChar
  /\ ReturnToken("unknown", <<ch.byte>>, Here)
  /\ UNCHANGED <<source, begun, count>>

Next ==
  \/ SkipSpace \/ EndOfSource \/ SingleChar \/ FirstOfPair \/ SecondOfPair
  \/ BeginKeyword \/ InKeyword \/ BeginComment \/ InComment
  \/ BeginString \/ InString \/ InEscape
  \/ BeginBlock \/ AfterAngle \/ InBlock
  \/ BeginIdent \/ InIdent \/ UnknownChar

\* The parser goes on asking for tokens, and a source has an end.
Spec == Init /\ [][Next]_vars /\ WF_vars(Next)

----------------------------------------------------------------------------
(* Properties. *)

\* All the tokens there will be have been returned.
Finished == mode = "done" \/ exc # "none"

\* The types and texts of the tokens before the end; a name without its number.
Shown(token) ==
  [type |-> token.type,
   text |-> IF token.type = "ident" THEN Unexpand(token.text).name ELSE token.text]

\* The bytes at i and j follow each other when carriage returns are left aside.
Adjacent(bytes, i, j) ==
  i < j /\ bytes[i] # "CR" /\ bytes[j] # "CR" /\ \A r \in (i + 1)..(j - 1) : bytes[r] = "CR"
\* The byte at j belongs to a character and is in its place after those before it.
Fits(bytes, j) ==
  /\ bytes[j] \notin {"bad", "xFF"}
  /\ bytes[j] = "cont" => \E i \in DOMAIN bytes : Adjacent(bytes, i, j) /\ bytes[i] = "lead"
  /\ \A i \in DOMAIN bytes : Adjacent(bytes, i, j) /\ bytes[i] = "lead" => bytes[j] = "cont"

\* What is read to its end was a sequence of characters: each byte is refused that is
\* none or is out of place, in comments too, except for a letter that the end of the
\* source cuts.  The end is EndPlace: 0xFF in a file is refused, but in a string or the
\* output of a command it can end the source.  What is behind it is never read, although
\* nextByte would: each loop of the lexer has to stop there.
OnlyCharactersAreRead ==
  /\ mode = "done" => \A j \in 1..(EndPlace - 1) : Fits(source.bytes, j)
  /\ ch.at < EndPlace

\* What one would want of nextByte, "Read the next byte from the input source", and
\* what strings and the output of commands do not get: nothing is left out.
WholeSourceIsRead == mode = "done" => EndPlace = Len(source.bytes) + 1

\* Tokens written one after the other with something between them that separates
\* them, whether blanks, line ends or comments, are read as these tokens, a string
\* with its escapes as the text it was written from.  And only characters are read,
\* up to the end that the lexer sees.
ReadsBack ==
  /\ mode = "done" /\ source.kind = "tokens" =>
       [i \in DOMAIN Front(tokens) |-> Shown(tokens[i])] = source.tokens
  /\ OnlyCharactersAreRead

\* A token carries the number of the line its first character stands in, the end
\* of the source that of the line in which the lexer sees it.  A block string carries that of the line
\* in which the lexer is when it has read the character behind <%: the next line
\* if that is a line end.
LineAt(p) == 1 + Cardinality({q \in DOMAIN source.bytes : q < p /\ source.bytes[q] = "NL"})
NextByte(p) == NextIndex(p + 1)
IsBlock(token) == source.bytes[token.at] = "<" /\ token.type # "unknown"
LineOf(token) ==
  CASE token.at = 0                     -> LineAt(EndPlace)
    [] token.at # 0 /\ IsBlock(token)  -> LineAt(NextByte(NextByte(token.at)) + 1)
    [] token.at # 0 /\ ~IsBlock(token) -> LineAt(token.at)
LinesAreRight == Finished => \A i \in DOMAIN tokens : tokens[i].line = LineOf(tokens[i])

\* No two names of a source get the same number, whatever number they came with,
\* and sorted by name they stand in the order of the source: this is what the
\* zeros in front are for.  When the numbers are used up, an exception says so.
Precedes(name1, name2) ==
  \E i \in DOMAIN name1 : \E j \in 1..Len(DigitSeq), k \in 1..Len(DigitSeq) :
    /\ i <= Len(name2) /\ SubSeq(name1, 1, i - 1) = SubSeq(name2, 1, i - 1)
    /\ DigitSeq[j] = name1[i] /\ DigitSeq[k] = name2[i] /\ j < k
\* Where the names with uid- begin in a token.
UidStarts(token) ==
  {p \in DOMAIN token.text :
     /\ token.type = "ident"
     /\ p = 1 \/ token.text[p - 1] = "."
     /\ StartsWithUidToken(From(token.text, p))}
UidNamesKeepOrder ==
  Finished /\ UidLexer =>
    /\ \A i, j \in DOMAIN tokens :
         \A p \in UidStarts(tokens[i]), q \in UidStarts(tokens[j]) :
           i < j \/ (i = j /\ p < q) =>
             Precedes(From(tokens[i].text, p), From(tokens[j].text, q))
    /\ count <= Limit /\ (exc = "foreign" => count = Limit)

\* Whatever the source, the lexer comes to its end or raises an exception.
Finishes == <>Finished

=============================================================================
