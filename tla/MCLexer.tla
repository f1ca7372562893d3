------------------------------- MODULE MCLexer -------------------------------
(* Small sources for the lexer: soup, written tokens, printed scopes.        *)
EXTENDS Dump

Seqs(S, n) == UNION {[1..m -> S] : m \in 0..n}
Raw(bytes) == [kind |-> "raw", type |-> "File", bytes |-> bytes, tokens |-> << >>, tree |-> {}]

\* Any bytes, with a letter that is not ASCII among them.
Letters2 == <<"lead", "cont">>
Soup ==
  {Raw(FlattenSeq(seq)) :
     seq \in Seqs({<<c>> : c \in {"a", "1", "=", "?", "&", "@", "(", "CR", "NL"}} \cup {Letters2}, 3)}
    \cup {Raw(seq) : seq \in Seqs({"%", "\"", "NL", "CR", "<", ">", "#", "n"}, 4)}
    \cup {Raw(seq) : seq \in Seqs({"a", "NL", "CR", "#", "lead", "cont", "bad"}, 4)}

\* The byte that a string and a command can end with, wherever it stands.
Ended ==
  {[Raw(seq) EXCEPT !.type = type] :
     seq \in {s \in Seqs({"xFF", "a", "\"", "%", "<", "#", "NL", "CR", "lead"}, 4) :
               "xFF" \in ToSet(s)},
     type \in {"File", "String"}}

\* A token as it is written and as it is returned.
Written(bytes, type, text) == [bytes |-> bytes, type |-> type, text |-> text]
Sign(seq, type) == Written(seq, type, << >>)
Quoted(text) == Written(Escape(text), "string", text)
Name(name) == Written(name, "ident", Unexpand(name).name)
Bad(name) == Written(name, "illegalIdent", name)
U(rest) == UidToken \o rest

Plainly ==
  {Sign(<<"?", "=">>, "?="), Sign(<<"=">>, "="), Sign(<<"=", "=">>, "=="), Sign(<<"!">>, "!"),
   Sign(<<"&", "&">>, "&&"), Sign(<<"[">>, "["), Sign(<<"|">>, "unknown"),
   Written(<<"@", "i", "f">>, "keyword", <<"@", "i", "f">>),
   Written(<<"@", "i", "x">>, "unknown", <<"@", "i", "x">>),
   Written(<<"f", "(">>, "function", <<"f", "(">>),
   Written(<<"a", "(">>, "unknownFunction", <<"a", "(">>),
   Written(<<".">>, "soleDot", <<".">>), Written(<<"a", ".", ".">>, "twoDots", <<"a", ".", ".">>),
   Name(<<"a", ".", "b">>), Quoted(<<"a", "%", "n", "\"", "TAB">>), Quoted(<<"%", "NL">>),
   Quoted(<<"lead", "cont", "#">>),
   Written(<<"<", "%">> \o <<"%", "\"", "NL", ">">> \o <<"%", ">">>, "string", <<"%", "\"", "NL", ">">>)}
Uids ==
  {Name(U(<<"b">>)), Name(U(<<"1", "1", Dash, "a">>)), Name(<<"a", ".">> \o U(<<"b", ".">>) \o U(<<"a">>)),
   Bad(U(<< >>)), Bad(U(<<Dash, "a">>)), Bad(U(<<"1">>)), Bad(U(<<"1", "a">>)),
   Bad(U(<<"1", Dash, "0">>)), Bad(U(<<"b", ".">>) \o U(<<"1", Dash>>)), Name(<<".">> \o U(<<"a">>))}

Separators == {<<Blank>>, <<"CR", "NL", "NL">>, <<"NL", "#", "\"", "NL", "TAB">>}
Texted(seq, sep) ==
  [kind |-> "tokens", type |-> "String", tree |-> {},
   bytes |-> FlattenSeq([i \in DOMAIN seq |-> seq[i].bytes \o sep]),
   tokens |-> [i \in DOMAIN seq |-> [type |-> seq[i].type, text |-> seq[i].text]]]
Writings ==
  {Texted(seq, sep) : seq \in Seqs(Plainly, 2) \cup Seqs(Uids, 3), sep \in Separators}

\* Scopes with up to three entries.
Value == Seqs({"%", "n", "\"", "NL"}, 2)
StringItem(name, val) == [name |-> name, type |-> "String", val |-> val]
ListItem(name, val) == [name |-> name, type |-> "List", val |-> val]
ScopeItem(name, val) == [name |-> name, type |-> "Scope", val |-> val]
Numbered(n, rest) == UidToken \o Digits(n) \o <<Dash>> \o rest
Trees ==
  {{StringItem(<<"a">>, v), ListItem(<<"a", "b">>, l), ScopeItem(<<"a", "a">>, s)} :
     v \in Value, l \in {<< >>, <<<<"a", ",">>, << >>>>, <<<<"%", "t">>>>},
     s \in {{}, {StringItem(Numbered(1, <<"a">>), <<"TAB">>), ScopeItem(Numbered(2, <<"b">>), {}),
                 StringItem(Numbered(3, <<"a">>), << >>), ScopeItem(Numbered(0, <<"a">>), {})}}}
Paths(tree) ==
  {<< >>} \cup {<<item.name>> : item \in tree}
    \cup UNION {{<<item.name, inner.name>> : inner \in item.val} :
                  item \in {i \in tree : i.type = "Scope"}}
Printed(tree, path) == IF path = << >> THEN tree ELSE {Chosen(tree, path)}
Dumps ==
  UNION {{[kind |-> "dump", type |-> "String", tokens |-> << >>, tree |-> Printed(tree, path),
           bytes |-> DumpEntry(tree, path, expand)] : path \in Paths(tree)} :
           tree \in Trees, expand \in BOOLEAN}

MCSource == Soup \cup Ended \cup Writings \cup Dumps
MCKeyword == {<<"@", "i", "f">>, <<"@", "i", "n">>}
MCFunction == {<<"f", "(">>}
MCAlphabet == <<Dash>> \o DigitSeq \o <<"a", "b", "d", "i", "u">>

=============================================================================
