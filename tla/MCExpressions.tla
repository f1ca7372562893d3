---------------------------- MODULE MCExpressions ----------------------------
(* A small instance of Expressions: the statements to be parsed.            *)
EXTENDS Expressions

Texts(Chars, n) == UNION {[1..m -> Chars] : m \in 0..n}
AB == Texts({"a", "b"}, 3)

\* Sequences of pieces, a piece being a sequence of tokens.
Pieced(pieces, n) == {FlattenSeq(seq) : seq \in UNION {[1..m -> pieces] : m \in 0..n}}
Ended(tokens) == Append(tokens, Token(";"))
Enclosed(tokens) == <<Token("(")>> \o tokens \o <<Token(")"), Token("{")>>

A == String(<<"a">>)
B == String(<<"b">>)
X == Ident(<<"x">>)
L == Ident(<<"l">>)
Opens(func, args) == <<Token(func)>> \o args \o <<Token(")")>>
Comma == Token(",")

\* Every sequence of a few tokens.
Soup == Pieced({<<Token(c)>> : c \in {"+", "[", "]", ","}} \cup {<<A>>, <<X>>, <<L>>}, 4)
\* Calls with arguments of every kind, and arguments missing or too many.
Operand == {<<A>>, <<X, Token("+"), B>>, <<L>>, << >>,
            Opens("getenv(", <<B>>), Opens("getenv(", <<B, Comma, A>>), Opens("getenv(", <<A>>),
            Opens("siblingScope(", <<B>>), Opens("split(", <<X, Comma, B>>),
            Opens("join(", <<L, Token("+"), Token("["), A, Comma, Token("]"), Comma, B>>),
            Opens("replace(", <<A, Comma, String(<< >>), Comma, B>>)}
Unary == {"getenv(", "siblingScope(", "readFile(", "configType(", "fileToDir(", "exec(", "join("}
Nested ==
  {Opens(f, a) : f \in Unary, a \in Operand}
    \cup {Opens(f, a \o <<Comma>> \o b) : f \in {"join(", "split(", "getenv(", "fileToDir("},
                                          a \in Operand, b \in Operand}
    \cup {Opens("replace(", a \o <<Comma, A, Comma>> \o b) : a \in Operand, b \in Operand}
    \cup {Opens(f, << >>) : f \in {"osType(", "osDirSeparator(", "osPathSeparator(", "configFile("}}
Broken(lines) == lines \cup {Front(t) : t \in lines}

Cmd(args) == String(<<"c">> \o args)
MCLine ==
  {Ended(t) : t \in Soup \cup Broken(Nested)} \cup {<<A>>, <<L>>}
    \cup {Ended(Opens("split(", <<String(s), Comma, String(d)>>)) :
            s \in AB, d \in Texts({"a", "b"}, 2)}
    \cup {Ended(Opens("replace(", <<String(s), Comma, String(d), Comma, String(r)>>)) :
            s \in AB, d \in Texts({"a", "b"}, 2) \ {<< >>}, r \in {<< >>, <<"b", "a">>}}
    \cup {Ended(Opens("fileToDir(", <<String(s)>>)) : s \in Texts({"a", "/", ":"}, 4)}
    \cup {Ended(Opens("exec(", <<Cmd(c)>> \o d)) :
            c \in Texts({" ", "a"}, 2), d \in {<< >>, <<Comma, B>>}}

True  == <<A, Token("=="), A>>
False == <<A, Token("!="), A>>
Fails == <<Ident(<<"u">>), Token("=="), A>>
Conditions ==
  Pieced({<<Token(c)>> : c \in {"!", "(", ")", "&&", "||"}} \cup {True, False}, 4)
    \cup {FlattenSeq(<<n, a, <<Token(o)>>, b, <<Token(p)>>, c, e>>) :
            n \in {<< >>, <<Token("!"), Token("(")>>}, a \in {True, False}, b \in {True, False},
            c \in {True, False}, o \in {"&&", "||"}, p \in {"&&", "||"},
            e \in {<< >>, <<Token(")")>>}}
    \cup {l \o <<Token(o)>> \o r : l \in {True, False, Fails}, o \in {"&&", "||"},
                                   r \in {True, False, Fails}}
    \cup {<<A, Token("@in")>> \o t : t \in {<<L>>, <<X>>, <<L, Token("+"), L>>, <<Token("["), B, Token("]")>>}}
    \cup {Opens("isFileReadable(", t) : t \in Operand}
MCTest ==
  {Enclosed(t) : t \in Conditions} \cup {<<A>>}
    \cup {Enclosed(<<String(s), Token("@matches"), String(p)>>) :
            s \in AB, p \in Texts({"a", "b", Star}, 3)}

MCClause == UNION {[1..n -> {Token("{"), Token("}"), A}] : n \in 0..5}

MCCommand == {<<"c">>, <<"c", " ", "a">>, <<"c", "a">>, <<"a">>}
Everything == <<Star>>
Deny == [set |-> TRUE, allow |-> <<<<"c", " ", Star>>>>, deny |-> <<<<Star, "a">>>>,
         trusted |-> <<<<"t">>, <<"b">>>>]
AllowAll == [set |-> TRUE, allow |-> <<<<"b">>, Everything>>, deny |-> << >>, trusted |-> <<<<"b">>>>]
MCInstalled == {<<"b", "/", "c">>}

Variable(name, type, val) == <<name>> :> [type |-> type, val |-> val]
Given == Variable("l", "List", <<<<"a">>, <<"b">>>>) @@ Variable("s", "Scope", << >>)
MCStart ==
  {[entries |-> Given, scope |-> << >>, policy |-> NoSecurity],
   [entries |-> Given, scope |-> <<"s", ".", "t">>, policy |-> Deny],
   [entries |-> Given @@ Variable("x", "List", <<<<"a">>>>), scope |-> <<"s">>, policy |-> AllowAll],
   [entries |-> Given @@ Variable("x", "Scope", << >>), scope |-> << >>, policy |-> Deny]}
MCFallback == Variable("x", "String", <<"f">>)
MCAlphabet == {"a", "b", "c", "t", " ", "/", Star}
MCTarget == <<"x">>
MCKept == {[type |-> "String", val |-> <<"a">>]}
MCEnv == <<"b">> :> <<"a", "b">>
MCFiles == <<"b">> :> <<"a", "CR", "b">>
MCLetters == {"a"}
MCOsType == <<"u">>
MCConfigFile == <<"f">>

=============================================================================
