----------------------------- MODULE Expressions -----------------------------
(***************************************************************************)
(* ConfigParser: the expressions of the configuration language, from the   *)
(* tokens of a statement to the value a variable gets.                     *)
(*                                                                         *)
(* The parser is a recursive descent over the tokens and evaluates while   *)
(* it parses.  Each parse function is an operator from the tokens and the  *)
(* position of m_token to a result: the value and the position behind it,  *)
(* or how the function was left without one.                               *)
(***************************************************************************)
EXTENDS Statements

CONSTANTS
  Line,        \* what may stand on the right of an assignment: tokens
  Test,        \* conditions: tokens
  Fallback,    \* the variables of the fallback configuration
  Env,         \* External: the environment variables
  Files,       \* External: the files that can be read, with what they hold
  Letters,     \* the characters isalpha accepts
  OsType, ConfigFile  \* the texts of osType() and configFile()

----------------------------------------------------------------------------
(* Tokens and results. *)

\* isStringFunc: functions that begin a string.
StringFunc == {"siblingScope(", "getenv(", "exec(", "join(", "readFile(", "replace(",
               "osType(", "osDirSeparator(", "osPathSeparator(", "fileToDir(", "configFile(",
               "configType("}

\* The rest of a function after a call, and after accept.
Then(result, Rest(_, _)) ==
  IF result.tag = "value" THEN Rest(result.value, result.pos) ELSE result
Accept(type, t, pos, Rest(_)) == IF Type(t, pos) = type THEN Rest(pos + 1) ELSE Raises

\* The last accept of a function.
Closed(v, t, pos) == Accept(")", t, pos, LAMBDA p : Yields(v, p))

----------------------------------------------------------------------------
(* Names. *)

\* type(name, ""), which does not reach the fallback, and lookup(name, name).
TypeOf(name) == Look(entries, name).type
Lookup(name) == IF TypeOf(name) # "NoValue" THEN Look(entries, name) ELSE Look(Fallback, name)

MergeNames(outer, local) ==
  IF outer = << >> THEN local
  ELSE IF local = << >> THEN outer ELSE outer \o <<".">> \o local

ParentScope == LET dot == SelectLastInSeq(scope, LAMBDA c : c = ".")
               IN  IF dot = 0 THEN << >> ELSE SubSeq(scope, 1, dot - 1)

TypeName == [String |-> <<"s", "t", "r", "i", "n", "g">>, List |-> <<"l", "i", "s", "t">>,
             Scope |-> <<"s", "c", "o", "p", "e">>,
             NoValue |-> <<"n", "o", "_", "v", "a", "l", "u", "e">>]

----------------------------------------------------------------------------
(* String and list expressions. *)

RECURSIVE ParseString(_, _), ParseList(_, _), StringExprRest(_, _, _), ListExprRest(_, _, _),
          StringArgs(_, _, _, _), StringExprListRest(_, _, _)

\* Mutant: what follows is put in front.
StringExprRestInFront(t, pos, str) ==
  IF Type(t, pos) # "+" THEN Yields(str, pos)
  ELSE Then(ParseString(t, pos + 1), LAMBDA str2, p : StringExprRest(t, p, str2 \o str))

\* StringExpr = String { '+' String }*
StringExprRest(t, pos, str) ==
  IF Type(t, pos) # "+" THEN Yields(str, pos)
  ELSE Then(ParseString(t, pos + 1), LAMBDA str2, p : StringExprRest(t, p, str \o str2))
ParseStringExpr(t, pos) ==
  Then(ParseString(t, pos), LAMBDA str, p : StringExprRest(t, p, str))

\* ListExpr = List { '+' List }*
ListExprRest(t, pos, list) ==
  IF Type(t, pos) # "+" THEN Yields(list, pos)
  ELSE Then(ParseList(t, pos + 1), LAMBDA list2, p : ListExprRest(t, p, list \o list2))
ParseListExpr(t, pos) ==
  Then(ParseList(t, pos), LAMBDA list, p : ListExprRest(t, p, list))

\* String expressions with commas between, at least and at most so many.
StringArgs(t, pos, least, most) ==
  Then(ParseStringExpr(t, pos), LAMBDA str, p :
    IF least > 1 \/ (most > 1 /\ Type(t, p) = ",")
    THEN Accept(",", t, p, LAMBDA q :
           Then(StringArgs(t, q, least - 1, most - 1), LAMBDA strs, r : Yields(<<str>> \o strs, r)))
    ELSE Yields(<<str>>, p))

\* The functions of string expressions, and how many they take.
Arity(func) ==
  CASE func \in {"getenv(", "exec("} -> [least |-> 1, most |-> 2]
    [] func = "split("               -> [least |-> 2, most |-> 2]
    [] func = "replace("             -> [least |-> 3, most |-> 3]
    [] OTHER                         -> [least |-> 1, most |-> 1]

Means(v) == Yields(v, 0)

\* The second argument of getenv( and exec( is a default.
ParseEnv(args) ==
  CASE args[1] \in DOMAIN Env                       -> Means(Env[args[1]])
    [] args[1] \notin DOMAIN Env /\ Len(args) = 2 -> Means(args[2])
    [] OTHER                                        -> Raises

\* The output of the command is discarded: without a default it becomes part of
\* the message of an exception.
ParseExec(args) ==
  IF IsExecAllowed(policy, args[1], Installed) /\ Len(args) = 2 THEN Means(args[2]) ELSE Raises

ParseSiblingScope(args) == Means(MergeNames(ParentScope, args[1]))

\* Carriage returns are dropped.
ParseReadFile(args) ==
  IF args[1] \in DOMAIN Files THEN Means(SelectSeq(Files[args[1]], LAMBDA c : c # "CR")) ELSE Raises

ParseReplace(args) ==
  IF args[2] = << >> THEN Hangs ELSE Means(Replace(args[1], args[2], args[3]))

ParseSplit(args) == IF args[2] = << >> THEN Hangs ELSE Means(Split(args[1], args[2]))

\* What a function computes from the values of its arguments.
Applied(func, args) ==
  CASE func = "getenv("         -> ParseEnv(args)
    [] func = "exec("           -> ParseExec(args)
    [] func = "siblingScope("   -> ParseSiblingScope(args)
    [] func = "readFile("       -> ParseReadFile(args)
    [] func = "replace("        -> ParseReplace(args)
    [] func = "split("          -> ParseSplit(args)
    [] func = "fileToDir("      -> Means(DirectoryOfFile(args[1], Letters))
    [] func = "configType("     -> Means(TypeName[Lookup(args[1]).type])
    [] func = "isFileReadable(" -> Means(args[1] \in DOMAIN Files)

\* The arguments and the ')', then the function.
ParseFunc(t, pos) ==
  LET arity == Arity(Type(t, pos))
  IN  Then(StringArgs(t, pos + 1, arity.least, arity.most), LAMBDA args, p :
        Accept(")", t, p, LAMBDA q :
          Then(Applied(Type(t, pos), args), LAMBDA v, none : Yields(v, q))))

ParseJoin(t, pos) ==
  Then(ParseListExpr(t, pos + 1), LAMBDA list, p :
    Accept(",", t, p, LAMBDA q :
      Then(ParseStringExpr(t, q), LAMBDA separator, r :
        Closed(Join(list, separator), t, r))))

\* The functions that take nothing.
TextOf(func) ==
  CASE func = "osType("          -> OsType
    [] func = "osDirSeparator("  -> <<Slash>>
    [] func = "osPathSeparator(" -> <<":">>
    [] func = "configFile("      -> ConfigFile
TextFunc == {"osType(", "osDirSeparator(", "osPathSeparator(", "configFile("}

\* siblingScope( asks for its scope before it reads its argument.
NoSibling(func) == func = "siblingScope(" /\ scope = << >>

ParseString(t, pos) ==
  CASE Type(t, pos) = "string"        -> Yields(t[pos].text, pos + 1)
    [] Type(t, pos) = "ident"         ->
         (LET entry == Lookup(t[pos].text)
          IN  IF entry.type = "String" THEN Yields(entry.val, pos + 1) ELSE Raises)
    [] NoSibling(Type(t, pos))        -> Raises
    [] Type(t, pos) = "join("         -> ParseJoin(t, pos)
    [] Type(t, pos) \in TextFunc     -> Closed(TextOf(Type(t, pos)), t, pos + 1)
    [] Type(t, pos) \in StringFunc \ (TextFunc \cup {"join("}) /\ ~NoSibling(Type(t, pos)) ->
         ParseFunc(t, pos)
    [] OTHER -> Raises

\* StringExprList = empty | StringExpr { ',' StringExpr }* [ ',' ]
StringExprListRest(t, pos, list) ==
  IF Type(t, pos) # "," \/ Type(t, pos + 1) = "]"
  THEN Yields(list, IF Type(t, pos) = "," THEN pos + 1 ELSE pos)
  ELSE Then(ParseStringExpr(t, pos + 1), LAMBDA str, p :
         StringExprListRest(t, p, Append(list, str)))
ParseStringExprList(t, pos) ==
  CASE Type(t, pos) = "]" -> Yields(<< >>, pos)
    [] Type(t, pos) \in StringFunc \cup {"string", "ident"} ->
         Then(ParseStringExpr(t, pos), LAMBDA str, p : StringExprListRest(t, p, <<str>>))
    [] OTHER -> Raises

ParseList(t, pos) ==
  CASE Type(t, pos) = "split(" -> ParseFunc(t, pos)
    [] Type(t, pos) = "["      ->
         Then(ParseStringExprList(t, pos + 1), LAMBDA list, p :
           Accept("]", t, p, LAMBDA q : Yields(list, q)))
    [] Type(t, pos) = "ident"  ->
         (LET entry == Lookup(t[pos].text)
          IN  IF entry.type = "List" THEN Yields(entry.val, pos + 1) ELSE Raises)
    [] OTHER -> Raises

----------------------------------------------------------------------------
(* Conditions.  There is no short circuit: an operand that is not needed is *)
(* parsed and evaluated all the same.                                       *)

RECURSIVE ParseTerminal(_, _), AndRest(_, _, _), OrRest(_, _, _)

\* Mutant: a || behind the right operand is taken as a part of it.
AndRestGreedy(t, pos, result) ==
  IF Type(t, pos) # "&&" THEN Yields(result, pos)
  ELSE Then(ParseTerminal(t, pos + 1), LAMBDA result2, p :
         Then(OrRest(t, p, result2), LAMBDA result3, q : Yields(result /\ result3, q)))

AndRest(t, pos, result) ==
  IF Type(t, pos) # "&&" THEN Yields(result, pos)
  ELSE Then(ParseTerminal(t, pos + 1), LAMBDA result2, p : AndRest(t, p, result /\ result2))
ParseAndCondition(t, pos) ==
  Then(ParseTerminal(t, pos), LAMBDA result, p : AndRest(t, p, result))

OrRest(t, pos, result) ==
  IF Type(t, pos) # "||" THEN Yields(result, pos)
  ELSE Then(ParseAndCondition(t, pos + 1), LAMBDA result2, p : OrRest(t, p, result \/ result2))
ParseCondition(t, pos) ==
  Then(ParseAndCondition(t, pos), LAMBDA result, p : OrRest(t, p, result))

Compared(type, str, str2) ==
  CASE type = "=="       -> str = str2
    [] type = "!="       -> str # str2
    [] type = "@matches" -> PatternMatch(str, str2)

\* What stands behind the string expression str.
ParseComparison(t, pos, str) ==
  CASE Type(t, pos) \in {"==", "!=", "@matches"} ->
         Then(ParseStringExpr(t, pos + 1), LAMBDA str2, p :
           Yields(Compared(Type(t, pos), str, str2), p))
    [] Type(t, pos) = "@in" ->
         Then(ParseListExpr(t, pos + 1), LAMBDA list, p : Yields(Contains(list, str), p))
    [] OTHER -> Raises

ParseTerminal(t, pos) ==
  CASE Type(t, pos) = "!" ->
         Accept("(", t, pos + 1, LAMBDA p :
           Then(ParseCondition(t, p), LAMBDA result, q : Closed(~result, t, q)))
    [] Type(t, pos) = "(" ->
         Then(ParseCondition(t, pos + 1), LAMBDA result, p : Closed(result, t, p))
    [] Type(t, pos) = "isFileReadable(" -> ParseFunc(t, pos)
    [] OTHER ->
         Then(ParseStringExpr(t, pos), LAMBDA str, p : ParseComparison(t, p, str))

----------------------------------------------------------------------------
(* Statements. *)

\* The first token tells a string expression from a list expression.
RhsType(t) ==
  CASE Type(t, 1) \in {"[", "split("} -> "List"
    [] Type(t, 1) \in StringFunc \cup {"string"} -> "String"
    [] Type(t, 1) = "ident" -> TypeOf(t[1].text)
    [] OTHER -> "NoValue"

\* The terminator a statement accepts.
Statement(result, t) ==
  Then(result, LAMBDA v, p : Accept(";", t, p, LAMBDA q : Yields(v, q)))

\* parseRhsAssignStmt.  The assignment is done before the ';' is asked for.
ParseRhs(t) ==
  CASE RhsType(t) = "String" -> ParseStringExpr(t, 1)
    [] RhsType(t) = "List"   -> ParseListExpr(t, 1)
    [] OTHER                 -> Raises

Assign(op, t) ==
  /\ stmt = NoStmt
  /\ LET result == ParseRhs(t)
         assigns == result.tag = "value" /\
                    (op = "=" \/ TypeOf(Target) \notin {"String", "List"})
     IN  \* insertString and insertList do not replace a scope.
         IF assigns /\ TypeOf(Target) = "Scope"
         THEN out' = Raises /\ UNCHANGED entries
         ELSE /\ out' = Statement(result, t)
              /\ entries' = IF assigns
                            THEN [name \in DOMAIN entries \cup {Target} |->
                                    IF name = Target THEN [type |-> RhsType(t), val |-> result.value]
                                    ELSE entries[name]]
                            ELSE entries
  /\ stmt' = [kind |-> "assign", op |-> op, tokens |-> t]
  /\ UNCHANGED <<scope, policy>>

\* The condition of an @if or @elseIf with what encloses it.
If(t) ==
  /\ stmt = NoStmt
  /\ out' = Accept("(", t, 1, LAMBDA p :
              Then(ParseCondition(t, p), LAMBDA result, q :
                Accept(")", t, q, LAMBDA r :
                  Accept("{", t, r, LAMBDA w : Yields(result, w)))))
  /\ stmt' = [kind |-> "if", op |-> "", tokens |-> t]
  /\ UNCHANGED <<entries, scope, policy>>

Next ==
  \/ stmt = NoStmt /\
       \/ \E op \in {"=", "?="}, t \in Line : Assign(op, t)
       \/ \E t \in Test : If(t)
       \/ \E t \in Clause : SkipClause(t)
       \/ \E cmd \in Command : ParseExecSource(cmd)
  \/ NextStmt

Spec == Init /\ [][Next]_vars

----------------------------------------------------------------------------
(* The grammar of the comments in front of the parse functions, and what a  *)
(* sentence of it means: the set of the outcomes of its derivations.        *)

Before(t, i) == SubSeq(t, 1, i - 1)
Cuts(t, type) == {i \in DOMAIN t : t[i].type = type}

\* One token of one of the types.
One(t, types) == Len(t) = 1 /\ t[1].type \in types

\* What stands between the function and its closing parenthesis.
Calls(t, funcs) == Len(t) >= 2 /\ t[1].type \in funcs /\ Last(t).type = ")"
Args(t) == SubSeq(t, 2, Len(t) - 1)

\* Operands are evaluated from left to right, the first failure is the outcome.
Both(lefts, rights, Op(_, _)) ==
  {IF l.tag # "value" THEN l ELSE IF r.tag # "value" THEN r ELSE Op(l.value, r.value) :
     l \in lefts, r \in rights}
Each(outcomes, Op(_)) == Both(outcomes, {Means(0)}, LAMBDA v, none : Op(v))

Concat(a, b) == Means(a \o b)

RECURSIVE StringMeans(_), ListMeans(_), StringExprMeans(_), ListExprMeans(_), StringsMean(_, _)

\* StringExpr = String { '+' String }*, ListExpr = List { '+' List }*
StringExprMeans(t) ==
  StringMeans(t) \cup
  UNION {Both(StringExprMeans(Before(t, i)), StringMeans(From(t, i + 1)), Concat) :
           i \in Cuts(t, "+")}
ListExprMeans(t) ==
  ListMeans(t) \cup
  UNION {Both(ListExprMeans(Before(t, i)), ListMeans(From(t, i + 1)), Concat) :
           i \in Cuts(t, "+")}

\* n string expressions with commas between.
StringsMean(t, n) ==
  IF n = 1 THEN Each(StringExprMeans(t), LAMBDA str : Means(<<str>>))
  ELSE UNION {Both(StringsMean(Before(t, i), n - 1), StringExprMeans(From(t, i + 1)),
                   LAMBDA list, str : Means(Append(list, str))) : i \in Cuts(t, ",")}

\* A function between its name and its ')'.
FuncMeans(t, func) ==
  LET arity == Arity(func)
  IN  IF NoSibling(func) THEN {Raises}
      ELSE Each(UNION {StringsMean(t, n) : n \in arity.least..arity.most},
                LAMBDA args : Applied(func, args))

VariableMeans(name, type) ==
  IF Lookup(name).type = type THEN Means(Lookup(name).val) ELSE Raises

StringMeans(t) ==
  CASE One(t, {"string"}) -> {Means(t[1].text)}
    [] One(t, {"ident"})  -> {VariableMeans(t[1].text, "String")}
    [] Calls(t, TextFunc) /\ Args(t) = << >> -> {Means(TextOf(t[1].type))}
    [] Calls(t, {"join("}) ->
         UNION {Both(ListExprMeans(Before(Args(t), i)), StringExprMeans(From(Args(t), i + 1)),
                     LAMBDA list, separator : Means(Join(list, separator))) :
                  i \in Cuts(Args(t), ",")}
    [] Calls(t, StringFunc \ (TextFunc \cup {"join("})) -> FuncMeans(Args(t), t[1].type)
    [] OTHER -> {}

\* '[' [ StringExpr { ',' StringExpr }* [ ',' ] ] ']'
SomeStrings(t) == UNION {StringsMean(t, n) : n \in 1..(1 + Cardinality(Cuts(t, ",")))}
BracketsMean(t) ==
  CASE t = << >>            -> {Means(<< >>)}
    [] t # << >> /\ Last(t).type = ","  -> SomeStrings(Front(t))
    [] t # << >> /\ Last(t).type # ","  -> SomeStrings(t)

ListMeans(t) ==
  CASE One(t, {"ident"})    -> {VariableMeans(t[1].text, "List")}
    [] Len(t) >= 2 /\ t[1].type = "[" /\ Last(t).type = "]" -> BracketsMean(Args(t))
    [] Calls(t, {"split("}) -> FuncMeans(Args(t), "split(")
    [] OTHER                -> {}

\* Condition = And { '||' And }*, And = Term { '&&' Term }*
RECURSIVE CondMeans(_), AndMeans(_), TermMeans(_)
CondMeans(t) ==
  AndMeans(t) \cup
  UNION {Both(CondMeans(Before(t, i)), AndMeans(From(t, i + 1)),
              LAMBDA a, b : Means(a \/ b)) : i \in Cuts(t, "||")}
AndMeans(t) ==
  TermMeans(t) \cup
  UNION {Both(AndMeans(Before(t, i)), TermMeans(From(t, i + 1)),
              LAMBDA a, b : Means(a /\ b)) : i \in Cuts(t, "&&")}

TermMeans(t) ==
  UNION {
    IF Calls(t, {"("}) THEN CondMeans(Args(t)) ELSE {},
    IF Len(t) >= 3 /\ t[1].type = "!" /\ t[2].type = "(" /\ Last(t).type = ")"
    THEN Each(CondMeans(Args(Tail(t))), LAMBDA result : Means(~result)) ELSE {},
    IF Calls(t, {"isFileReadable("}) THEN FuncMeans(Args(t), "isFileReadable(") ELSE {},
    UNION {Both(StringExprMeans(Before(t, i)), StringExprMeans(From(t, i + 1)),
                LAMBDA a, b : Means(Compared(t[i].type, a, b))) :
             i \in {k \in DOMAIN t : t[k].type \in {"==", "!=", "@matches"}}},
    UNION {Both(StringExprMeans(Before(t, i)), ListExprMeans(From(t, i + 1)),
                LAMBDA str, list : Means(Contains(list, str))) : i \in Cuts(t, "@in")}}

\* A sentence of the grammar has one meaning and the parser computes it; what is
\* no sentence is refused, unless an operand that does not end comes first.
Agrees(outcome, meanings) ==
  IF meanings = {} THEN outcome.tag \in {"config", "hangs"}
  ELSE {[outcome EXCEPT !.pos = 0]} = meanings

\* What an assignment may have on its right: a list exactly if it begins like one.
RhsMeans(t) ==
  CASE RhsType(t) = "String" -> StringExprMeans(t)
    [] RhsType(t) = "List"   -> ListExprMeans(t)
    [] OTHER                 -> {}

----------------------------------------------------------------------------
(* Properties. *)

\* An assignment gives its variable what the grammar of the comments says the
\* right side means, and no other variable changes; what is no sentence of the
\* grammar raises an exception.
AssignsAsWritten ==
  [][stmt = NoStmt /\ stmt'.kind = "assign" =>
       LET t        == stmt'.tokens
           meanings == IF t # << >> /\ Last(t).type = ";" THEN RhsMeans(Front(t)) ELSE {}
           keeps    == stmt'.op = "?=" /\ TypeOf(Target) \in {"String", "List"}
       IN  IF meanings # {} /\ TypeOf(Target) = "Scope"
           THEN out'.tag # "value" /\ UNCHANGED entries
           ELSE /\ Agrees(out', meanings)
                /\ out'.tag = "value" /\ ~keeps =>
                     {entries'[Target].val} = {m.value : m \in meanings}
                /\ keeps => UNCHANGED entries
                /\ \A name \in DOMAIN entries \ {Target} : entries'[name] = entries[name]]_vars

\* A condition is true exactly if the grammar says so: && binds more strongly than
\* ||, ! needs its parentheses, and an operand that fails fails the condition,
\* also when it could not change the result.
ConditionsAsWritten ==
  stmt.kind = "if" =>
    LET t == stmt.tokens
    IN  Agrees(out, IF Last(t).type = "{" /\ Calls(Front(t), {"("})
                    THEN CondMeans(Args(Front(t))) ELSE {})

\* The tokens of the last statement are of these types.
Reads(types) == [i \in DOMAIN stmt.tokens |-> stmt.tokens[i].type] = types
Assigns(types) ==
  stmt.kind = "assign" /\ TypeOf(Target) # "Scope" /\ Reads(Append(types, ";"))

\* split() cuts at every delimiter, and join() undoes it.
SplitIsUndone ==
  Assigns(<<"split(", "string", ",", "string", ")">>) /\ Arg(4) # << >> =>
    IsCutAt(out.value, Arg(2), Arg(4))

\* replace() is a split() at the text searched and a join() with the other one.
ReplaceIsJoinOfSplit ==
  Assigns(<<"replace(", "string", ",", "string", ",", "string", ")">>) /\ Arg(4) # << >> =>
    out.value = Join(Split(Arg(2), Arg(4)), Arg(6))

\* Whatever text is searched for and wherever it begins, overlaps itself or ends.
DelimitersAreFound == SplitIsUndone /\ ReplaceIsJoinOfSplit

\* @matches compares as the comment of patternMatch says.
WildcardsAsInAShell ==
  stmt.kind = "if" /\ Reads(<<"(", "string", "@matches", "string", ")", "{">>) =>
    (out.value <=> MatchesLikeAShell(Arg(2), Arg(4)))

\* A command is executed, by exec( or as the source of a configuration, only if it is
\* permitted.
OnlyPermittedCommands ==
  /\ SourcesArePermitted
  /\ Assigns(<<"exec(", "string", ",", "string", ")">>) =>
       (out.tag = "value" <=> Permitted(policy, Arg(2), Installed))

\* ConfigParser.cpp:1341-1345: an exception, the default, "or return the output of
\* the successful execCmd()".  Without a default, a permitted command succeeds.
ExecGivesOutput ==
  Assigns(<<"exec(", "string", ")">>) /\ Permitted(policy, Arg(2), Installed) =>
    out.tag = "value"

=============================================================================
