------------------------------ MODULE Statements ------------------------------
(***************************************************************************)
(* ConfigParser: a statement at a time, as far as it takes no expression:  *)
(* clauses that are skipped, and the permission to execute a source.  Of   *)
(* the statements that evaluate an expression this module only says which  *)
(* they are; what they do is in Expressions.                               *)
(***************************************************************************)
EXTENDS Permission

CONSTANTS
  Alphabet,    \* the characters of texts
  Target,      \* the variable statements assign to
  Clause,      \* what may follow the '{' of a clause that is skipped: tokens
  Command,     \* command lines of exec# sources
  Start,       \* what a parse may begin with: variables, scope, security
  Kept,        \* bound: values of Target under which a next statement may come
  Installed    \* External: the file names isCmdInDir finds

ASSUME StatementsAssumption ==
  /\ Clause \subseteq Seq([type : STRING \ {"eof"}, text : Seq(Alphabet)])
  /\ Command \subseteq Seq(Alphabet)
  /\ \A start \in Start :
       start.policy \in [set : BOOLEAN, allow : Seq(Seq(Alphabet)), deny : Seq(Seq(Alphabet)),
                         trusted : Seq(Seq(Alphabet))]

VARIABLES
  entries,     \* the variables of the configuration, as seen from the scope
  scope,       \* the name of m_currScope, empty for the root scope
  policy,      \* what m_securityCfg says
  stmt,        \* the statement parsed last: its kind, operator and tokens
  out          \* what became of it

vars == <<entries, scope, policy, stmt, out>>

NoStmt == [kind |-> "none", op |-> "", tokens |-> << >>]

----------------------------------------------------------------------------
(* Tokens and results. *)

Token(type)   == [type |-> type, text |-> << >>]
String(text)  == [type |-> "string", text |-> text]
Ident(text)   == [type |-> "ident", text |-> text]

\* The type and the spelling of m_token.
Type(t, pos) == IF pos <= Len(t) THEN t[pos].type ELSE "eof"

Yields(v, pos) == [tag |-> "value", value |-> v, pos |-> pos]
Raises == [tag |-> "config", value |-> << >>, pos |-> 0]  \* ConfigurationException
Hangs  == [tag |-> "hangs", value |-> << >>, pos |-> 0]   \* a loop without end

NoEntry == [type |-> "NoValue", val |-> << >>]
Look(table, name) == IF name \in DOMAIN table THEN table[name] ELSE NoEntry

----------------------------------------------------------------------------
(* Steps. *)

\* Mutant: braces within the clause are not counted.
SkipToFirstBrace(t) ==
  LET i == SelectInSeq(t, LAMBDA tok : tok.type = "}")
  IN  IF i = 0 THEN Raises ELSE Yields(<< >>, i + 1)

\* skipToClosingBrace, from behind an opening brace.
SkipToClosingBrace(t) ==
  LET Skip[pos \in 1..(Len(t) + 1)] ==
        [countOpenBraces \in Nat |->
           IF countOpenBraces = 0 THEN Yields(<< >>, pos)
           ELSE IF Type(t, pos) = "eof" THEN Raises
           ELSE Skip[pos + 1][countOpenBraces + (IF Type(t, pos) = "{" THEN 1
                                                 ELSE IF Type(t, pos) = "}" THEN -1 ELSE 0)]]
  IN  Skip[1][1]

SkipClause(t) ==
  /\ stmt = NoStmt
  /\ out' = SkipToClosingBrace(t)
  /\ stmt' = [kind |-> "skip", op |-> "", tokens |-> t]
  /\ UNCHANGED <<entries, scope, policy>>

\* parse of an exec# source: the permission is all that is modelled here.
ParseExecSource(cmd) ==
  /\ stmt = NoStmt
  /\ out' = IF IsExecAllowed(policy, cmd, Installed) THEN Yields(<< >>, 1) ELSE Raises
  /\ stmt' = [kind |-> "source", op |-> "", tokens |-> <<String(cmd)>>]
  /\ UNCHANGED <<entries, scope, policy>>

\* The next statement, while the values are within the bound.
NextStmt ==
  /\ stmt # NoStmt /\ out.tag # "hangs"
  /\ Look(entries, Target) \in Kept
  /\ stmt' = NoStmt
  /\ out' = Yields(<< >>, 1)
  /\ UNCHANGED <<entries, scope, policy>>

\* An assignment or a condition, whatever its value.
Evaluate ==
  /\ stmt = NoStmt
  /\ stmt'.kind \in {"assign", "if"}
  /\ UNCHANGED <<scope, policy>>

Init ==
  /\ \E start \in Start :
       entries = start.entries /\ scope = start.scope /\ policy = start.policy
  /\ stmt = NoStmt
  /\ out = Yields(<< >>, 1)

\* Expressions has Assign and If in place of Evaluate.
StatementNext ==
  \/ \E t \in Clause : SkipClause(t)
  \/ \E cmd \in Command : ParseExecSource(cmd)
  \/ Evaluate
  \/ NextStmt

StatementSpec == Init /\ [][StatementNext]_vars

----------------------------------------------------------------------------
(* Properties. *)

\* A clause that is not run is skipped up to the brace that closes it.
Braces(t, p, type) == {i \in 1..p : t[i].type = type}
Closes(t, p) == Cardinality(Braces(t, p, "}")) = Cardinality(Braces(t, p, "{")) + 1
SkipsOneClause ==
  stmt.kind = "skip" =>
    LET ends == {p \in DOMAIN stmt.tokens : Closes(stmt.tokens, p)}
    IN  IF ends = {} THEN out.tag = "config" ELSE out = Yields(<< >>, Min(ends) + 1)

Arg(i) == stmt.tokens[i].text

\* The source of a configuration is executed exactly if it is permitted.
SourcesArePermitted == stmt.kind = "source" => (out.tag = "value" <=> Permitted(policy, Arg(1), Installed))

=============================================================================
