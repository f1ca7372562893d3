----------------------------- MODULE ConfigParser -----------------------------
(***************************************************************************)
(* ConfigParser: the statements of configuration files, at work on a       *)
(* Configuration object.  What a file contains is chosen while it is       *)
(* parsed, so every step is "the parser meets such a statement".           *)
(*                                                                         *)
(* The parser is recursive: a file, a scope and an @if statement each have *)
(* a C++ function activation, and `stack` is the stack of activations.  An *)
(* exception unwinds it one activation at a time.  The program calls the   *)
(* object only between two parses.                                         *)
(***************************************************************************)
EXTENDS Configuration

CONSTANTS
  Spelled,     \* names an identifier in a file can spell: not the empty one
  File,        \* sources that can be parsed or included
  HashFile,    \* those of them that are also written with the prefix file#
  Opaque,      \* TRUE if a statement may raise an exception of another type
  RootedCopy,  \* TRUE if @copyFrom names may be written with a dot too many
  Chop,        \* [name -> the name left when its first character is dropped]
  MaxStmts,    \* bound: statements in one block
  MaxFiles     \* bound: names in fileNameStack

ASSUME SpelledNames == Spelled \subseteq Name
ASSUME HashFilesAreFiles == HashFile \subseteq File
ASSUME ParserBounds == MaxStmts \in Nat /\ MaxFiles \in Nat
ASSUME Switches == Opaque \in BOOLEAN /\ RootedCopy \in BOOLEAN
ASSUME ChopGivesNames == Chop \in [Name -> Name]

VARIABLES
  fileNameStack,  \* m_fileNameStack
  stack,          \* the activations of parser functions, innermost last
  copy            \* the loop of parseCopyStmt, or NoCopy

parserVars == <<fileNameStack, stack, copy>>
vars == <<tree, currScope, fallback, exc, fileNameStack, stack, copy>>

----------------------------------------------------------------------------
(* Activations. *)

\* kind:  "file"    ConfigParser's constructor
\*        "scope"   parseScope
\*        "if"      parseIfStmt, between two of its clauses
\*        "clause"  parseIfStmt, in the statement list of a clause
\*        "search"  parseReplace or parseSplit, in its loop with an empty text
\* at:    the current scope on entry (oldScope in parseScope)
\* left:  statements, or clauses, the block may still have (a bound)
\* taken: "if" only: the condition of some clause so far was true
\* ran:   "if" only: clauses whose statements were parsed (history)
Frame == [kind : {"file", "scope", "if", "clause", "search"}, file : File \cup {None},
          at : Path, left : 0..MaxStmts, taken : BOOLEAN, ran : Nat]

Activation(kind, left) ==
  [kind |-> kind, file |-> None, at |-> currScope, left |-> left,
   taken |-> FALSE, ran |-> 0]

Top == Last(stack)
Below == Front(stack)

NoCopy == << >>

\* The statement list of the innermost activation is being parsed.
InStmtList ==
  stack # << >> /\ exc = "none" /\ copy = NoCopy /\ Top.kind \notin {"if", "search"}

\* ... and may have another statement.
AtStmt == InStmtList /\ Top.left > 0

\* The stack once the innermost block has one statement less to come.
Advanced == [stack EXCEPT ![Len(stack)].left = @ - 1]

\* Exceptions a malformed or failing statement raises.
Error == {"config"} \cup (IF Opaque THEN {"foreign"} ELSE {})

\* A statement that has done its work still has to accept its terminator and
\* to read the token after it; either may fail.
Terminated == exc' \in {"none"} \cup Error

Idle == stack = << >> /\ exc = "none"

----------------------------------------------------------------------------
(* Assignments: parseStmt and parseRhsAssignStmt. *)

TypeOf(ref) == OwnLookup(tree, currScope, ref, FALSE).type

Declared(vec) == TypeOf([rooted |-> FALSE, vec |-> vec]) \in {"String", "List"}

\* "=" always assigns; "?=" does when the name is not yet that of a variable.
\* The question is put to lookup, so a variable of an outer scope counts.  What is
\* assigned is an expression that has a value; one that raises an exception is in
\* StmtError, and one that never has a value in SearchForever.
Assign(vec, item, op) ==
  /\ AtStmt /\ Fits(vec)
  /\ stack' = Advanced
  /\ IF op = "?=" /\ Declared(vec)
     THEN tree' = tree /\ Terminated
     ELSE LET result == Insert(tree, currScope, vec, item)
          IN  /\ tree' = result.tree
              /\ IF result.ok THEN Terminated ELSE exc' = "config"
  /\ UNCHANGED <<currScope, fallback, fileNameStack, copy>>

\* The operand of an expression is a variable.  The first operand decides
\* whether the expression is a string or a list, and has to be a variable of
\* the configuration itself; a later one may also come from the fallback, but
\* has to be of the kind the expression has by now.
Operand(ref, kind) ==
  IF kind = "First" THEN OwnLookup(tree, currScope, ref, FALSE)
  ELSE Lookup(tree, fallback, currScope, ref, FALSE)

\* The value is that of the operand, whatever it is joined with.
AssignFrom(vec, ref, kind, op) ==
  /\ AtStmt /\ Fits(vec)
  /\ LET item == Operand(ref, kind)
     IN  IF item \in Variable /\ kind \in {"First", item.type}
         THEN Assign(vec, item, op)
         ELSE /\ stack' = Advanced
              /\ exc' = "config"
              /\ UNCHANGED <<tree, currScope, fallback, fileNameStack, copy>>

----------------------------------------------------------------------------
(* Scopes: parseScope. *)

OpenScope(vec) ==
  /\ AtStmt /\ Fits(vec)
  /\ LET result == EnsureScopeExists(tree, currScope, vec)
     IN  /\ tree' = result.tree
         /\ IF result.ok
            THEN /\ currScope' = currScope \o vec
                 /\ stack' = Append(Advanced, Activation("scope", Top.left - 1))
                 /\ exc' = "none"
            ELSE /\ exc' = "config"
                 /\ stack' = Advanced
                 /\ UNCHANGED currScope
  /\ UNCHANGED <<fallback, fileNameStack, copy>>

\* Mutant: the current scope is not restored.
CloseScopeStays ==
  /\ InStmtList /\ Top.kind = "scope"
  /\ stack' = Below
  /\ UNCHANGED <<tree, currScope, fallback, exc, fileNameStack, copy>>

\* Mutant: the parent of the closed scope becomes current, which is not the
\* scope found on entry when the scope was opened as a.b.
CloseScopeToParent ==
  /\ InStmtList /\ Top.kind = "scope"
  /\ currScope' = Front(currScope)
  /\ stack' = Below
  /\ UNCHANGED <<tree, fallback, exc, fileNameStack, copy>>

CloseScope ==
  /\ InStmtList /\ Top.kind = "scope"
  /\ currScope' = Top.at
  /\ stack' = Below
  /\ UNCHANGED <<tree, fallback, exc, fileNameStack, copy>>

----------------------------------------------------------------------------
(* Conditionals: parseIfStmt.  A clause that is not to be run is skipped to *)
(* its closing brace, which leaves everything as it is.                     *)

\* The stack when the parser enters the statements of a clause, or skips them.
Clause(st, run) ==
  IF run
  THEN Append([st EXCEPT ![Len(st)].ran = @ + 1],
              Activation("clause", st[Len(st)].left))
  ELSE st

OpenIf(condition) ==
  /\ AtStmt
  /\ stack' = Clause(Append(Advanced,
                       [Activation("if", Top.left - 1) EXCEPT !.taken = condition]),
                     condition)
  /\ UNCHANGED <<tree, currScope, fallback, exc, fileNameStack, copy>>

BetweenClauses == stack # << >> /\ exc = "none" /\ Top.kind = "if"

\* Mutant: the clauses before the last one are forgotten.
ElseIfForgets(condition) ==
  /\ BetweenClauses /\ Top.left > 0
  /\ stack' = Clause([Advanced EXCEPT ![Len(stack)].taken = condition],
                     ~Top.taken /\ condition)
  /\ UNCHANGED <<tree, currScope, fallback, exc, fileNameStack, copy>>

ElseIf(condition) ==
  /\ BetweenClauses /\ Top.left > 0
  /\ stack' = Clause([Advanced EXCEPT ![Len(stack)].taken = @ \/ condition],
                     ~Top.taken /\ condition)
  /\ UNCHANGED <<tree, currScope, fallback, exc, fileNameStack, copy>>

\* @else is the last clause.
Else ==
  /\ BetweenClauses /\ Top.left > 0
  /\ stack' = Clause([stack EXCEPT ![Len(stack)].left = 0], ~Top.taken)
  /\ UNCHANGED <<tree, currScope, fallback, exc, fileNameStack, copy>>

CloseClause ==
  /\ InStmtList /\ Top.kind = "clause"
  /\ stack' = Below
  /\ UNCHANGED <<tree, currScope, fallback, exc, fileNameStack, copy>>

EndIf ==
  /\ BetweenClauses
  /\ stack' = Below
  /\ UNCHANGED <<tree, currScope, fallback, exc, fileNameStack, copy>>

----------------------------------------------------------------------------
(* Statements that change nothing else: parseRemoveStmt, errors. *)

\* Mutant: the name is removed from the root scope.
RemoveStmtFromRoot(name) ==
  /\ AtStmt
  /\ stack' = Advanced
  /\ IF FindItem(tree, <<name>>) # NoItem
     THEN tree' = RemoveItem(tree, <<name>>) /\ Terminated
     ELSE exc' = "config" /\ UNCHANGED tree
  /\ UNCHANGED <<currScope, fallback, fileNameStack, copy>>

\* @remove: one name, searched in the table of the current scope only.
RemoveStmt(name) ==
  /\ AtStmt
  /\ stack' = Advanced
  /\ IF FindItem(tree, Append(currScope, name)) # NoItem
     THEN /\ tree' = RemoveItem(tree, Append(currScope, name))
          /\ Terminated
     ELSE exc' = "config" /\ UNCHANGED tree
  /\ UNCHANGED <<currScope, fallback, fileNameStack, copy>>

\* An @error statement, a syntax error, or an expression that cannot be
\* evaluated: raised before the statement has changed anything.
StmtError ==
  /\ InStmtList \/ BetweenClauses
  /\ exc' \in Error
  /\ UNCHANGED <<tree, currScope, fallback, fileNameStack, stack, copy>>

\* replace() or split() with an empty text to search for, in an assignment, a
\* condition, or what is to be included: strstr finds it where the loop has just
\* been, and the loop goes on from there.
SearchForever ==
  /\ AtStmt \/ (BetweenClauses /\ Top.left > 0)
  /\ stack' = Append(stack, Activation("search", 0))
  /\ UNCHANGED <<tree, currScope, fallback, exc, fileNameStack, copy>>

Endless == stack # << >> /\ Top.kind = "search"

\* One more round of the loop.  Only texts that no variable holds grow.
SearchOn == Endless /\ exc = "none" /\ UNCHANGED vars

----------------------------------------------------------------------------
(* @copyFrom: parseCopyStmt. *)

\* copy.names is what listFullyScopedNames returned for the source, and what
\* the names stood for at that time (history); copy.todo are the names still
\* to be copied and copy.last the one copied before.

\* Mutant: the scopes between the source and the entry are dropped.
NewNameFlat(from, p) == <<Last(p)>>

\* Name, relative to the current scope, under which an entry is copied.  The
\* number of characters cut off is that of the source as it was written, and
\* a dot in front or at the end is one of them.
NewName(from, p) ==
  LET rest == SubSeq(p, Len(from.vec) + 1, Len(p))
  IN  IF from.rooted THEN <<Chop[Head(rest)]>> \o Tail(rest) ELSE rest

\* The parent scope check compares with scoped names, which have no dot there.
CopiesFromOwnOrParent(from) == ~from.rooted /\ IsPrefix(from.vec, currScope)

\* The tree that holds the source: the fallback's only if this one has none.
CopySource(from) ==
  IF OwnLookup(tree, currScope, from, TRUE) # NoItem THEN tree ELSE fallback

Listing(from) ==
  LET source == CopySource(from)
  IN  [p \in {q \in DOMAIN source : IsStrictPrefix(from.vec, q)} |-> source[p]]

\* from.rooted: the name is written with a dot in front, or at its end, which
\* splitScopes drops.  Both leave a name that is searched in the root scope.
StartCopy(from, ifExists) ==
  /\ AtStmt
  /\ from.rooted => RootedCopy
  /\ stack' = Advanced
  /\ LET item == Lookup(tree, fallback, currScope, from, TRUE)
     IN  CASE CopiesFromOwnOrParent(from) ->
                exc' = "config" /\ UNCHANGED copy
           [] ~CopiesFromOwnOrParent(from) /\ item = NoItem ->
                (IF ifExists THEN Terminated ELSE exc' = "config") /\ UNCHANGED copy
           [] ~CopiesFromOwnOrParent(from) /\ item # NoItem /\ item.type # "Scope" ->
                exc' = "config" /\ UNCHANGED copy
           [] OTHER ->
                /\ \A p \in DOMAIN Listing(from) : Fits(NewName(from, p))
                /\ exc' = "none"
                /\ copy' = [from |-> from, names |-> Listing(from),
                            todo |-> DOMAIN Listing(from), last |-> from.vec]
  /\ UNCHANGED <<tree, currScope, fallback, fileNameStack>>

\* The listing is in preorder, the entries of one table in table order: the
\* next name is in the table of the innermost scope on the way to the last
\* one that has a name left.
NextNames ==
  LET candidates == {p \in copy.todo : IsPrefix(Front(p), copy.last)}
  IN  {p \in candidates : \A q \in candidates : Len(q) <= Len(p)}

\* Mutant: the fallback is not searched again.
CopyItemOwn(p) ==
  /\ copy # NoCopy /\ exc = "none"
  /\ p \in NextNames
  /\ LET item    == OwnLookup(tree, currScope, [rooted |-> FALSE, vec |-> p], TRUE)
         newName == NewName(copy.from, p)
         result  == IF item.type = "Scope"
                    THEN EnsureScopeExists(tree, currScope, newName)
                    ELSE Insert(tree, currScope, newName, item)
     IN  IF item = NoItem
         THEN exc' = "foreign" /\ copy' = NoCopy /\ UNCHANGED tree
         ELSE /\ tree' = result.tree
              /\ IF result.ok
                 THEN exc' = "none" /\ copy' = [copy EXCEPT !.todo = @ \ {p}, !.last = p]
                 ELSE exc' = "config" /\ copy' = NoCopy
  /\ UNCHANGED <<currScope, fallback, fileNameStack, stack>>

\* One iteration: the name is looked up again, in the tree as it is by now.
CopyItem(p) ==
  /\ copy # NoCopy /\ exc = "none"
  /\ p \in NextNames
  /\ LET item    == Lookup(tree, fallback, currScope, [rooted |-> FALSE, vec |-> p], TRUE)
         newName == NewName(copy.from, p)
         result  == IF item.type = "Scope"
                    THEN EnsureScopeExists(tree, currScope, newName)
                    ELSE Insert(tree, currScope, newName, item)
     IN  IF item = NoItem
         THEN exc' = "foreign" /\ copy' = NoCopy /\ UNCHANGED tree
         ELSE /\ tree' = result.tree
              /\ IF result.ok
                 THEN exc' = "none" /\ copy' = [copy EXCEPT !.todo = @ \ {p}, !.last = p]
                 ELSE exc' = "config" /\ copy' = NoCopy
  /\ UNCHANGED <<currScope, fallback, fileNameStack, stack>>

EndCopy ==
  /\ copy # NoCopy /\ exc = "none" /\ copy.todo = {}
  /\ copy' = NoCopy
  /\ Terminated
  /\ UNCHANGED <<tree, currScope, fallback, fileNameStack, stack>>

----------------------------------------------------------------------------
(* Files: ConfigurationImpl::parse, ConfigParser's constructor, @include. *)

\* The constructor: the lexer opens the file and reads the first token; only
\* then is the name pushed and the statement list parsed.  @ifExists excuses
\* a file that cannot be opened, not one that starts with a bad token.
OpenFile(f, ifExists, under) ==
  \/ /\ exc' \in (IF ifExists THEN {"none"} ELSE {"config"})
     /\ stack' = under
     /\ UNCHANGED fileNameStack
  \/ /\ exc' \in Error
     /\ stack' = under
     /\ UNCHANGED fileNameStack
  \/ /\ Len(fileNameStack) < MaxFiles
     /\ exc' = "none"
     /\ fileNameStack' = Append(fileNameStack, f)
     /\ stack' = Append(under, [Activation("file", MaxStmts) EXCEPT !.file = f])

Parse(f) ==
  /\ Idle
  /\ OpenFile(f, FALSE, << >>)
  /\ UNCHANGED <<tree, currScope, fallback, copy>>

\* Mutant: only the including file itself is compared.
IsCircularSelf(f, hashed) ==
  ~hashed /\ fileNameStack # << >> /\ Last(fileNameStack) = f

\* checkForCircularIncludes compares the source as it is written; the names
\* on the stack are written without the prefix file#.
IsCircular(f, hashed) == ~hashed /\ \E i \in 1..Len(fileNameStack) : fileNameStack[i] = f

Include(f, hashed, ifExists) ==
  /\ AtStmt
  /\ hashed => f \in HashFile
  /\ IF currScope # Root \/ IsCircular(f, hashed)
     THEN exc' = "config" /\ stack' = Advanced /\ UNCHANGED fileNameStack
     ELSE OpenFile(f, ifExists, Advanced)
  /\ UNCHANGED <<tree, currScope, fallback, copy>>

\* The constructor returns: popIncludedFilename, whose assertion wants its
\* own name on top.
EndFile ==
  /\ InStmtList /\ Top.kind = "file"
  /\ stack' = Below
  /\ IF fileNameStack # << >> /\ Last(fileNameStack) = Top.file
     THEN fileNameStack' = Front(fileNameStack) /\ exc' = "none"
     ELSE exc' = "foreign" /\ UNCHANGED fileNameStack
  /\ UNCHANGED <<tree, currScope, fallback, copy>>

\* Mutant: the handler of the constructor does not pop the name.
UnwindKeepsName ==
  /\ exc # "none" /\ stack # << >>
  /\ stack' = Below
  /\ UNCHANGED <<tree, currScope, fallback, exc, fileNameStack, copy>>

\* Mutant: the handler of the constructor resumes the statement list.
UnwindResumes ==
  /\ exc # "none" /\ stack # << >>
  /\ IF Top.kind = "file" /\ exc = "config"
     THEN exc' = "none" /\ UNCHANGED stack
     ELSE stack' = Below /\ UNCHANGED exc
  /\ UNCHANGED <<tree, currScope, fallback, fileNameStack, copy>>

\* An exception leaves the innermost activation.  Only the constructor has a
\* handler, for ConfigurationException; parseScope does not restore the
\* current scope.
Unwind ==
  /\ exc # "none" /\ stack # << >>
  /\ stack' = Below
  /\ IF Top.kind = "file" /\ exc = "config"
     THEN IF fileNameStack # << >> /\ Last(fileNameStack) = Top.file
          THEN fileNameStack' = Front(fileNameStack) /\ UNCHANGED exc
          ELSE exc' = "foreign" /\ UNCHANGED fileNameStack
     ELSE UNCHANGED <<exc, fileNameStack>>
  /\ UNCHANGED <<tree, currScope, fallback, copy>>

----------------------------------------------------------------------------

Init ==
  /\ ConfigInit
  /\ fileNameStack = << >>
  /\ stack = << >>
  /\ copy = NoCopy

\* Scoped names an identifier can spell, and references.
Ident == UNION {[1..m -> Spelled] : m \in 1..MaxDepth}
Ref(V) == [rooted : BOOLEAN, vec : V]

Statement ==
  \/ AtStmt /\
       \/ \E vec \in Ident, item \in Variable, op \in {"=", "?="} : Assign(vec, item, op)
       \/ \E vec \in Ident, ref \in Ref(Ident), kind \in {"First", "String", "List"},
            op \in {"=", "?="} : AssignFrom(vec, ref, kind, op)
       \/ \E vec \in Ident : OpenScope(vec)
       \/ \E condition \in BOOLEAN : OpenIf(condition)
       \/ \E name \in Spelled : RemoveStmt(name)
       \/ \E from \in Ref(Vec(MaxDepth)), ifExists \in BOOLEAN : StartCopy(from, ifExists)
       \/ \E f \in File, hashed, ifExists \in BOOLEAN : Include(f, hashed, ifExists)
  \/ \E condition \in BOOLEAN : ElseIf(condition)
  \/ Else
  \/ CloseScope \/ CloseClause \/ EndIf \/ EndFile
  \/ copy # NoCopy /\ (EndCopy \/ \E p \in copy.todo : CopyItem(p))
  \/ StmtError
  \/ SearchForever \/ SearchOn
  \/ Unwind

\* Between two parses the program calls the object.
ApiCall == stack = << >> /\ Call /\ UNCHANGED parserVars

Next ==
  \/ Statement
  \/ \E f \in File : Parse(f)
  \/ ApiCall

Spec == Init /\ [][Next]_vars

\* A parse that has begun runs on: the caller's thread is inside it.
FairSpec == Spec /\ WF_vars(Statement)

----------------------------------------------------------------------------
(* Properties. *)

CopyTypeOK ==
  copy # NoCopy =>
    /\ copy.from \in Reference
    /\ IsTree(copy.names)
    /\ \A p \in DOMAIN copy.names : IsStrictPrefix(copy.from.vec, p)
    /\ copy.todo \subseteq DOMAIN copy.names
    /\ copy.last \in Path

TypeOK ==
  /\ ConfigTypeOK
  /\ fileNameStack \in Seq(File)
  /\ stack \in Seq(Frame)
  /\ CopyTypeOK

\* m_currScope and every oldScope saved in an activation of parseScope point
\* to scopes that still exist, whatever was removed in between.
ScopesLive ==
  /\ CurrScopeLives
  /\ \A i \in DOMAIN stack : IsScope(tree, stack[i].at)

\* The scope in force inside the i-th activation.
ScopeIn(i) == IF i = Len(stack) THEN currScope ELSE stack[i + 1].at

\* While no exception is on its way, exactly the activations of parseScope
\* account for the current scope: each goes down from the scope it found, and
\* no other activation changes it.
ScopesNest ==
  exc = "none" =>
    \A i \in DOMAIN stack :
      IF stack[i].kind = "scope"
      THEN IsStrictPrefix(stack[i].at, ScopeIn(i))
      ELSE ScopeIn(i) = stack[i].at

\* A parse that returns normally leaves the current scope as it found it.
ParseRestoresScope ==
  [][stack # << >> /\ stack' = << >> /\ exc' = "none"
       => currScope' = stack[1].at]_vars

\* The files being parsed by the activations of s from the i-th on, inwards.
FilesFrom(s, i) == Cardinality({j \in i..Len(s) : s[j].kind = "file"})

\* The names of the files being parsed are the last ones of names, in the order
\* of the activations.
NamesFit(s, names) ==
  /\ FilesFrom(s, 1) <= Len(names)
  /\ \A i \in DOMAIN s :
       s[i].kind = "file" => names[Len(names) - FilesFrom(s, i) + 1] = s[i].file

\* What fileNameStack holds below them: what exceptions of other types have
\* left behind.
StaleNames == SubSeq(fileNameStack, 1, Len(fileNameStack) - FilesFrom(stack, 1))

\* A constructor always pops the name it pushed, however deep it is in other
\* files; and no statement, return or ConfigurationException leaves a name
\* behind, which would make a later @include of that file "circular".
FileStackMatches ==
  /\ [](exc # "foreign" => NamesFit(stack, fileNameStack))
  /\ [][exc # "foreign" => StaleNames' = StaleNames]_vars

\* No file is parsed while it is already being parsed: what the circular
\* include check is for.
NoRecursiveInclude ==
  \A i, j \in DOMAIN stack :
    stack[i].kind = "file" /\ stack[j].kind = "file" /\ stack[i].file = stack[j].file => i = j

\* The assertions of popIncludedFilename and parseCopyStmt never fail (the
\* only source of other exceptions when Opaque is FALSE).
AssertionsHold == ~Opaque => exc # "foreign"

\* At most one clause of an @if statement is run, and one is once a condition
\* was true.
OneClauseRuns ==
  \A i \in DOMAIN stack :
    stack[i].kind = "if" => stack[i].ran <= 1 /\ (stack[i].taken => stack[i].ran = 1)

\* @include is refused as "inside a scope" only inside a scope.
IncludeWorksAtTopLevel ==
  InStmtList /\ currScope # Root => \E i \in DOMAIN stack : stack[i].kind = "scope"

\* @copyFrom copies what the source held when the statement began: a name
\* that is still to be copied stands for the item it was listed with.
CopyReadsSource ==
  copy # NoCopy =>
    \A p \in copy.todo :
      Lookup(tree, fallback, currScope, [rooted |-> FALSE, vec |-> p], TRUE) = copy.names[p]

\* ... and every name copied so far has arrived under the current scope.
CopyArrives ==
  copy # NoCopy =>
    \A p \in DOMAIN copy.names \ copy.todo :
      LET rest == SubSeq(p, Len(copy.from.vec) + 1, Len(p))
      IN  FindItem(tree, currScope \o rest) = copy.names[p]

\* A copy whose destination and source have an entry in common.
Overlapping ==
  copy # NoCopy /\
    \E p, q \in DOMAIN copy.names : currScope \o NewName(copy.from, p) = q

\* A copy of anything else is exact, at every iteration of the loop.
SeparateCopyIsExact ==
  ~Overlapping =>
    /\ CopyReadsSource
    /\ (copy # NoCopy => ~copy.from.rooted) => CopyArrives

\* A parse comes to its end unless it searches for an empty text, which it does
\* forever (ConfigParser.cpp:1258 and 1293): its files are finite, the loop of
\* @copyFrom runs over the names listed before it, and a file that includes itself is
\* refused, except as file# (HashFile).  And an exception always reaches the caller
\* as an exception, through whatever files, scopes and clauses it leaves.
EveryParseReturns ==
  /\ (stack # << >>) ~> (stack = << >> \/ Endless)
  /\ (stack # << >> /\ exc # "none") ~> (stack = << >> /\ exc # "none")

=============================================================================
