# Formal models of danek

danek (a C++ fork of config4cpp) is a library that parses configuration files
into an object of named, nested entries and offers typed lookups on it, with
validation against a schema. It is sequential: no threads, nothing persisted.
What makes it hard is order. A parse is a deep recursion over files, scopes
and conditionals that works on one mutable tree of tables through raw
pointers, that can fail at every token, and whose object is used again after
the failure. This directory holds TLA+ models of that core, the TLC
configurations that check them and theorems about them checked by TLAPS.

Paths below are relative to `src/src/danek/internal/` unless they say more.

## Inventory

| Component | State | Operations | Correct when |
|---|---|---|---|
| Scope tree: `ConfigScope`, `ConfigItem` | a table of items per scope; items own nested scopes; parent pointers | addOrReplaceString/List, ensureScopeExists, removeItem, findItem, listings | one tree, each entry in a living scope; a variable never becomes a scope by itself |
| Configuration object: `ConfigurationImpl`, `Configuration` | root scope, `m_currScope`, fallback, security configuration, `m_fileNameStack`, uid processor | insert*, ensureScopeExists, remove, empty, lookup*, is*, list*, setFallback/SecurityConfiguration, parse, dump, destroy | a refused call changes nothing; lookup finds the innermost entry; raw pointers stay valid |
| Parser: `ConfigParser` | an activation of a C++ function per file, scope and conditional; token; loop of `@copyFrom` | one function per statement and expression form | scopes nest and are restored; the file stack mirrors the open files; no circular include; `@copyFrom` copies what it listed; every parse returns |
| Lexical analysers: `LexBase`, `ConfigLex`, `SchemaLex`, `LexToken`, `MBChar` | position in the source, current token | nextToken, block skipping for `@if` | identifiers classified once; ends or raises |
| uid identifiers: `UidIdentifierProcessor` | a counter up to nine digits | expand, unexpand | expanded names are unique |
| `patternMatch` | none | match of a name against a pattern with `*` | agrees with the usual definition |
| Schema parser and validator | rule tables, sorted; ignore rules; type registry | parseSchema, validate | every entry checked, ignored or refused by exactly one rule |
| Schema types | none (arguments of rules) | checkRule, validate per type | a rule accepted by checkRule never fails validate for its own shape |
| Fallback and security configuration | owned or borrowed pointers, a singleton default | setters, destroy, isExecAllowed | nothing dangles; deny wins over allow |
| Value conversions | none | lookupInt, lookupFloat, durations, memory sizes, units | accepted texts give the number they spell |
| Printing: dump, `ToString` | a buffer | dump, escape | what is printed parses to the same tree |
| Containers, platform | — | wrappers of `std::string`, files, `popen` | — |
| Tools: config2cpp, config4cpp | — | clients of the library | — |

How they interact. A program calls `Configuration`. `parse` builds a
`ConfigParser`, whose constructor runs the whole parse and, for `@include`,
builds another `ConfigParser` on the same object. The parser reads tokens from
the lexer and changes the object through the calls a program also has
(insertString, insertList, ensureScopeExists, lookup) and three that only it
uses: setCurrScope, pushIncludedFilename, popIncludedFilename. The scope tree
is shared: the parser keeps raw `ConfigScope*` in its activations while its
own statements remove and insert entries. A lookup that fails goes on in the
root of the fallback configuration. The validator and the tools only read.

Hard behaviours: exceptions at any token with only one kind handled and only
at the file level; a removal under a saved scope pointer; a listing taken
before a loop that changes what was listed; two spellings of one name or file;
state left in the object by a failed parse. `PROJECT.json` lists them with
their lines and the properties that guard them.

## Modules

| Module | Models |
|---|---|
| `ConfigTree` | the tree of tables as a function from paths to items, and the tree operations of `ConfigScope.cpp` and `ConfigurationImpl.cpp` as operators |
| `Configuration` | the calls a program makes on an object: insert, ensure scope, remove, empty, fallback; lookup |
| `ConfigParser` | statements, blocks, files and exceptions of the parser at work on that object; EXTENDS `Configuration` |
| `VariableStore` | abstract: what a program that reads variables only may rely on |
| `Texts` | texts as sequences of characters; strstr, join |
| `TextFunctions` | split, replace, fileToDir, on sequences of characters |
| `Permission` | patternMatch, and isExecAllowed, which rests on it; EXTENDS `TextFunctions` |
| `Statements` | the statements that take no expression: clauses that are skipped, sources to execute; EXTENDS `Permission` |
| `Expressions` | the expressions and conditions of the language, from tokens to values; EXTENDS `Statements` |
| `UidNames` | expand and unexpand of uid- names, the counter; EXTENDS `TextFunctions` |
| `Lexer` | nextToken, one character per step, on sources of bytes, some of which are no letters; EXTENDS `UidNames` |
| `Dump` | a scope, or one entry of it, printed as a file, to be read again; EXTENDS `Lexer` |
| `ConfigurationOwners` | fallback and security configurations: who points to whom and who destroys whom |
| `SchemaValidator` | the rules and types that parseSchema builds, and the verdict of validate on a tree; EXTENDS `ConfigTree` |
| `Conversions` | is..., stringTo... and lookup... of numbers, enumerations and values with units |
| `Durations` | durations and memory sizes, with the width of int and the precision of float; EXTENDS `Conversions` |
| `SchemaTypes` | checkRule, validate and isA of the twenty types and of typedefs, and the look-up of what was accepted; EXTENDS `Durations` |
| `MC...` | constants of the runs: trees, sources, statements, rules, entries |
| `ConfigTreeTheorems` | lemmas about the tree operators: shape, names, paths, what a search from the root scope finds, what a copy changes |
| `TextTheorems` | theorems about the functions of texts: find, join, split, replace |
| `ConfigParserProofs`, `SchemaValidatorProofs`, `ConfigurationOwnersProofs`, `SchemaTypesProofs`, `LexerProofs`, `StatementsProofs` | theorems about the specifications and operators |

How they fit together. `Lexer` ends where tokens begin, `Expressions` begins
with tokens and ends with the value of an assignment, `ConfigParser` begins with
the outcome of an expression and ends with the tree. `SchemaValidator` takes a
type with its arguments for a set of items; `SchemaTypes` says which set.
`ConfigurationOwners` sees of an object only its pointers and whether it has
the lists a security configuration needs.

### Parser and tree

**State.** `tree` is everything below `m_rootScope`: the path of an entry is
what `scopedName()` spells, the item is a string, a list or a scope.
`currScope` is the path of `m_currScope`, `fallback` the tree of
`m_fallbackCfg`. `exc` is the exception in flight: `"config"` for
`ConfigurationException`, `"foreign"` for any other. `fileNameStack` is
`m_fileNameStack`. `stack` is the C++ call stack reduced to the activations
that matter: `file` (the constructor), `scope` (parseScope), `if` and `clause`
(parseIfStmt), and `search` (parseReplace or parseSplit, once it has come into
a loop that it cannot leave). Each keeps in `at` the scope it found on entry, which for
parseScope is its local `oldScope`. `copy` is the loop of parseCopyStmt. Three
fields are history and no action depends on them: `ran`, the `at` of the
activations other than parseScope, and the items in `copy.names`.

**Actions.** One per statement of the language, containing everything the
function does: `Assign` and `AssignFrom` (parseStmt, parseRhsAssignStmt),
`OpenScope`/`CloseScope` (parseScope), `OpenIf`, `ElseIf`, `Else`,
`CloseClause`, `EndIf` (parseIfStmt), `RemoveStmt`, `StartCopy`, `CopyItem`
(one iteration), `EndCopy`, `Include`, `Parse`, `EndFile`, `StmtError`,
`SearchForever` and `SearchOn` (replace() and split() with an empty text to search
for, and one more round of their loop) and `Unwind`. A file's contents are not fixed in advance: each step is "the parser
meets such a statement", so that the model covers every file within the bounds.
A statement that did its work may still fail at its terminator (`Terminated`),
and then its work stays. `Unwind` takes an exception out of one activation;
only the constructor handles one, and only `ConfigurationException`. The
program's calls happen between parses (`ApiCall`).

### Expressions

The parse functions change nothing but the token they stand at, so each is an
operator from the tokens and a position to the value and the position behind
it, or to how the function was left without one: a ConfigurationException, a
loop without end. A step is one statement: `Assign` (parseRhsAssignStmt),
`If` (the condition of parseIfStmt), `SkipClause` (skipToClosingBrace),
`ParseExecSource` (parse of `exec#...`). The latter two are in `Statements`, which
leaves open what an assignment or a condition does (`Evaluate`); `Expressions` has `Assign` and
`If` in its place, as RECURSIVE operators like the functions of the code. `out` is the outcome, `entries` the
variables, which an assignment changes before its `;` is asked for. The
reference is the grammar in the comments of the code, as the set of values a
sequence of tokens can mean (`RhsMeans`, `CondMeans`): it cuts the sequence
anywhere, where the code reads it from left to right. Patterns have the
definition by cutting the text into one piece per character of the pattern,
permission the one in terms of sets of patterns.

### Lexer, names and print

`ch` is `m_ch`, the character read ahead, `pos` the place behind it, `mode`
where in nextToken, consumeString or consumeBlockString the lexer is, `word` the
spelling so far, `begun` the line noted when the token began (and its position,
history). `count` is the counter of the UidIdentifierProcessor. A step looks at
`ch` and reads the next one; letters of two bytes are handed out byte by byte, as
mbrtowc answers -2 for the first; a byte that it refuses ends in an exception
(`Refuses`). nextByte compares an int with EOF; a byte of a string or of the output of
a command is a char that becomes that int, so 0xFF is EOF if char has a sign
(`SignedChar`; get() gives a byte of a file as 0 to 255). `IsEnd` says which byte
of which source is taken for its end, and `EndPlace` where the source ends for the
lexer. m_ptr has passed such a byte, so another nextChar would read on behind it: that
every loop stops at m_atEOF is a conjunct of `OnlyCharactersAreRead`. A source has no NUL inside,
as C strings and text files have none.
Sources are of three kinds: any short sequence of bytes; tokens written one
after the other with separators, which must come back; and printed scopes
and entries, whose tokens must spell what was printed (`DumpReadsBack`).

### Objects

`obj` has the fields of the objects that exist, `held` are those the program
must destroy, `forgotten` (history) those nobody will. Actions are the calls:
`Create`, `Destroy`, `Parse`, `Empty`, `SetFallback`, `ParseFallback`,
`SetSecurity`, `SetSecurityFails`, `ParseSecurity`, `ParseFails`, `ExecFails`.
Memory that was given back is given out again, so that a pointer that was
left behind leads to another object.

### Schema

`idRules`, `ignoreRules` and `types` are the
validator's three arrays up to their current sizes; `phase` says what became of
the last parseSchema, and `given` is history: the rules read so far.
parseSchema is one step per item of the schema, since it may fail at any of
them: `ParseIdRule`, `ParseIgnoreRule`, `ParseTypedef`, their failures (a rule
that failed stays in the table, with as much of it as had been set), and
`EndParse`, which sorts and then compares neighbours. `RegisterType` is what a
subclass of the validator does between parses. `validate` changes
nothing, so it is an operator, `Verdicts`, built from one operator per function
of the code: findIdRule, shouldIgnore, validateForceMode,
validateRequiredUidEntry. The reference definition, `Conforms`, is written
from what rules mean, over `given`: which entries a rule is about
(`Instances`), what an ignore rule exempts (`Exempt`), what is demanded
(`Demanded`, `Present`).

In `SchemaTypes` one rule and one entry are followed: `Typedef`, `TakeRule`
(checkRule), `SetEntry`, `Validate`, then `LookUp` or `LookUpOr` by the program.
A text is what sscanf and `>>` see of it: a word, a number, a number and a unit,
a unit and a number, and whether anything stands behind. A number counts halves
and multiples of 2^32. The number of a duration is a float: `Float` rounds to 24
bits, `Cast` is the cast to int, and when the product is out of range, which C++
leaves undefined, it is `outOfRange`, chosen once per behaviour.

**What is abstracted.**

- In `ConfigParser` expressions are reduced to their outcome: a constant
  (`Assign`), the value of a variable (`AssignFrom`, with the kinds
  parseStringExpr and parseListExpr accept), an exception (`StmtError`), or none
  ever (`SearchForever`); a condition is TRUE or FALSE. `Expressions` has them in full.
  That a loop without end runs out of memory at last, as its result grows, is left out.
- The order of a table is left out. Only `@copyFrom` observes it, and `CopyItem`
  allows every order of one table's entries within the preorder that
  listScopedNamesHelper walks.
- In `Configuration` a fallback is one level deep: its tree, without a fallback
  of its own. The parser cannot change it. In `ConfigurationOwners` chains
  have any length; rings, on which lookup would not end, the program does not make.
- In the tree, names are those that expansion of `uid-` has returned.
- A source `exec#...` is a source like a file in `ConfigParser`; `File`
  contains both. Whether it may be executed is in `Statements`.
- A name written with a dot at its end has an empty last part, which
  splitScopes drops: `from.rooted` covers it together with a leading dot. The
  empty name can be an entry only by way of such a copy; it is in `Name` and
  not in `Spelled`.
- In `SchemaValidator` a type stands for its name with its arguments and accepts
  a set of items; the tree has no fallback and is not being parsed. `Plain` says what each name unexpands
  to. `strstr(name, "uid-")` is membership in `UidName \cup SoundsUid`,
  `strncmp` at the beginning is membership in `UidName`. bsearch in a table that
  is not sorted may find the rule or miss it. Entries are visited in
  alphabetical order; which of several bad entries raises its exception first
  is left open.
- The file system, the environment and commands are constants of `Expressions`
  (`Files`, `Env`, `Installed`); a permitted command succeeds.
- `ConfigurationOwners` knows the three lists of a security configuration
  together: all there, or not. `Parse` of an object shows the outcome of a
  ConfigurationException; another one changes the same.
- In `Lexer` the number system has base 2 and width 2 in the run, so that the
  counter reaches its limit; both are constants of the model.

## Runs

| Run | Question | States |
|---|---|---|
| `configuration` | any sequence of calls: does a refused call leave no trace, is the innermost entry found | 6 724 |
| `parser_core` | any file of scopes, conditionals, assignments, removals and copies, mixed with calls: do saved scopes live and nest, is the scope restored, do the variables behave as a `VariableStore` | 44 704 |
| `parser_copy` | `@copyFrom` on every small tree, with and without a fallback: without overlap, does all that was listed arrive as it was | 28 662 |
| `parser_include` | two files that include each other and fail anywhere, with exceptions of both kinds: no recursion, the file stack that of the open files, one clause at most, every exception reaches the caller, and every parse returns that does not search for an empty text | 108 508 |
| `expressions` | every short sequence of tokens, and calls of every function with arguments of every kind, in several states of the configuration: is the value what the grammar says, and is everything else refused; texts, patterns and commands | 87 266 |
| `lexer` | any bytes, written tokens, printed scopes: does the lexer end, count lines, number uid- names in order, refuse what is no letter up to where it sees the end, and read back what was written | 223 987 |
| `ownership` | three objects, each other's fallback and security configuration: is one destroyed twice, dangling or forgotten, does a failure change anything | 337 714 |
| `schema` | any sequence of parses of schemas, failing or not: are the tables the last schema, does a type keep its meaning, does validate accept exactly what conforms | 14 294 |
| `schema_types` | every type with several arguments and typedefs, on many texts: does an assertion fail, can be looked up what was accepted, are ranges an order, does a default come back | 80 150 |
| `include_after_failure`, `schema_microseconds`, `exec_output` | see Findings | |

**Bounds, and why they are enough.** `MaxDepth` bounds the names in a path.
Two names allow a block `a.b { }` that enters two scopes at once, a shadowed
entry and a blocked scope chain; the copy runs have three, so that an entry can
lie below a scope below the source. Two names `a`, `b` give siblings. One value
is enough in `parser_core`, where kinds tell entries apart; where the properties
compare values there are two. `MaxStmts` bounds statements per block and,
since a nested block has fewer left, the depth of blocks. `MaxFiles = 3`
suffices for a file including itself through another one. `MaxStmts = 3` in
`parser_include` allows an `@if`, `@elseif` and `@else` chain inside a file, and
`MaxDepth = 2` a copy, its loop included, that such a file begins.
These bounds guard actions that grow a path or a stack and nothing else.

In `schema`, `MaxRules = 2`: two rules are what it takes to be out of order,
to be duplicates, to have a rule under an ignored scope, or to leave something
to the next parse, and typedefs are not counted. The four rule names are in an
order other than that in which they can be given. The trees are all rooted ones
over `a`, `a.a` with two kinds of strings, and all over six paths with two
expansions `u1`, `u2` of one uid name; validate is asked for the root and for
the scope `a`, for all entries or only those of some types or directly in the
scope. A subclass may register the name that a typedef of the schema would take.

In `schema_types` every type has rules without arguments, with a range that is
in order, one that is not, one that touches `infinite` or a negative number, and
with the wrong number of arguments; typedefs are named by two names, so that
one can be defined by the other. Texts include numbers with halves, beyond
2^31 and 2^32, not-a-number, and text behind the number.

In `expressions` tokens are combined without regard to grammar up to four
pieces, and with it up to nested calls; conditions up to five pieces; texts are
all over two letters up to length three, where a delimiter can overlap itself.
`Kept` bounds what a variable may hold when a second statement comes. In
`lexer` sources of nine bytes and of seven other signs are complete up to
lengths three and four, and so are those of bytes that are, begin, continue or
break a letter, with line ends and comments among them, and, as a file and as a string,
those with a byte 0xFF among what begins a string, a block string, a comment or a letter; token sequences have up to three tokens, which is one
uid- name more than an early reset of the counter needs to show.
In `ownership` three objects are an owner, what it owns and what replaces it.

`parser_core` uses the symmetry of the two names: no definition tells them
apart (`Chop` is the identity there), and all its temporal properties are of
the form `[][A]_v` or a safety specification. `ownership` uses that of the
objects, of which no definition names one. `parser_include` and `lexer`, which
check liveness, use none.

The copy runs start from every rooted tree over five paths (`FilledSpec`) with
one parse of scopes and copies: contents an earlier assignment could have made
are initial. One parse in that specification may come to its end, so deadlock
is not checked there. Neither is it in `expressions`, where replace() and
split() with an empty search string do not come back, nor in `lexer`, which
stops at the end of its source.

**Fairness.** `FairSpec` adds weak fairness of `Statement`: while a parse is
under way the caller's thread is inside the parser and nothing else runs, so
some step of it happens. Which one is free: the bound `MaxStmts` stands for a
file being finite. `EveryParseReturns` therefore rests on what the code bounds, and
on that alone: files are finite, the loop of `@copyFrom` runs over the names
listed before it, a file that is open is not opened again (`HashFile` is
empty in the run). What the code does not bound is excepted in the property by name: a search for an
empty text (`Endless`), in which the parse goes round forever, as the code does. Its second conjunct says that
no exception is lost on its way to the caller. No fairness is asked of the program, which need not parse
or call again. The lexer has weak fairness of its steps for the same reason:
the parser asks for tokens until the end of the source or an exception.

**Abstract specification.** `VariableStore` sees only the variables: a step sets
one variable, whose name neither extends nor is extended by another's, or
discards all below one name. `ImplementsStore` checks that every statement, copy
iteration and call is such a step or changes no variable. Creating a scope is a
stutter; removing a scope, or `empty`, is a discard.

## Findings

All are disagreements of the code with its own comments, messages or
assertions. Three have a run whose counterexample is the sequence of steps:

1. `include_after_failure`: parseScope restores the current scope only when
   its list returns (`ConfigParser.cpp`, line 830). After a parse that failed
   inside a scope the object stays in that scope; the next file's top-level
   `@include` is refused as "inside a scope" and its assignments go to the old
   scope.
2. `schema_microseconds`: the table of units for microseconds has eight entries
   and the list of allowed ones six (`ConfigurationImpl.cpp`, line 1730 asserts
   that they agree). A value in one of the six, such as `1 second`, is accepted by
   stringToFloatWithUnits and then fails the assertion. A value in microseconds, which
   checkRule's message offers, does not get there: its unit is not on the list, so it is
   refused with a ConfigurationException (lines 1721 to 1728). Only `infinite` is a duration in microseconds.
3. `exec_output`: parseExec (`ConfigParser.cpp`, line 1349) raises the exception
   for a failed command when the command succeeded and there is no default,
   and returns the default when there is one; the output is never used.

Six more have a configuration here that shows them with
`tlc -config <cfg> <module>`; they are kept out of the list of runs:

| cfg, module | Property | What it shows |
|---|---|---|
| `MCIncludeHash`, `MCConfigParser` | `NoRecursiveInclude` | the circular include check compares `file#x` with names kept without `file#` (line 341), so a file may include itself |
| `MCCopyRootedNames`, `MCConfigParser` | `CopyArrives` | the new name of a copy is cut by the length of the source as written (line 735), one character too many with a leading dot |
| `MCSchemaSoundsUid`, `MCSchemaValidator` | `DemandsAreEnforced` | `strstr` at line 407 of `../SchemaValidator.cpp` takes any name with `uid-` in it, such as `fluid-level`, for a uid- entry, and `@required` has no effect on it |
| `MCSchemaLocalName`, `MCSchemaValidator` | `ExemptIsIgnored` | shouldIgnore asks for the type relative to `scope`, not to `scope` and `localName` (lines 324, 502): with a local name, ignored items are refused |
| `MCSchemaAfterFailure`, `MCSchemaValidator` | `RulesHaveTypes` | a rule stays in the table when its parsing fails (line 81 of `SchemaParser.cpp`); a later validate fails the assertion that its type is registered |
| `MCLexerEndByte`, `MCLexer` | `WholeSourceIsRead` | a byte 0xFF of a string or of the output of a command is taken for the end (lines 199, 210 of `LexBase.cpp`) where char has a sign; what stands behind it is dropped, without an exception |

The models contain these as they are, and the properties that hold say what
they exclude. So they do with the following, met while modelling:

- Only `ConfigurationException` pops the file name (line 184 of
  `ConfigParser.cpp`). Others (an assertion, the uid counter's
  `std::domain_error`, `std::system_error` of a command) leave it on the stack;
  `FileStackMatches` says that nothing else does.
- The parent scope check of `@copyFrom` (line 696) compares spellings; a
  leading dot passes it. Names are listed once and looked up one by one (line
  736): a copy into its own source reads what it has itself overwritten.
- The names of `@copyFrom`, `@remove` and expressions go through the lexer, which
  gives a `uid-` name a new number: such a reference finds nothing.
- `&&` and `||` evaluate both operands; an operand that fails fails the condition.
- A variable that only the fallback has cannot be the first operand of an
  expression, since parseRhsAssignStmt asks for its type in the object itself.
- replace() and split() with an empty search string never return
  (lines 1258, 1293): `SearchForever`, and `Hangs` in `Expressions`. `EveryParseReturns` excepts it
  and nothing else.
- Without a security configuration nothing may be executed; a deny pattern wins
  over an allow pattern. The lists are looked up again at each command, with
  an exception if they are gone (`OwnedSecurityAnswers` says when they cannot be).
- setSecurityConfiguration(cfg, ...) drops a configuration that is owned without
  destroying it (line 119); the overloads that parse destroy it. A parse
  that fails with another exception leaves the new object behind.
- A default given to lookupMemorySizeBytes is printed as `... milliseconds`
  (line 1944) and then refused when the entry is missing. Defaults beyond 2^24
  are rounded, since they go through a float.
- Look-ups of a value with units with a default call themselves without end when
  the entry exists (lines 1144, 1196, 1314, 1420).
- `%d` accepts numbers modulo 2^32; `nan` is within every range of a float;
  `-1 seconds` is read as `infinite`; a memory size with `max` -1 accepts nothing;
  text behind a unit is ignored.
- list[enum] and lists of values with units pass checkRule, but validate gives
  the elements no arguments (line 101 of `SchemaTypeList.cpp`), so none is
  accepted.
- `\r` is dropped wherever it stands, so a string with it does not read back. `x?=1`
  is the identifier `x?`, an `=` and a 1. A block string that begins with a line end carries
  the number of the next line (line 571 of `LexBase.cpp`).
- A letter that the end of the source cuts passes (line 228 of `LexBase.cpp` looks for
  bytes gathered in `m_ch`, but mbrtowc has answered -2 and `m_ch` was emptied).
- validateRequiredUidEntry lists scopes by a pattern with the expanded name of
  the validated scope, which is compared with unexpanded names
  (`../SchemaValidator.cpp`, line 450): in a scope `uid-1-x` it finds none.

`ValidatesAsDefined` is the agreement of validate with the definition where no
name sounds like uid-, the validated scope is plain and given without a local
name, and the last parseSchema succeeded. `RangeIsOrder` is about texts without a
minus sign, `AbsentGivesDefault` about defaults up to 2^24 and not about bytes
and microseconds, `SeparateCopyIsExact` about copies without overlap,
`ParseRestoresScope` about parses that return normally, `EveryParseReturns` about
those that do not search for an empty text, `DelimitersAreFound` about texts to search for that
are not empty, `OnlyCharactersAreRead` about what stands before the end that the lexer sees,
`NoRecursiveInclude` about sources not written `file#x`. `AssignsAsWritten` has
all variables in one scope, so that `?=` finding one of an outer scope is not in its reach
(`Assign` of `ConfigParser` does it, with lookup).

## Proofs

Theorems hold for every set of names, values, files and objects, every bound and
every number of steps. They assume the named assumptions of the modules: `None`
is no value, the names a file can spell are names, the fallbacks a program sets
are rooted trees, the switches are Booleans, no object has the address 0 or that
of the default.

`ConfigTreeTheorems` has the lemmas: what a chain of scopes contains, that
`EnsureScopeExists`, `Insert` and `RemoveItem` map rooted trees to rooted
trees, keep the kind of every name that remains, touch only what is strictly
below the scope they work in, and that a refused one returns the tree it got.

`ConfigParserProofs`, on the specification of `Configuration`:

- `CallInvHolds`: the tree is rooted, its scopes live and the current scope is
  the root, after any sequence of calls.
- `RefusalsChangeNothing`. EnsureScopeExists keeps what it made before it met
  a variable, so this is not obvious; it holds since in a rooted tree nothing is
  missing above a variable, so nothing had been made.
- `InnermostWins`: lookup finds the entry of the innermost scope that has it.
  The maximum over enclosing scopes is treated with the well-founded order
  of the natural numbers.

On that of `ConfigParser`, it rests on one inductive invariant, `IndInv`: types; the tree
rooted; the current scope and all `at` of the stack alive; and the stack
fitting together: each activation's `at` is a prefix of the `at` of those
inside it and of the current scope. Liveness of saved pointers is not inductive
alone: a removal below the current scope spares the saved scopes only because
these are prefixes of it.

- `TypesHold`, `TreeStaysRooted`, `ScopesStayAlive` (the raw pointers
  `m_currScope` and `oldScope` never dangle), `KindsAreKept` (no step turns
  a variable into a scope or back), `ChangesStayBelow` (a step changes entries
  only strictly below the current scope, or empties everything).

Each action has a lemma for the invariant, and `TreeChange` sums up what any
of them may do to the tree.

`ConfigParserProofs` also says of each tree operation what a reader of the variables can
see of it: that it keeps all and may add scopes (`Keeps`), that it also sets one
variable (`Sets`), that it discards what lies below one name, or everything
(`StoreChange`). Each of these is a step of `VariableStore` or a stutter.
With it the refinement holds in full:

- `CallsKeepAStore`, for the calls of a program, and `ParsesKeepAStore`, for
  every statement, iteration and unwinding of every parse. Initial contents
  map to initial contents since in a rooted tree nothing is below a variable.

The second half of `ConfigParserProofs` is about the activations. On top of `IndInv` its invariant
`StackInv` has, for every depth of nesting: the scope in force inside each
activation is the one it found, or strictly below it if it is a parseScope, as
long as no exception is on its way (`NestFits`); the last names on
the file stack are those of the open files, in their order, unless a foreign
exception has passed (`NamesFit`); a clause has run exactly if a condition was true
or it is that of an `@else` (`IfsFit`); what an `@copyFrom` has yet to copy are
entries of the tree or the fallback (`CopyRuns`); and, if no source is
`file#x`, the open files differ. A name belongs to an activation by the number of file
activations inside it, so pushes and pops are followed by counting
(cardinalities of sets of positions); that a return pops the name of its own file
needs all of `NamesFit`, and that an included file differs from the open
ones needs it too, since the code compares with the names, not with the activations.

- `ScopesAlwaysNest`, `ParsesRestoreScope`, `OneClauseAlwaysRuns`,
  `FileStackAlwaysMatches`, and `AssertionsAlwaysHold`: an entry that a copy has
  listed is still there when its turn comes.
- `NoFileIncludesItself`, on the condition that no source is written
  `file#x`; the run shows it under the same condition, and
  `MCIncludeHash.cfg` what happens without it.
- `SeparateCopiesAreExact`: the loop of parseCopyStmt looks each listed name up
  again, in a tree it has changed meanwhile, and in the fallback if the tree does
  not have it. The invariant `CopyFits` says that every name listed stands for what
  it was listed with, not only those still to come, that every scope between the source and a
  listed name is listed, and that each copy made so far holds what its name
  stood for. Closure is what makes it inductive: an iteration may
  also create the scopes on the way to its entry, and those are the names of copies of
  listed scopes (`NewNameOfScope`), so an entry of the fallback cannot be hidden by one
  unless the copy overlaps. When the copy starts, an entry of the
  fallback stands for itself since nothing in a rooted tree is below a scope it does
  not have; and later copies do not replace earlier ones since names differ if
  their sources do (`NewNamesDiffer`; with a dot in front `Chop` may make them equal).

`SchemaValidatorProofs` rests on `TablesInv`: types; the tables hold exactly
the rules given, as long as the parse goes well; after it, the table is sorted
and no neighbours have one name.

- `SchemasAreKept` and `SearchesAreExact`: the tables of a parsed schema hold
  each rule once, and a search returns it. `NeighboursSuffice` is the
  argument why comparing neighbours finds all duplicates: the order
  tells all names apart.
- `MeaningsAreKept`: no typedef and no registration changes a type, in any
  sequence of parses.

Its second half shows, on `TablesInv`, that validate does what the schema says:

- `ValidatesExactly`: for every schema, tree, type mask and force mode, where no
  name sounds like uid- and scopes are plain and without a local name
  (`PlainCalls`; what happens otherwise is among the findings). The argument:
  below a plain scope, unexpanding an entry's path is unexpanding the rest
  (`UnexpandBelow`), and a rule's name comes before the unexpanded rest exactly
  if some scope on the way is an instance of it (`UnexpandedFront`,
  `ScopeOnTheWay`), so a rule ignores what it exempts (`IgnoredIsExempt`);
  the search finds the one rule of the name, so an entry is accepted exactly
  if it conforms (`EntryIsJudged`); and what is demanded is looked for where
  it has to be (`DemandIsChecked`).

`ConfigurationOwnersProofs`, for any number of objects. The properties are
inductive only together (`IInv`): that no object is destroyed twice needs that
pointers lead to objects, and that what is forgotten has no owner; that no
pointer dangles needs that an owned object has one owner and is not the
program's, so that destroying it, or replacing it, leaves no other pointer.

- `OwnersTypes`, `NoneTwice`, `NoneDangling`, `NoneForgotten`,
  `ConfigExceptionChangesNothing`.
- `OwnedSecurityIsLookedUp`: an owned security configuration whose fallbacks are
  owned answers what it is asked. The setter looked the lists up; what remains
  to show is that nobody can take them away. A chain of fallbacks is the least set
  closed under fallback (`ChainFacts`), so it is treated without induction along it.
  In a step, what nobody holds stays as it is, a new object goes to the program
  or to an owner the program holds, and a security configuration is old or was
  just looked up (`StepKeepsAnswers`, action by action); with the invariant,
  an owned object is reached by its owner only, so its chain is the old one and
  holds what it held (`AnswersKept`).

`SchemaTypesProofs` is about single values, and its texts, lists, bounds and chains of
typedefs are of any size. The invariant `IInv` has: every type is registered or made by
@typedef of an older one with arguments that it accepts (`TypesOK`); every name has
exactly one meaning, a registered type with such arguments (`MeaningsOK`); the rule
taken is accepted by its type, the entry is made of texts, and the verdict and the answer are
those of rule and entry as they are (`RuleOK` to `AnswerOK`). The last is what makes the
properties follow from single states; it is inductive because a @typedef changes no
verdict given before it (`ValidateStays`), and that needs the meanings. The meaning of a
name is a recursive function on the types; it is shown to be the only function that
satisfies its equation by adding names one at a time, as the program does
(`MeaningOfNewName`), so no induction over chains is needed.

- `NoAssertionFails`: what `checkRule` accepted, `isA` and the look-ups may assert.
  The tables of units in messages and in conversions agree (`MillisecondTables`,
  `SecondTables`), so a text with units in the one has a factor in the other.
- `AcceptedEntriesAreFound`: `isX`, the range check and `lookupX` read a text in
  three places and agree on it.
- `RangesAreOrders`: -1 stands for infinite, and a range check is still an
  order, since without a minus sign no number, rounded to a float and truncated, is -1
  (`CastIsNatural`). It assumes that a float out of range is not cast to -1
  (`Infinite \notin OutOfRange`); casting one is undefined, x86 gives the smallest
  int and ARM the largest.
- `TablesAreTuples`: counting columns through a list with a remainder is checking
  rows (`RowsAreElements`); quotient and remainder are all the arithmetic it takes.
- `NamesMeanTheirBases`, `MissingEntriesGiveDefaults`.

`LexerProofs`, for sources of any bytes and any length:

- `LinesAlwaysRight`: `m_lineNum` belongs to the character read ahead, so the line of a
  token must be noted before the next one is read. The invariant `LinesInv` says that
  the lexer has counted the line ends before the position it reads next
  (`ReadsAhead`; it counts on until it sees the end, which is where the end-of-source token
  has its line from, `LineAtEnd`), and that what it noted is the line where the token began, which is the one
  counted since no token begins with a line end (`HereIs`); for a block
  string it is the line behind the second character, through any number of carriage
  returns (`Noted`). That counting byte by byte is counting is `LineToNext`. The
  only assumption is about the notation: no byte is written as the empty string, with which the model
  denotes that m_ch holds none. A byte that the code takes for the end is in the model.
- `UidNamesAlwaysKeepOrder`: `m_count` only says how many numbers are taken; that the
  names are in order is a fact about digits, dots and all tokens returned so far. The argument
  goes from the inside out. Of two numbers below `Limit`, the digits filled
  with zeros differ first where the smaller number has the smaller digit (`FirstDigit`,
  `NumbersPrecede`); without the zeros this is false. formatExpanded takes a number if there is
  one and else throws (`FormatIs`); a part without uid- takes none (`OneIs`). splitScopes leaves
  no dot in a part (`PartsAre`, from `SplitCuts`), so a name with uid- begins where a part
  begins and nowhere else, and the parts joined again have their numbers in order (`OrderOfJoin`).
  expand therefore returns a name with the numbers from the old count to before the new one, or
  has taken the numbers of the parts before the one that fails (`ExpandIs`). The
  invariant `OrderInv` says of the tokens that their numbers lie below the count, in order, and of
  an identifier being read that it is written with bytes of the source; steps that return no
  identifier do not disturb it (`NoName`). The assumption is `NumbersHaveDigits`: a base from two
  to ten and at least one digit.
- `OnlyCharactersAreEverRead`: the second half of `ReadsBack`. Up to where the lexer sees the end,
  which is the end of the source or, in a string or the output of a command, may be a byte
  0xFF (`EndPlaceIs`), only characters are read; and nothing behind it is, although nextByte
  has stepped over that byte and would go on. That the lexer stands
  at the end does not say what it has passed. The invariant `CharsInv` says that each byte
  before the position it reads next fits to the ones before it, and that the character
  ahead stands before the end and ends with the last of these bytes that is no carriage return.
  nextChar fails, sees the end, or adds one or two bytes that fit (`NextCharIs`, `NextFits`, `ReadFits`, `FitAhead`).
  Each step moves on by nextChar alone, or not at all, and it does only while it is not at the end
  (`StepReads`, `AtEnd`, action by action: each loop has a test of its own), so the end, once seen,
  stays (`EndStays`). At the end no byte before it is left behind that position but carriage
  returns (`CharsOfSource`).

`TextTheorems`, for texts of any length. The loops are recursive functions of the place
where they look on; each is shown to be well defined, by the well-founded order of what is
left of the text, before its result is reasoned about, and the arguments are by the last place
for which a claim might fail.

- `SplitCuts`: split() cuts at every delimiter, from left to right: the text is the words with
  the delimiter between them, and no word reaches into the next delimiter. Where a
  delimiter can overlap itself that is more than that words are free of it.
- `ReplacesAsSplitAndJoin`: replace() looks on behind what it has put in, so it is a split() at
  the text searched for and a join() with the replacement.

`StatementsProofs`:

- `MatchingIsExact`: patternMatchInternal tries a star only with the rests of the text
  that are not empty, skips stars in a row, and is done at once behind a last star.
  The definition of the comment knows none of this: it cuts the text into pieces.
  `RowFits` shows that the two agree on what stands behind a position of the pattern if they
  agree behind all later ones, and the last position where they did not would be one where they
  do. That the calls for one position are a function of those for later ones
  (`RowDepends`) is what makes the recursion well defined (`RowsExist`).
- `ExecIsPermitted`: so permission is decided by the lists and not by their order, and the
  first word is what split() at blanks gives. `SourcesAlwaysPermitted`: a source is executed
  exactly if it is permitted, in any sequence of statements.
- `SkippingIsExact`: the count of skipToClosingBrace is one more than the braces opened less those
  closed so far (`BalanceIs`), so it ends behind the first brace that closes more than was
  opened, for clauses of any depth; `ClausesAreSkipped` says so of the specification. A clause has no
  token of the type of the end of the source, which is behind it: that is the only assumption.

**Only model-checked**: liveness (`EveryParseReturns`, and `Finishes` of the lexer), which is out of
the prover's reach; of `ReadsBack` that the tokens written are the tokens read, and
`DumpReadsBack`; and of the run `expressions` what
`Expressions` adds to `Statements`. The parse functions call each other, so they are RECURSIVE operators,
of which the prover knows nothing: `AssignsAsWritten`, `ConditionsAsWritten`, and that
the functions are handed the texts that are written (`DelimitersAreFound`, `WildcardsAsInAShell`,
`OnlyPermittedCommands`); that they then do what is defined is proved of the
operators. Of the print and its reading back, a proof would be an induction over the texts
printed; `Dump` is RECURSIVE as well.
No module that is proved about uses a RECURSIVE operator.

## Plan

Done: the scope tree, calls, the parser's statements, expressions, lexer, names,
print, ownership, schema tables, types and conversions. Left, in this order:

1. The composition of `SchemaValidator` with `SchemaTypes`.
2. `ConfigHeap`: scopes with parent pointers and table order, refining
   `ConfigTree`; the filtered listings (listFullyScopedNames with patterns).
3. `ConfigParser` with `Expressions` in place of outcomes, on short files.

## Not modelled

The containers and the platform layer (wrappers and input and output; failures
are outcomes of the parser's actions, answers are constants), the layout of
messages, how digits are read, and the two tools, which have no state of their
own: config2cpp writes a file as C++ text, config4cpp calls one function of the
library per command.
