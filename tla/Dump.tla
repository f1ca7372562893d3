--------------------------------- MODULE Dump ---------------------------------
(***************************************************************************)
(* ToString: a scope printed as a configuration file, and what the lexer   *)
(* makes of the print.  An item is a name, a type and a string, a list of  *)
(* strings or a set of items.                                              *)
(***************************************************************************)
EXTENDS Lexer, TextFunctions

CONSTANT Alphabet   \* the characters of names in the order of strcmp

----------------------------------------------------------------------------
(* ToString. *)

\* Mutant: the escape sign itself is escaped last.
EscapeSignLast(str) ==
  LET tab == Replace(str, <<"TAB">>, <<"%", "t">>)
      nl  == Replace(tab, <<"NL">>, <<"%", "n">>)
  IN  <<"\"">> \o Replace(Replace(nl, <<"\"">>, <<"%", "\"">>), <<"%">>, <<"%", "%">>) \o <<"\"">>

Escape(str) ==
  LET sign == Replace(str, <<"%">>, <<"%", "%">>)
      tab  == Replace(sign, <<"TAB">>, <<"%", "t">>)
      nl   == Replace(tab, <<"NL">>, <<"%", "n">>)
  IN  <<"\"">> \o Replace(nl, <<"\"">>, <<"%", "\"">>) \o <<"\"">>

\* std::sort on the names.
Rank(c) == SelectInSeq(Alphabet, LAMBDA a : a = c)
RECURSIVE Less(_, _)
Less(name1, name2) ==
  /\ name2 # << >>
  /\ \/ name1 = << >>
     \/ name1 # << >> /\ Rank(Head(name1)) < Rank(Head(name2))
     \/ name1 # << >> /\ Head(name1) = Head(name2) /\ Less(Tail(name1), Tail(name2))
Sorted(items) == SetToSortSeq(items, LAMBDA a, b : Less(a.name, b.name))

Indent(level) == [i \in 1..(4 * level) |-> Blank]

\* The scopes come after the variables, each kind sorted by name.
RECURSIVE ScopeToString(_, _, _), ItemToString(_, _, _)
ItemToString(item, expandUid, level) ==
  LET name == IF expandUid THEN item.name ELSE Unexpand(item.name).name
      Words(list) == [i \in DOMAIN list |-> Escape(list[i])]
  IN  Indent(level) \o name \o
      CASE item.type = "String" -> <<Blank, "=", Blank>> \o Escape(item.val) \o <<";", "NL">>
        [] item.type = "List"   ->
             <<Blank, "=", Blank, "[">> \o Join(Words(item.val), <<",", Blank>>) \o <<"]", ";", "NL">>
        [] item.type = "Scope"  ->
             <<Blank, "{", "NL">> \o ScopeToString(item.val, expandUid, level + 1)
               \o Indent(level) \o <<"}", "NL">>
ScopeToString(items, expandUid, level) ==
  LET Printed(some) == FlattenSeq([i \in 1..Cardinality(some) |->
                        ItemToString(Sorted(some)[i], expandUid, level)])
      scopes == {item \in items : item.type = "Scope"}
  IN  Printed(items \ scopes) \o Printed(scopes)

\* dump: the scope itself, or one entry of it, printed under its full name.
RECURSIVE EntryAt(_, _)
EntryAt(items, path) ==
  LET item == CHOOSE i \in items : i.name = Head(path)
  IN  IF Len(path) = 1 THEN item ELSE EntryAt(item.val, Tail(path))
Chosen(items, path) == [EntryAt(items, path) EXCEPT !.name = Join(path, <<".">>)]
DumpEntry(items, path, expandUid) ==
  IF path = << >> THEN ScopeToString(items, expandUid, 0)
  ELSE ItemToString(Chosen(items, path), expandUid, 0)

----------------------------------------------------------------------------
(* Reading the tokens of a print: the items from token i on, in order, and  *)
(* the token behind them.                                                   *)

RECURSIVE ReadItems(_, _)
ReadItems(t, i) ==
  IF t[i].type # "ident" THEN [items |-> << >>, next |-> i]
  ELSE LET end  == Min({j \in i..Len(t) : t[j].type = ";"} \cup {Len(t)})
           inner == ReadItems(t, i + 2)
           item == CASE t[i + 1].type = "{" ->
                          [name |-> t[i].text, type |-> "Scope", val |-> inner.items]
                     [] t[i + 1].type = "=" /\ t[i + 2].type = "string" ->
                          [name |-> t[i].text, type |-> "String", val |-> t[i + 2].text]
                     [] t[i + 1].type = "=" /\ t[i + 2].type = "[" ->
                          [name |-> t[i].text, type |-> "List",
                           val |-> LET words == SelectSeq(SubSeq(t, i + 2, end),
                                                          LAMBDA tok : tok.type = "string")
                                   IN  [k \in DOMAIN words |-> words[k].text]]
           rest == ReadItems(t, IF t[i + 1].type = "{" THEN inner.next + 1 ELSE end + 1)
       IN  [items |-> <<item>> \o rest.items, next |-> rest.next]

\* The items as they stand in the tree, without the numbers of names.
RECURSIVE Plain(_)
Plain(items) ==
  [i \in DOMAIN items |->
     [items[i] EXCEPT !.name = Unexpand(@).name,
                      !.val = IF items[i].type = "Scope" THEN Plain(@) ELSE @]]
RECURSIVE InOrder(_)
InOrder(items) ==
  LET some(scope) == Sorted({item \in items : (item.type = "Scope") = scope})
  IN  [i \in DOMAIN (some(FALSE) \o some(TRUE)) |->
         LET item == (some(FALSE) \o some(TRUE))[i]
         IN  [item EXCEPT !.val = IF item.type = "Scope" THEN InOrder(@) ELSE @]]

\* The print of a scope, or of one entry, with or without numbers in the names,
\* is read as this scope, or as this entry with its full name: the same names, in
\* the order of the tables, with the same strings and lists, whatever signs are in
\* them.  A carriage return is no such sign.
DumpReadsBack ==
  mode = "done" /\ source.kind = "dump" =>
    Plain(ReadItems(tokens, 1).items) = Plain(InOrder(source.tree))

=============================================================================
