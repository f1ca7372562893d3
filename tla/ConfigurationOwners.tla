------------------------- MODULE ConfigurationOwners -------------------------
(***************************************************************************)
(* ConfigurationImpl: which configuration object refers to which as its    *)
(* fallback and as its security configuration, and which of them it is to  *)
(* destroy.  A program creates objects, sets them up and destroys them; it *)
(* destroys what it holds, and gives some objects away to others.          *)
(***************************************************************************)
EXTENDS Naturals, FiniteSets

CONSTANTS
  Object,   \* addresses of configuration objects
  None,     \* the null pointer
  Default   \* DefaultSecurityConfiguration::singleton, which nobody destroys

ASSUME NoObjects == None \notin Object /\ Default \notin Object

\* The lists of a security configuration, all three: in the scope that was given,
\* or under their bare names, by which a fallback is asked.
Entry == {"scoped", "bare"}

VARIABLES
  obj,        \* the objects that were created and not destroyed, with their fields
  held,       \* those the program is to destroy
  forgotten,  \* those nobody will destroy (for the properties)
  exc         \* the exception the last call ended with

vars == <<obj, held, forgotten, exc>>

\* The fields, with the lists the scopes of the object have.
Fields ==
  [holds : SUBSET Entry,
   fallback : Object \cup {None}, ownsFallback : BOOLEAN,
   security : Object \cup {Default}, ownsSecurity : BOOLEAN, scope : Entry]

\* The constructor, and the entries of a source that was parsed.
New(entries) ==
  [holds |-> entries,
   fallback |-> None, ownsFallback |-> FALSE,
   security |-> Default, ownsSecurity |-> FALSE, scope |-> "bare"]

----------------------------------------------------------------------------
(* Ownership and fallbacks. *)

Live == DOMAIN obj
\* Memory that is given back may be given out again.
Fresh == Object \ Live

OwnsAsFallback(o, x) == obj[o].ownsFallback /\ obj[o].fallback = x
OwnsAsSecurity(o, x) == obj[o].ownsSecurity /\ obj[o].security = x
Owns(o, x) == OwnsAsFallback(o, x) \/ OwnsAsSecurity(o, x)

\* The destructor destroys what the object owns, and so on: the least set with o
\* in it that has with an object all it owns.
ClosedUnderOwns(S) == \A p \in S \cap Live : \A x \in Object : Owns(p, x) => x \in S
Tree(o) == {x \in Object : \A S \in SUBSET Object : o \in S /\ ClosedUnderOwns(S) => x \in S}

\* What is destroyed if o owns what it had so far.
OldFallback(o) == IF obj[o].ownsFallback THEN Tree(obj[o].fallback) ELSE {}
OldSecurity(o) == IF obj[o].ownsSecurity THEN Tree(obj[o].security) ELSE {}

\* The objects a look-up may come to: o, its fallback, the fallback's fallback.
ClosedUnderFallback(S) == \A p \in S \cap Live : obj[p].fallback \in Object => obj[p].fallback \in S
Chain(o) == {x \in Object : \A S \in SUBSET Object : o \in S /\ ClosedUnderFallback(S) => x \in S}

\* lookup: the fallback is asked for the local name.
Find(o, entry) == entry \in obj[o].holds \/ \E p \in Chain(o) \ {o} : "bare" \in obj[p].holds

----------------------------------------------------------------------------
(* Operations. *)

\* The objects when some are destroyed and others get new fields.
After(destroyed, changed) ==
  [x \in (Live \ destroyed) \cup DOMAIN changed |->
     IF x \in DOMAIN changed THEN changed[x] ELSE obj[x]]
Only(o, record) == [x \in {o} |-> record]
Both(o, record, n, other) == [x \in {o, n} |-> IF x = o THEN record ELSE other]

Init ==
  /\ obj = [o \in {} |-> New({})]
  /\ held = {} /\ forgotten = {} /\ exc = "none"

Returns == exc' = "none" /\ UNCHANGED forgotten

\* Configuration::create.
Create(o) ==
  /\ o \in Fresh
  /\ obj' = After({}, Only(o, New({})))
  /\ held' = held \cup {o}
  /\ Returns

\* The program destroys an object when it is used by no other.
Destroy(o) ==
  /\ o \in held
  /\ \A p \in Live \ {o} : obj[p].fallback # o /\ obj[p].security # o
  /\ obj' = [x \in Live \ Tree(o) |-> obj[x]]
  /\ held' = held \ {o}
  /\ Returns

\* parse adds entries, before an exception too; empty() takes them away, and
\* leaves the fallback and the security configuration as they are.
Parse(o, entries) ==
  /\ o \in held
  /\ obj' = [obj EXCEPT ![o].holds = @ \cup entries]
  /\ exc' \in {"none", "config"}
  /\ UNCHANGED <<held, forgotten>>

Empty(o) ==
  /\ o \in held
  /\ obj' = [obj EXCEPT ![o].holds = {}]
  /\ UNCHANGED held
  /\ Returns

\* Mutants: the object the program keeps is owned as the one before was; the
\* fallback that is replaced is not destroyed.
SetFallbackOwned(o, f) ==
  /\ o \in held /\ f \in held \cup {None}
  /\ f \in Object => o \notin Chain(f)
  /\ obj' = After(OldFallback(o), Only(o, [obj[o] EXCEPT !.fallback = f]))
  /\ UNCHANGED held
  /\ Returns
SetFallbackKept(o, f) ==
  /\ o \in held /\ f \in held \cup {None}
  /\ f \in Object => o \notin Chain(f)
  /\ obj' = After({}, Only(o, [obj[o] EXCEPT !.fallback = f, !.ownsFallback = FALSE]))
  /\ UNCHANGED held
  /\ Returns

\* setFallbackConfiguration(cfg).  The program makes no ring of fallbacks.
SetFallback(o, f) ==
  /\ o \in held /\ f \in held \cup {None}
  /\ f \in Object => o \notin Chain(f)
  /\ obj' = After(OldFallback(o), Only(o, [obj[o] EXCEPT !.fallback = f, !.ownsFallback = FALSE]))
  /\ UNCHANGED held
  /\ Returns

\* setFallbackConfiguration(sourceType, source, sourceDescription).
ParseFallback(o, n, entries) ==
  /\ o \in held /\ n \in Fresh
  /\ obj' = After(OldFallback(o),
                  Both(o, [obj[o] EXCEPT !.fallback = n, !.ownsFallback = TRUE], n, New(entries)))
  /\ UNCHANGED held
  /\ Returns

\* Mutant: the old one is destroyed before the new one is there.
DestroyOldFirst(o, n) ==
  /\ o \in held /\ n \in Fresh
  /\ exc' = "config"
  /\ obj' = [x \in Live \ (OldFallback(o) \cup OldSecurity(o)) |-> obj[x]]
  /\ UNCHANGED <<held, forgotten>>

\* A source cannot be parsed, or has not the lists: the object n that was made for
\* it is destroyed if that is a ConfigurationException, and remains if the parser
\* threw another one.
ParseFails(o, n) ==
  /\ o \in held /\ n \in Fresh
  /\ \/ exc' = "config" /\ UNCHANGED <<obj, forgotten>>
     \/ /\ exc' = "foreign"
        /\ obj' = After({}, Only(n, New({})))
        /\ forgotten' = forgotten \cup {n}
  /\ UNCHANGED held

\* The program gives an object away that no other uses.
MayGive(s, o) ==
  /\ s # o
  /\ \A p \in Live \ {s} : obj[p].fallback # s /\ (obj[p].security = s => p = o)

\* Mutant: the lists are not looked up.
SetSecurityUnseen(o, s, take, where) ==
  /\ o \in held /\ s \in held /\ (take => MayGive(s, o))
  /\ obj' = [obj EXCEPT ![o] = [@ EXCEPT !.security = s, !.scope = where, !.ownsSecurity = take]]
  /\ held' = IF take THEN held \ {s} ELSE held
  /\ forgotten' = IF obj[o].ownsSecurity THEN forgotten \cup {obj[o].security} ELSE forgotten
  /\ exc' = "none"

\* setSecurityConfiguration(cfg, takeOwnership, scope): an object that was owned
\* is not destroyed.
SetSecurity(o, s, take, where) ==
  /\ o \in held /\ s \in held /\ (take => MayGive(s, o))
  /\ Find(s, where)
  /\ obj' = [obj EXCEPT ![o] = [@ EXCEPT !.security = s, !.scope = where, !.ownsSecurity = take]]
  /\ held' = IF take THEN held \ {s} ELSE held
  /\ forgotten' = IF obj[o].ownsSecurity THEN forgotten \cup {obj[o].security} ELSE forgotten
  /\ exc' = "none"

SetSecurityFails(o, s, where) ==
  /\ o \in held /\ s \in held /\ ~Find(s, where)
  /\ exc' = "config"
  /\ UNCHANGED <<obj, held, forgotten>>

\* setSecurityConfiguration(cfgInput, scope).
ParseSecurity(o, n, entries, where) ==
  /\ o \in held /\ n \in Fresh /\ where \in entries
  /\ obj' = After(OldSecurity(o),
                  Both(o, [obj[o] EXCEPT !.security = n, !.scope = where, !.ownsSecurity = TRUE],
                       n, New(entries)))
  /\ UNCHANGED held
  /\ Returns

\* isExecAllowed looks the lists up once more, whatever became of them since.
ExecFails(o) ==
  /\ o \in held /\ obj[o].security \in Live
  /\ ~Find(obj[o].security, obj[o].scope)
  /\ exc' = "config"
  /\ UNCHANGED <<obj, held, forgotten>>

Next ==
  \E o \in Object :
    \/ Create(o)
    \/ Destroy(o)
    \/ \E entries \in SUBSET Entry : Parse(o, entries)
    \/ Empty(o)
    \/ \E f \in Object \cup {None} : SetFallback(o, f)
    \/ \E n \in Object, entries \in SUBSET Entry : ParseFallback(o, n, entries)
    \/ \E s \in Object, take \in BOOLEAN, where \in Entry : SetSecurity(o, s, take, where)
    \/ \E s \in Object, where \in Entry : SetSecurityFails(o, s, where)
    \/ \E n \in Object, entries \in SUBSET Entry, where \in Entry : ParseSecurity(o, n, entries, where)
    \/ \E n \in Object : ParseFails(o, n)
    \/ ExecFails(o)

Spec == Init /\ [][Next]_vars

----------------------------------------------------------------------------
(* Properties. *)

OwnersOK ==
  /\ Live \subseteq Object /\ obj \in [Live -> Fields]
  /\ held \subseteq Live /\ forgotten \subseteq Live
  /\ exc \in {"none", "config", "foreign"}

\* No object is destroyed twice, and no pointer that leads to none is followed to
\* destroy: what an object is to destroy exists, the program is not to destroy it
\* too, and neither is another object, nor the same one for another reason.
SomethingToDestroy ==
  \A o \in Live : /\ obj[o].ownsFallback => obj[o].fallback \in Object
                  /\ obj[o].ownsSecurity => obj[o].security \in Object
OneToDestroy ==
  \A o \in Live, x \in Object :
    Owns(o, x) =>
      /\ x \in Live \ held
      /\ ~(OwnsAsFallback(o, x) /\ OwnsAsSecurity(o, x))
      /\ \A p \in Live : Owns(p, x) => p = o
DestroyedOnce == SomethingToDestroy /\ OneToDestroy

\* No object is used that has been destroyed: as long as the program destroys and
\* gives away only what no other object uses, every pointer of an object leads to one
\* that exists, after replacements and failures too.
NoDanglingPointer ==
  \A o \in Live : obj[o].fallback \in Live \cup {None} /\ obj[o].security \in Live \cup {Default}

\* Every object will be destroyed by the program or by its owner, but for those an
\* exception of another kind leaves behind and those that setSecurityConfiguration
\* replaces by one it is given.
NothingElseIsForgotten ==
  \A x \in Live : x \in held \cup forgotten \/ \E o \in Live : Owns(o, x)

\* A security configuration that an object owns answers when a command is to be
\* executed, unless it has a fallback that the program keeps: the lists are looked
\* up when it is set, and nobody can empty it afterwards.
OwnFallbacksOnly(s) == \A p \in Chain(s) : obj[p].fallback \in Object => obj[p].ownsFallback
OwnedSecurityAnswers ==
  \A o \in Live : obj[o].ownsSecurity /\ OwnFallbacksOnly(obj[o].security)
                    => Find(obj[o].security, obj[o].scope)

\* A call that ends with a ConfigurationException, parse apart, has changed nothing
\* about the objects there are: none is destroyed, none replaced, none left behind.
ExceptionChangesNothing ==
  [][exc' = "config" =>
       /\ DOMAIN obj' = Live /\ held' = held
       /\ \A o \in Live : [obj'[o] EXCEPT !.holds = {}] = [obj[o] EXCEPT !.holds = {}]]_vars

=============================================================================
