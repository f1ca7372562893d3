---------------------------- MODULE VariableStore ----------------------------
(***************************************************************************)
(* What a Configuration promises to a program that only reads variables: a *)
(* finite map from scoped names to values in which no variable's name runs *)
(* through another variable.  One call or statement sets one variable, or  *)
(* discards every variable below one scoped name, and touches no other.    *)
(* The specifications Configuration and ConfigParser implement this one.   *)
(***************************************************************************)
EXTENDS Sequences, SequencesExt

CONSTANT Val       \* what a variable may hold

VARIABLE store     \* [scoped name -> Val], scoped names being sequences

Init == store = [p \in {} |-> {}]

\* A variable's name may not extend another variable's, nor be extended by it.
Clear(p) == \A q \in DOMAIN store : ~IsStrictPrefix(p, q) /\ ~IsStrictPrefix(q, p)

Set(p, v) ==
  /\ Clear(p)
  /\ v \in Val
  /\ store' = [q \in DOMAIN store \cup {p} |-> IF q = p THEN v ELSE store[q]]

Discard(p) == store' = [q \in {r \in DOMAIN store : ~IsPrefix(p, r)} |-> store[q]]

\* The variable set is one the store holds afterwards; the scoped name
\* discarded leads to a variable the store held before.
Next ==
  \/ \E p \in DOMAIN store' : Set(p, store'[p])
  \/ \E q \in DOMAIN store : \E p \in Prefixes(q) : Discard(p)

Spec == Init /\ [][Next]_store

=============================================================================
