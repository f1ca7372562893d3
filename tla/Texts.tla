-------------------------------- MODULE Texts --------------------------------
(***************************************************************************)
(* Texts as sequences of characters, and what the code looks for in them.  *)
(* The end of a text is the '\0' of the code.                              *)
(***************************************************************************)
EXTENDS Integers, Sequences, SequencesExt

Star  == "*"
Slash == "/"
Blank == " "

From(text, i) == SubSeq(text, i, Len(text))

\* strstr: where word first stands in text, from i on; 0 for nowhere.
FindFrom(text, word, i) ==
  LET hits == {k \in i..(Len(text) - Len(word) + 1) :
                 SubSeq(text, k, k + Len(word) - 1) = word}
  IN  IF hits = {} THEN 0 ELSE Min(hits)
Find(text, word) == FindFrom(text, word, 1)

Join(list, separator) ==
  FlattenSeq([i \in DOMAIN list |->
                IF i < Len(list) THEN list[i] \o separator ELSE list[i]])

=============================================================================
