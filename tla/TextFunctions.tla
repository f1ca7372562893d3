---------------------------- MODULE TextFunctions ----------------------------
(***************************************************************************)
(* What the functions of the configuration language compute from texts:    *)
(* split(), replace(), fileToDir().                                        *)
(***************************************************************************)
EXTENDS Texts

----------------------------------------------------------------------------
(* split() and replace(). *)

\* The loop of parseSplit: for each currStart the words from there on.  It does not
\* end for an empty delim.
Split(text, delim) ==
  LET split[currStart \in 1..(Len(text) + 1)] ==
        LET currEnd == FindFrom(text, delim, currStart)
        IN  IF currEnd = 0 THEN <<From(text, currStart)>>
            ELSE <<SubSeq(text, currStart, currEnd - 1)>> \o split[currEnd + Len(delim)]
  IN  split[1]

\* Mutant: only the first hit is replaced.
ReplaceOnce(text, search, replacement) ==
  LET i == Find(text, search)
  IN  IF i = 0 THEN text
      ELSE SubSeq(text, 1, i - 1) \o replacement \o From(text, i + Len(search))

\* The loop of parseReplace: for each currStart what becomes of the text from there.
Replace(text, search, replacement) ==
  LET replace[currStart \in 1..(Len(text) + 1)] ==
        LET currEnd == FindFrom(text, search, currStart)
        IN  IF currEnd = 0 THEN From(text, currStart)
            ELSE SubSeq(text, currStart, currEnd - 1) \o replacement
                   \o replace[currEnd + Len(search)]
  IN  replace[1]

\* list is text cut at every delim, from left to right: no word but the last reaches
\* into a delimiter, and join() puts together again what was cut.
IsCutAt(list, text, delim) ==
  /\ Join(list, delim) = text
  /\ \A i \in 1..(Len(list) - 1) : Find(list[i] \o delim, delim) = Len(list[i]) + 1
  /\ Find(Last(list), delim) = 0

----------------------------------------------------------------------------
(* fileToDir(): getDirectoryOfFile, where the directory separator is '/'. *)

DirectoryOfFile(file, Letters) ==
  LET last == SelectLastInSeq(file, LAMBDA c : c = Slash)
      drive == last = 3 /\ file[1] \in Letters /\ file[2] = ":"
  IN  CASE last = 0 -> <<".">>
        [] last = 1 -> <<Slash, ".">>
        [] last > 1 -> SubSeq(file, 1, last - 1) \o (IF drive THEN <<Slash, ".">> ELSE << >>)

=============================================================================
