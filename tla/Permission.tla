------------------------------ MODULE Permission ------------------------------
(***************************************************************************)
(* patternMatch, and the permission to execute a command line, which       *)
(* rests on it.                                                            *)
(***************************************************************************)
EXTENDS TextFunctions

----------------------------------------------------------------------------
(* patternMatch. *)

\* wPatternIndex behind the stars that stand there.
SkipStars(pattern, j) ==
  CHOOSE k \in j..Len(pattern) :
    /\ \A h \in j..(k - 1) : pattern[h + 1] = Star
    /\ k = Len(pattern) \/ pattern[k + 1] # Star

\* Mutant: what a star stands for ends at the first character that could follow.
MatchFirst(text, pattern) ==
  LET match[j \in 0..Len(pattern)] ==
        LET k == SkipStars(pattern, j)
        IN  IF j = Len(pattern) THEN {Len(text)}
            ELSE IF j = k
            THEN {i \in 0..(Len(text) - 1) :
                    text[i + 1] = pattern[j + 1] /\ i + 1 \in match[j + 1]}
            ELSE IF k = Len(pattern) THEN 0..Len(text)
            ELSE {i \in 0..Len(text) : \E h \in i..(Len(text) - 1) :
                    h \in match[k] /\ \A x \in i..(h - 1) : text[x + 1] # pattern[k + 1]}
  IN  0 \in match[0]

\* patternMatchInternal: for each wPatternIndex the wStrIndex for which it returns
\* true, both counted from 0.  A star is tried with every rest of the text that is
\* not empty, unless nothing but stars is left of the pattern.
PatternMatch(text, pattern) ==
  LET match[j \in 0..Len(pattern)] ==
        LET k == SkipStars(pattern, j)
        IN  IF j = Len(pattern) THEN {Len(text)}
            ELSE IF j = k
            THEN {i \in 0..(Len(text) - 1) :
                    text[i + 1] = pattern[j + 1] /\ i + 1 \in match[j + 1]}
            ELSE IF k = Len(pattern) THEN 0..Len(text)
            ELSE {i \in 0..Len(text) : \E h \in i..(Len(text) - 1) : h \in match[k]}
  IN  0 \in match[0]

\* What the comment of patternMatch says: a text matches a pattern if it can be cut
\* into one piece for each character of the pattern, any piece for a star, the
\* character itself for another.
MatchesLikeAShell(text, pattern) ==
  \E cut \in [0..Len(pattern) -> 0..Len(text)] :
    /\ cut[0] = 0 /\ cut[Len(pattern)] = Len(text)
    /\ \A j \in 0..(Len(pattern) - 1) :
         IF pattern[j + 1] = Star THEN cut[j] <= cut[j + 1]
         ELSE cut[j + 1] = cut[j] + 1 /\ text[cut[j] + 1] = pattern[j + 1]

----------------------------------------------------------------------------
(* isExecAllowed. *)

\* A policy: the three lists of a security configuration, and whether there is one.
NoSecurity == [set |-> FALSE, allow |-> << >>, deny |-> << >>, trusted |-> << >>]

\* The characters up to the first blank.
FirstWord(cmdLine) ==
  LET i == SelectInSeq(cmdLine, LAMBDA c : c = Blank)
  IN  IF i = 0 THEN cmdLine ELSE SubSeq(cmdLine, 1, i - 1)

Matched(cmdLine, patterns) == \E i \in DOMAIN patterns : PatternMatch(cmdLine, patterns[i])

\* Mutant: what is allowed is not looked for among what is denied.
AllowedThoughDenied(policy, cmdLine, Installed) ==
  /\ policy.set
  /\ Matched(cmdLine, policy.allow)
  /\ \E j \in DOMAIN policy.trusted :
       policy.trusted[j] \o <<Slash>> \o FirstWord(cmdLine) \in Installed

\* isCmdInDir asks the file system, Installed, for a file of that name.
IsExecAllowed(policy, cmdLine, Installed) ==
  /\ policy.set
  /\ ~Matched(cmdLine, policy.deny)
  /\ Matched(cmdLine, policy.allow)
  /\ \E j \in DOMAIN policy.trusted :
       policy.trusted[j] \o <<Slash>> \o FirstWord(cmdLine) \in Installed

\* What the lists mean: there is a security configuration, no deny pattern matches the
\* command line, an allow pattern does, and the command is a file in a trusted directory.
Permitted(policy, cmdLine, Installed) ==
  LET SomeMatches(patterns) == \E p \in ToSet(patterns) : MatchesLikeAShell(cmdLine, p)
  IN  /\ policy.set
      /\ SomeMatches(policy.allow) /\ ~SomeMatches(policy.deny)
      /\ \E dir \in ToSet(policy.trusted) :
           dir \o <<Slash>> \o Head(Split(cmdLine, <<Blank>>)) \in Installed

=============================================================================
