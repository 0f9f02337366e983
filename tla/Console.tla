------------------------------ MODULE Console ------------------------------
(***************************************************************************)
(* out_console_mixin: a line on its way to the console, the names of the   *)
(* levels in it coloured.                                                  *)
(***************************************************************************)
EXTENDS Integers, SequencesExt

CONSTANTS
  Lines,          \* the lines that are written, sequences of characters
  LevelNames,     \* severities_, in their order
  ColouredNames   \* colored_severities_, each taken for one character

VARIABLES
  colored,   \* colored_: NO_COLOR is not set
  line,      \* the line, or that there is none yet
  shown      \* what was written: characters and coloured names

consoleVars == <<colored, line, shown>>

\* The bytes of lines and names.
Characters == UNION {ToSet(text) : text \in Lines \cup ToSet(LevelNames)}

\* No name is empty, no line has coloured names in it before, and they are as
\* different as the names.
ConsoleAssumption ==
  /\ Lines \subseteq Seq(Characters) /\ LevelNames \in Seq(Seq(Characters) \ {<<>>})
  /\ ColouredNames \in Seq(ToSet(ColouredNames)) /\ Len(ColouredNames) = Len(LevelNames)
  /\ ToSet(ColouredNames) \cap Characters = {}
  /\ \A i, k \in DOMAIN ColouredNames : ColouredNames[i] = ColouredNames[k] => i = k
ASSUME ConsoleAssumption

\* The number of characters each search has found, pos in the code, what has
\* been copied and up to where.
Search(text) ==
  [text |-> text, matched |-> [i \in DOMAIN LevelNames |-> 0], out |-> <<>>, copied |-> 0]

\* A bug: a search goes on after a character that does not match.
MatchedAnywhere(s, char) ==
  [i \in DOMAIN LevelNames |-> IF LevelNames[i][s.matched[i] + 1] = char THEN s.matched[i] + 1 ELSE s.matched[i]]

\* The searches after one character, which a search that starts anew does not
\* look at again.
Matched(s, char) ==
  [i \in DOMAIN LevelNames |-> IF LevelNames[i][s.matched[i] + 1] = char THEN s.matched[i] + 1 ELSE 0]

\* One turn of the loop of write_message(): with a name found, what precedes it
\* and the coloured name are written and every search starts anew.
Advance(s, pos) ==
  LET matched == Matched(s, s.text[pos])
      found   == {i \in DOMAIN LevelNames : matched[i] = Len(LevelNames[i])}
      first   == CHOOSE i \in found : \A k \in found : i <= k
  IN  IF found = {} THEN [s EXCEPT !.matched = matched]
      ELSE [s EXCEPT !.matched = [i \in DOMAIN LevelNames |-> 0],
                     !.out = @ \o SubSeq(s.text, s.copied + 1, pos - Len(LevelNames[first])) \o <<ColouredNames[first]>>,
                     !.copied = pos]

\* The rest of the line follows the last name.
WriteColoured(text) ==
  LET turn[n \in 0 .. Len(text)] == IF n = 0 THEN Search(text) ELSE Advance(turn[n - 1], n)
      s == turn[Len(text)]
  IN  s.out \o SubSeq(text, s.copied + 1, Len(text))

ConsoleInit == colored \in BOOLEAN /\ line = <<>> /\ shown = <<>>

\* write_message()
WriteLine(text) ==
  /\ line' = text
  /\ shown' = IF colored THEN WriteColoured(text) ELSE text
  /\ UNCHANGED colored

ConsoleNext == line = <<>> /\ \E text \in Lines : WriteLine(text)

-----------------------------------------------------------------------------
IsColoured(c) == c \in ToSet(ColouredNames)
NameOf(c)     == LevelNames[CHOOSE i \in DOMAIN ColouredNames : ColouredNames[i] = c]
Bare(text)    == FlattenSeq([n \in DOMAIN text |-> IF IsColoured(text[n]) THEN NameOf(text[n]) ELSE <<text[n]>>])
InNames(c)    == IsColoured(c) \/ \E i \in DOMAIN LevelNames : c \in ToSet(LevelNames[i])

\* Colours change nothing but the colour of level names, and a name that
\* begins the line or follows a character of no name has its colour.
OnlyLevelsColoured ==
  /\ Bare(shown) = line
  /\ colored =>
       \A n \in DOMAIN shown :
         n = 1 \/ ~InNames(shown[n - 1]) =>
           \A i \in DOMAIN LevelNames : ~IsPrefix(LevelNames[i], SubSeq(shown, n, Len(shown)))
=============================================================================
