------------------------------- MODULE ShSplit -------------------------------
(***************************************************************************)
(* sh_split of mat-daemon/src/simple_config.h: a line of the configuration *)
(* cut into words, as a shell would, with quotes, backslashes before       *)
(* quotes and comments.  A line is a sequence of characters.               *)
(***************************************************************************)
EXTENDS Naturals, Sequences

CONSTANT Char   \* the characters of lines
ASSUME CharAssumption == {" ", "\n", "\"", "'", "#", "\\"} \subseteq Char

IsSpace(c)   == c \in {" ", "\n"}
IsQuote(c)   == c \in {"\"", "'"}
Escapable(c) == IsQuote(c) \/ c = "#"
Backslash    == "\\"

(* The first place of s from i on that is in P, or the one past its end.   *)
FirstIn(s, i, P) ==
  LET at == {j \in i..Len(s) : j \in P}
  IN  IF at = {} THEN Len(s) + 1 ELSE CHOOSE j \in at : \A k \in at : j <= k

WordStart(s, i) == FirstIn(s, i, {j \in DOMAIN s : ~IsSpace(s[j])})

ClosingAny(s, i) ==   \* mutant of Closing: the backslash is not looked at
  FirstIn(s, i + 1, {j \in DOMAIN s : s[j] = s[i]})

(* where the quote that is opened at i closes: prev is the character before*)
Closing(s, i) ==
  FirstIn(s, i + 1, {j \in 2..Len(s) : s[j] = s[i] /\ s[j - 1] # Backslash})

(* where a word without quotes ends *)
BareEnd(s, i) == FirstIn(s, i + 1, {j \in DOMAIN s : IsSpace(s[j])})

(* The copy into sub leaves out each backslash that escapes what follows.  *)
Unescaped(w) ==
  LET drops(i) == w[i] = Backslash /\ i < Len(w) /\ Escapable(w[i + 1])
      copy[i \in 0..Len(w)] ==
        IF i = 0 THEN <<>>
          ELSE IF drops(i) THEN copy[i - 1] ELSE Append(copy[i - 1], w[i])
  IN  copy[Len(w)]

(* A lone quote at the very end of the line stands for itself. *)
Word(s, i) ==
  IF ~IsQuote(s[i])   THEN Unescaped(SubSeq(s, i, BareEnd(s, i) - 1))
  ELSE IF i = Len(s)  THEN <<s[i]>>
  ELSE Unescaped(SubSeq(s, i + 1, Closing(s, i) - 1))

(* where the search for the next word begins *)
After(s, i) == IF IsQuote(s[i]) THEN Closing(s, i) + 1 ELSE BareEnd(s, i)

sh_split(s) ==
  LET words[i \in 1..Len(s)+2] ==
        LET j == WordStart(s, i)
        IN  IF j > Len(s) \/ s[j] = "#" THEN <<>>
              ELSE <<Word(s, j)>> \o words[After(s, j)]
  IN  IF s = <<>> THEN <<>> ELSE words[1]
=============================================================================
