--------------------------- MODULE MCSimpleConfig ---------------------------
(* Model-checking values for SimpleConfig: two options and lines that set  *)
(* them, quoted either way, with comments, mistakes, or too long.          *)
EXTENDS SimpleConfig

a == <<"a">>
b == <<"b">>
MCKey   == {a, b}
MCOrder == <<a, b>>
MCRejected == {<<"0">>, <<" ">>}

(* how a word is written between quotes *)
Escaped(w) ==
  LET e[i \in 0..Len(w)] ==
        IF i = 0 THEN <<>>
          ELSE e[i-1] \o (IF Escapable(w[i]) THEN <<Backslash, w[i]>> ELSE <<w[i]>>)
  IN  e[Len(w)]

Words == {<<>>, <<"0">>, <<"1", "x">>, <<" ">>,
          <<"x", "\"">>, <<Backslash, "#">>, <<"'", " ", "1">>}

Setting(k, text, v) == [text |-> k \o <<" ">> \o text, key |-> k, val |-> v, extra |-> FALSE]
Other(text, k, x) == [text |-> text, key |-> k, val |-> Nothing, extra |-> x]

MCLine ==
  {Setting(k, <<"\"">> \o Escaped(w) \o <<"\"", "\n">>, w) : k \in MCKey, w \in Words}
  \cup {Setting(a, <<"'">> \o Escaped(w) \o <<"'", " ", "#", "x", "\n">>, w) : w \in Words}
  \cup {Setting(b, <<"1">>, <<"1">>), Setting(b, <<"1", "\n">>, <<"1">>),
        Other(a \o <<"\n">>, a, FALSE),
        Other(<<" ", "\n">>, Nothing, FALSE), Other(<<"#", "a", " ", "1", "\n">>, Nothing, FALSE),
        Other(a \o <<" ", "1", " ", "0", "\n">>, a, TRUE),
        Other(<<"z", "\n">>, <<"z">>, FALSE),
        Other(<<"#", "x", "x", "x", "x", "x", "x", "x", "x", "x", "x", "x", "x", "a", " ", "0", "\n">>,
              Nothing, FALSE)}

MCChar == UNION {{l.text[i] : i \in DOMAIN l.text} : l \in MCLine}
=============================================================================
