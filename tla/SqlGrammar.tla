----------------------------- MODULE SqlGrammar -----------------------------
(* The statements of a small SQL grammar, each with the verb, the tables and *)
(* the other names that a reader of SQL finds in it, and lists of patterns   *)
(* of tables: the inputs of the instances of TablePolicy.                    *)
EXTENDS Integers, Sequences

\* A piece of SQL: its words, the tables in it, the names that are no tables.
F(words, tables, others) == [words |-> words, tables |-> tables, others |-> others]
Seq2(a, b) == F(a.words \o b.words, a.tables \cup b.tables, a.others \cup b.others)
Then(a, words) == [a EXCEPT !.words = @ \o words]
Prefixed(words, a) == [a EXCEPT !.words = words \o @]

T == F(<<"t">>, {"t"}, {})
U == F(<<"u">>, {"u"}, {})
V == F(<<"v">>, {"v"}, {})
Alias == F(<<"u", "as", "z">>, {"u"}, {"z"})
NoPiece == F(<<>>, {}, {})

Select(from) == Prefixed(<<"select", "x", ",", "y", "from">>, from)
Paren(a) == Then(Prefixed(<<"(">>, a), <<")">>)
InQuery(a) == Prefixed(<<"where", "x", "in">>, Paren(a))

\* What may stand behind FROM: tables, lists, joins, and a subquery at the end.
Tables == {T, Alias}
Flat == Tables \cup {Seq2(Then(T, <<",">>), Alias), Then(Seq2(Then(T, <<"left", "join">>), Alias), <<"on", "x">>)}
Sub == {Then(Paren(Select(f)), <<"s">>) : f \in Tables}
Froms == Flat \cup Sub \cup {Seq2(Then(f, <<",">>), s) : f \in Tables, s \in Sub}

Wheres == {NoPiece, F(<<"where", "x">>, {}, {}), F(<<"order", "x", ",", "y">>, {}, {})}
          \cup {InQuery(Select(f)) : f \in Tables}
Queries == {Seq2(Select(f), w) : f \in Froms, w \in Wheres}
SmallQueries == {Seq2(Select(f), w) : f \in Tables, w \in {NoPiece, F(<<"where", "x">>, {}, {})}}

Columns == {NoPiece, F(<<"(", "x", ")">>, {}, {}), F(<<"(", "x", ",", "y", ")">>, {}, {})}

Writes ==
  {Seq2(Prefixed(<<"insert", "into">>, T), Seq2(c, b)) : c \in Columns, b \in SmallQueries \cup {F(<<"values", "(", "x", ",", "y", ")">>, {}, {})}}
  \cup {Seq2(Prefixed(<<"update">>, T), Prefixed(<<"set", "x">>, w)) : w \in Wheres}
  \cup {Seq2(Prefixed(<<"delete", "from">>, T), w) : w \in Wheres}

Ddls ==
  {Seq2(Prefixed(<<"create", "table", "if", "not", "exists">>, T), c) : c \in Columns}
  \cup {Seq2(Prefixed(<<"create", "view">>, T), Prefixed(<<"as">>, q)) : q \in SmallQueries}
  \cup {F(<<"create", "index", "i", "on", "t", "(", "x", ")">>, {"t"}, {"i"}),
        F(<<"drop", "table", "if", "exists", "t", ",", "u">>, {"t", "u"}, {}),
        F(<<"alter", "table", "only", "t", "rename", "x">>, {"t"}, {}),
        F(<<"truncate", "table", "t">>, {"t"}, {}),
        F(<<"truncate", "u">>, {"u"}, {})}

\* WITH queries, also with columns, of two names, recursive, and of any verb.
Cte(name, body) == F(<<name>> \o <<"as", "(">> \o body.words \o <<")">>, body.tables, body.others \cup {name})
Materialized(name, body) == F(<<name>> \o <<"as", "materialized", "(">> \o body.words \o <<")">>, body.tables, body.others \cup {name})
CteCols(name, body) == F(<<name, "(", "x", ",", "y", ")", "as", "(">> \o body.words \o <<")">>, body.tables, body.others \cup {name})
Bodies == SmallQueries \cup {F(<<"delete", "from", "t", "returning", "x">>, {"t"}, {})}
Heads == {Prefixed(<<"with">>, Cte("c", b)) : b \in Bodies}
         \cup {Prefixed(<<"with", "recursive">>, CteCols("c", b)) : b \in Bodies}
         \cup {Prefixed(<<"with">>, Seq2(Then(c, <<",">>), Cte("d", Select(F(<<"c">>, {}, {}))))) :
                 c \in UNION {{Cte("c", b), Materialized("c", b)} : b \in Bodies}}
Mains == {Select(F(<<"c">>, {}, {})), Select(Seq2(Then(F(<<"c">>, {}, {}), <<"join">>), Then(Alias, <<"on", "x">>))),
          F(<<"update", "t", "set", "x">>, {"t"}, {}),
          F(<<"delete", "from", "t", "where", "x">>, {"t"}, {})}

\* Lists that go on where the analyser does not expect it.
Wide ==
  {Select(Seq2(Then(T, <<"join">>), Seq2(Then(Alias, <<"on", "x", ",">>), V))),
   Select(Seq2(Then(Paren(Seq2(Select(T), F(<<"where", "x">>, {}, {}))), <<"s", ",">>), V)),
   F(<<"delete", "from", "t", "using", "u", "where", "x">>, {"t", "u"}, {}),
   F(<<"truncate", "table", "t", ",", "u">>, {"t", "u"}, {})}

S(piece, verb) == [tokens |-> piece.words, main |-> verb, tables |-> piece.tables, others |-> piece.others]
Grammar ==
  {S(p, p.words[1]) : p \in Queries \cup Writes \cup Ddls \cup Wide}
  \cup {S(Seq2(h, m), m.words[1]) : h \in Heads, m \in Mains}
  \cup {S(F(<<"with", "c", "as", "(", "select", "x", ")">>, {}, {"c"}), "none"),
        S(F(<<"show", "x">>, {}, {}), "show"), S(F(<<"explain">>, {}, {}), "explain")}

\* Statements whose only list of names is a list of columns.
Inserts == {S(Seq2(Prefixed(<<"insert", "into">>, T), Then(c, <<"values", "(", "x", ",", "y", ")">>)), "insert") : c \in Columns}

Spelled ==
  [o \in {"t", "u", "v", "z", "s", "c", "d", "i", "x", "y", "select"} |->
     CASE o = "t" -> <<"a">> [] o = "u" -> <<"b", ".", "a">> [] OTHER -> <<o>>]

Words(letters, n) == UNION {[1 .. k -> letters] : k \in 0 .. n}
SomeLists == {<<>>, <<<<>>>>, <<<<"a">>>>, <<<<"a">>, <<"a">>, <<"b", ".", "*">>>>, <<<<"*">>>>, <<<<"b", ".", "a">>>>}
SomeArguments == Words({"a", "b", "."}, 4) \ {<<>>}
SomeArgumentLists == {<<p>> : p \in Words({"a", "b", "*"}, 4) \cup {<<"a", ".", "*">>, <<"*", ".", "b">>, <<"*", ".", "*">>}}
                     \cup {<<>>, <<<<"a", "*">>, <<"b", ".", "*">>>>}
=============================================================================
