------------------------------ MODULE MCEntry -------------------------------
(* A small instance of Entry.                                              *)
EXTENDS EntryProofs

SomeNumerals == {"0", "7", "100", "1000"}

C == Word("c")
S == Word("s")
P == Word("p")

\* Settings beside the defaults; a value may begin with a dash.
Set(n, v) == n :> v
Config == Set("config", P)
Table == Set("format", Word("table"))
Json == Set("format", Word("json"))
Dry == Set("dry-run", Word("true"))
Verbose == Set("verbose", Word("true"))
Page == Set("page-size", Word("7"))
All == Set("page-size", Word("0"))
Rows == Set("max-rows-affected", Word("7"))
Cursor == Set("cursor", Dashed(1, "7"))
Plan == Set("plan", P)
Limit == Set("limit", Word("7"))

M(path, set, words) == [path |-> path, set |-> set, words |-> words]

Pairs(settings) == {a @@ b : a, b \in settings}
SomeMeanings ==
  {M(<<"query">>, s, <<C, S>>) : s \in Pairs({Config, Json, Page, All, Cursor, Verbose})}
  \cup {M(<<"update">>, s, <<Word("file"), C, P>>) : s \in Pairs({Config, Dry, Rows})}
  \cup {M(<<"schema">>, Dry @@ Verbose @@ Table, <<C, S>>)}
  \cup {M(<<"admin">>, s, <<Word("dsn"), P, C, S>>) : s \in {Table, Set("config", Flag("help"))}}
  \cup {M(<<"conn", w>>, s, <<C>>) : w \in {"test", "show", "resolve"}, s \in Pairs({Config, Table, Verbose})}
  \cup {M(<<"conn", "list">>, s, <<>>) : s \in Pairs({Config, Table, Verbose})}
  \cup {M(<<"inspect", "schema">>, s, w) : s \in {Config, Table, Verbose}, w \in {<<C>>, <<C, S>>}}
  \cup {M(<<"inspect", "table">>, s, w) : s \in {Config, Verbose}, w \in {<<C, P>>, <<C, P, S>>}}
  \cup {M(<<"inspect", "connection">>, Config, <<C>>)}
  \cup {M(<<"tx">>, Plan @@ s, <<C>>) : s \in Pairs({Config, Dry, Page, Verbose})}
  \cup {M(<<"import">>, s, <<Word("file"), P, C, S>>) : s \in Pairs({Config, Rows, Dry})}
  \cup {M(<<"export">>, s, <<Word("table"), S, C, P>>) : s \in Pairs({Config, Json, Limit})}

\* The flags before, between and behind the words, in any order; or all in front,
\* and two dashes in front of one of the words.
Pieces(m) ==
  LET words == [i \in 1 .. Len(m.path) - 1 |-> Word(m.path[i + 1])] \o m.words
      spelled(n, joined) ==
        IF n \in Bools THEN <<Flag(n)>> ELSE IF joined THEN <<FlagWith(n, m.set[n])>> ELSE <<Flag(n), m.set[n]>>
      pieces(order, slot, joined, dashes) ==
        FlattenSeq([i \in 1 .. Len(words) + 1 |->
          FlattenSeq([j \in 1 .. Len(order) |-> IF slot[j] = i THEN <<spelled(order[j], joined)>> ELSE <<>>])
          \o (IF i = dashes THEN <<<<DashDash>>>> ELSE <<>>)
          \o (IF i <= Len(words) THEN <<<<words[i]>>>> ELSE <<>>)])
  IN  UNION {
        {pieces(order, slot, joined, 0) :
           slot \in [1 .. Len(order) -> 1 .. Len(words) + 1], joined \in BOOLEAN}
        \cup {pieces(order, [j \in 1 .. Len(order) |-> 1], joined, dashes) :
                 joined \in BOOLEAN, dashes \in 1 .. Len(words)}
        : order \in SetToSeqs(DOMAIN m.set)}
CallsOf(meanings) == UNION {{[means |-> m, pieces |-> p] : p \in Pieces(m)} : m \in meanings}
SomeCalls == CallsOf(SomeMeanings)

SomeSlips ==
  {<<>>, <<Flag("version")>>, <<Word("version")>>, <<Word("help")>>, <<Word("help"), Word("tx")>>,
   <<Word("help"), Word("none")>>, <<Word("nope")>>, <<Word("query")>>, <<Word("query"), Flag("help")>>,
   <<Word("query"), Flag("bogus")>>, <<Word("tx"), C>>, <<Word("tx"), Flag("plan")>>,
   <<Word("query"), C, Dashed(1, "verbose")>>,
   <<Word("query"), Dashed(1, "help"), S>>, <<Word("query"), Dashed(1, "bogus"), S>>,
   <<Word("query"), C, S, Flag("page-size"), Word("x")>>,
   <<Word("query"), C, S, Flag("format"), Word("xml")>>,
   <<Word("query"), DashDash, DashDash, C, Dashed(1, "config")>>,
   <<Word("tx"), Flag("plan"), P, Word("help")>>,
   <<Word("conn"), Dashed(1, "x")>>, <<Word("conn")>>, <<Word("secret"), Word("encrypt"), P>>}

\* A plan is run with a cursor and a verbose answer.
TxCalls == CallsOf({M(<<"tx">>, Plan @@ Set("cursor", S) @@ Verbose, <<C>>)})
=============================================================================
