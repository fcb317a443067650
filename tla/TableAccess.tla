---------------------------- MODULE TableAccess -----------------------------
(***************************************************************************)
(* allow_tables: the patterns of a connection, and whether they let a      *)
(* table through (parseAllowTables, AllowsTable and wildcardMatch of       *)
(* internal/conn).  Names and patterns are sequences of letters, "." and   *)
(* "*"; case, blanks and quotes around them are already gone               *)
(* (normalizeTablePattern).                                                *)
(***************************************************************************)
EXTENDS Integers, Sequences, SequencesExt

\* parseAllowTables: empty patterns are dropped, and so is all but the first of
\* equal ones.
Patterns(raw) ==
  LET first(k) == \A m \in 1 .. k - 1 : raw[m] # raw[k]
  IN  {raw[k] : k \in {k \in 1 .. Len(raw) : raw[k] # <<>> /\ first(k)}}

RestrictsTables(patterns) == patterns # {}

-----------------------------------------------------------------------------
(* wildcardMatch.                                                          *)

Stars(p) == {k \in 1 .. Len(p) : p[k] = "*"}

\* strings.Split(p, "*"): the part that ends in front of position k, a star or
\* the end.
Part(p, k) == SubSeq(p, Max({0} \cup {j \in Stars(p) : j < k}) + 1, k - 1)

\* Where the first occurrence of part behind pos ends, or -1.
Behind(value, pos, part) ==
  LET hits == {k \in pos .. Len(value) - Len(part) : SubSeq(value, k + 1, k + Len(part)) = part}
  IN  IF hits = {} THEN -1 ELSE Len(part) + Min(hits)

HasPrefix(value, part) == Behind(value, 0, part) = Len(part)

\* (mutant) The last part may stand anywhere.
EndsAnywhere(value, part) == TRUE

EndsWith(value, part) ==
  Len(part) <= Len(value) /\ SubSeq(value, Len(value) - Len(part) + 1, Len(value)) = part

\* Where the part that ends at k has been found, part by part, or -1.
Found(p, value) ==
  LET pos[k \in 0 .. Len(p) + 1] ==
        IF k = 0 THEN 0
        ELSE IF k \notin Stars(p) \cup {Len(p) + 1} THEN pos[k - 1]
        ELSE IF \A j \in Stars(p) : k <= j THEN Len(Part(p, k))
        ELSE IF pos[k - 1] = -1 THEN -1
        ELSE Behind(value, pos[k - 1], Part(p, k))
  IN  pos

WildcardMatch(p, value) ==
  IF Stars(p) = {} THEN p = value
  ELSE /\ HasPrefix(value, Part(p, Min(Stars(p))))
       /\ Found(p, value)[Len(p) + 1] # -1
       /\ EndsWith(value, Part(p, Len(p) + 1))

\* A pattern without a schema is about the table alone, in whatever schema.
Qualified(s) == \E k \in 1 .. Len(s) : s[k] = "."

Unqualified(name) ==
  LET dots == {k \in 1 .. Len(name) : name[k] = "."}
  IN  SubSeq(name, Max(dots) + 1, Len(name))

Compared(p, name) == IF Qualified(p) \/ ~Qualified(name) THEN name ELSE Unqualified(name)

TablePatternMatches(p, name) == name # <<>> /\ WildcardMatch(p, Compared(p, name))

AllowsTable(patterns, name) ==
  \/ ~RestrictsTables(patterns)
  \/ \E p \in patterns : TablePatternMatches(p, name)

-----------------------------------------------------------------------------
(* Reference: a star stands for any text, every other character for itself. *)

\* Where the first k characters of p may end in value.
Reach(p, value) ==
  LET ends[k \in 0 .. Len(p)] ==
        IF k = 0 THEN {0}
        ELSE IF p[k] = "*" THEN {m \in 0 .. Len(value) : \E n \in ends[k - 1] : n <= m}
        ELSE {m \in 1 .. Len(value) : m - 1 \in ends[k - 1] /\ value[m] = p[k]}
  IN  ends

Globs(p, value) == Len(value) \in Reach(p, value)[Len(p)]

\* What follows the last dot of a name.
Base(name) == {s \in Suffixes(name) : ~Qualified(s) /\ (s = name \/ name[Len(name) - Len(s)] = ".")}

Covers(p, name) ==
  IF Qualified(p) THEN Globs(p, name) ELSE \E s \in Base(name) : Globs(p, s)
=============================================================================
