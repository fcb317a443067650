------------------------------ MODULE Inspect -------------------------------
(***************************************************************************)
(* How dbx inspects a database: inspect table and inspect schema of        *)
(* internal/cli over DescribeTable, ListSchemas, ListTables and            *)
(* ListRelations of internal/db.  Each answer is put together from several *)
(* queries on connections of their own, without a transaction; meanwhile   *)
(* other sessions change the schema, and a timeout or Ctrl-C may end the   *)
(* context inside a loop over rows.  Most loops look at rows.Err behind    *)
(* their last row, some of SQLite's do not.                                *)
(***************************************************************************)
EXTENDS Integers, Sequences, SequencesExt

CONSTANTS
  Tables,     \* the table names in the order of the listings
  Column,     \* the columns of tables
  Catalogs,   \* what the schema may look like
  Calls,      \* what may be asked: [engine, what, table, schema, permitted]
  Null,       \* a column the catalogue does not name
  MaxEdits    \* bound: changes of the schema during the call

Table == ToSet(Tables)

\* t stands before u in a listing; and what a listing that ends early has got.
Earlier(t, u) == \E i, j \in DOMAIN Tables : i < j /\ t = Tables[i] /\ u = Tables[j]
Beginnings(S) == {got \in SUBSET S : \A t \in got : \A u \in S : Earlier(u, t) => u \in got}

\* A catalogue gives each table its columns (none when there is no such table)
\* and its keys: [kind, name, cols, ref, refs].  A primary or unique key refers to
\* its own columns.  Null stands for the implicit key of a parent table, and for
\* the expression of an index.
IsKeyOf(t, k) ==
  /\ k.kind \in {"pk", "unique", "fk"}
  /\ k.cols \in Seq(Column \cup {Null}) /\ k.refs \in Seq(Column \cup {Null})
  /\ Len(k.cols) = Len(k.refs) /\ Len(k.cols) > 0
  /\ k.ref \in Table
  /\ k.kind # "fk" => k.ref = t /\ k.refs = k.cols

IsCatalog(c) ==
  /\ DOMAIN c = Table
  /\ \A t \in Table :
       /\ c[t].cols \in Seq(Column)
       /\ \A k \in c[t].keys : IsKeyOf(t, k)
       /\ \A k, m \in c[t].keys : k.kind = "pk" /\ m.kind = "pk" => k = m
       /\ c[t].cols = <<>> => c[t].keys = {}

ArgumentsAreCalls ==
  /\ \A c \in Catalogs : IsCatalog(c)
  /\ \A v \in Calls :
       /\ v.engine \in {"postgres", "mysql", "sqlite"}
       /\ v.what \in {"table", "schema"}
       /\ v.table \in Table
       /\ v.schema \in BOOLEAN        \* a schema was named
       /\ v.permitted \subseteq Table \* by allow_tables
  /\ MaxEdits \in Nat

VARIABLES
  call,     \* the call; never changes
  catalog,  \* the schema as it is
  seen,     \* history: the schemas there were since the call began
  ctx,      \* "live", "expired" (the timer) or "cancelled" (Ctrl-C)
  pc,       \* the query that comes next, or "end"
  todo,     \* names whose queries are still to come
  found,    \* what has been read
  answer    \* "none", "ok" or "err"

vars == <<call, catalog, seen, ctx, pc, todo, found, answer>>

\* No two constraints of the schema have the same name.
Distinct(cat) ==
  \A t, u \in Table : \A k \in cat[t].keys, m \in cat[u].keys : k.name = m.name => t = u /\ k = m

\* Which key takes its name from which other one: PostgreSQL's keys of one table;
\* MySQL's keys of one table and kind, its PRIMARY from every key of the table, and
\* its foreign keys in the schema; SQLite's indexes.
Takes(engine, t, k, u, m) ==
  \/ engine = "postgres" /\ t = u
  \/ engine = "mysql" /\ t = u /\ k.kind \in {"pk", m.kind}
  \/ engine = "mysql" /\ k.kind = "fk" /\ m.kind = "fk"
  \/ engine = "sqlite" /\ k.kind = "unique" /\ m.kind = "unique"

\* What the server lets a schema be; only SQLite has constraints with columns it
\* does not name.
Possible(engine) ==
  {c \in Catalogs :
    /\ engine # "sqlite" => \A t \in Table : \A k \in c[t].keys : Null \notin ToSet(k.refs)
    /\ \A t, u \in Table : \A k \in c[t].keys, m \in c[u].keys :
         k.name = m.name /\ Takes(engine, t, k, u, m) => t = u /\ k = m}

Nothing ==
  [cols |-> <<>>, flagged |-> {}, pk |-> {}, uniques |-> {}, fks |-> {},
   tables |-> {}, scanned |-> {}, relations |-> {}]

Init ==
  /\ call \in Calls
  /\ catalog \in Possible(call.engine) /\ seen = <<catalog>>
  /\ ctx = "live"
  /\ pc = IF call.what = "table" THEN "columns" ELSE "schemas"
  /\ todo = {} /\ found = Nothing
  /\ answer = "none"

-----------------------------------------------------------------------------
(* What the catalogue queries return.                                      *)

TablesOf(cat) == {t \in Table : cat[t].cols # <<>>}
Keys(cat, t, kind) == {k \in cat[t].keys : k.kind = kind}
PrimaryKey(cat, t) == UNION {ToSet(k.cols) : k \in Keys(cat, t, "pk")}
IndexCols(cat, name) ==
  LET owners == {k \in UNION {Keys(cat, t, "unique") : t \in Table} : k.name = name} IN
  IF owners = {} THEN <<>> ELSE (CHOOSE k \in owners : TRUE).cols

\* The keys of a table as they were declared; SQLite numbers foreign keys and has
\* no names for them.
Declared(engine, cat, t, kind) ==
  {[name |-> IF engine = "sqlite" /\ kind = "fk" THEN Null ELSE k.name,
    from |-> t, ref |-> k.ref, cols |-> k.cols, refs |-> k.refs] : k \in Keys(cat, t, kind)}

\* PostgreSQL: constraint_column_usage is joined by the name of the constraint
\* alone, so each column comes once for every column that constraints of that
\* name use, in whatever table they are.  What that says of a key is its columns
\* and those it refers to, as sets.
Named(cat, name) == {k \in UNION {cat[t].keys : t \in Table} : k.name = name}
Used(cat, name) == UNION {{[table |-> k.ref, col |-> c] : c \in ToSet(k.refs)} : k \in Named(cat, name)}
Joined(cat, name, from, cols) ==
  [name |-> name, from |-> from, ref |-> (CHOOSE u \in Used(cat, name) : TRUE).table,
   cols |-> cols, refs |-> {u.col : u \in Used(cat, name)}]

\* MySQL: the rows of key_column_usage have the name of their key and not its kind,
\* so a key gets those of every key of the table with its name.  Among rows of the
\* same place their order is the server's; the table that is shown as referred to is
\* that of the first one.
Row(k, p) ==
  [at |-> p, col |-> k.cols[p], ref |-> IF k.kind = "fk" THEN k.ref ELSE Null,
   refcol |-> IF k.kind = "fk" THEN k.refs[p] ELSE Null]
Rows(k) == {Row(k, p) : p \in DOMAIN k.cols}
OfName(cat, t, name) == {k \in cat[t].keys : k.name = name}
Listed(t, name, rows) == [name |-> name, from |-> t, rows |-> rows]

KeySet(engine, cat, t, kind) ==
  IF engine = "postgres" THEN {Joined(cat, k.name, t, ToSet(k.cols)) : k \in Keys(cat, t, kind)}
  ELSE {Listed(t, k.name, UNION {Rows(m) : m \in OfName(cat, t, k.name)}) : k \in Keys(cat, t, kind)}

\* listRelationsPostgres joins key_column_usage by name too: all constraints with
\* the name of a foreign key become one relation.
Relations(engine, cat) ==
  LET named(t) == {k.name : k \in Keys(cat, t, "fk")}
      from(n) == CHOOSE t \in Table : n \in named(t)
      cols(n) == UNION {ToSet(k.cols) : k \in Named(cat, n)}
  IN  IF engine = "postgres"
      THEN {Joined(cat, n, from(n), cols(n)) : n \in UNION {named(t) : t \in Table}}
      ELSE UNION {Declared(engine, cat, t, "fk") : t \in Table}

\* What a loop over the rows of foreign_key_list, one for each column of each key,
\* may have put together when it ends early: some keys, and one up to a column.
Cut(k, n) == [k EXCEPT !.cols = SubSeq(@, 1, n), !.refs = SubSeq(@, 1, n)]
Cuts(k) == {Cut(k, n) : n \in 1 .. Len(k.cols) - 1}
PartsOf(keys) ==
  (SUBSET keys) \cup UNION {{ks \cup {k} : k \in UNION {Cuts(m) : m \in keys \ ks}} : ks \in SUBSET keys}

-----------------------------------------------------------------------------
(* The call.                                                               *)

Goto(from, to) == pc = from /\ pc' = to

\* A query needs a live context.
Queries(from, to) == ctx = "live" /\ Goto(from, to)

\* A query that is refused, a row that does not scan, or a context that ends
\* where the loop looks for it: the call fails.
Fail ==
  /\ pc # "end"
  /\ pc' = "end" /\ answer' = "err"
  /\ UNCHANGED <<call, catalog, seen, ctx, todo, found>>

\* A loop that does not look at rows.Err takes what it got for everything.
Unchecked(all, got) ==
  \/ got = all /\ UNCHANGED ctx
  \/ got # all /\ ctx' \in {"expired", "cancelled"}

\* Each function of internal/db sets its own timer.
NewTimer(c) == IF c = "expired" THEN "live" ELSE c

\* (mutant) The loop over the columns does not look at rows.Err.
ReadColumnsUnchecked ==
  /\ Queries("columns", IF call.engine = "sqlite" THEN "pk" ELSE "keys")
  /\ \E got \in Prefixes(catalog[call.table].cols) :
       found' = [found EXCEPT !.cols = got,
                   !.flagged = IF call.engine = "sqlite" THEN PrimaryKey(catalog, call.table) ELSE {}]
  /\ UNCHANGED <<call, catalog, seen, ctx, todo, answer>>

\* DescribeTable.  A table that is not there has no columns, and no error.
ReadColumns ==
  /\ Queries("columns", IF call.engine = "sqlite" THEN "pk" ELSE "keys")
  /\ found' = [found EXCEPT !.cols = catalog[call.table].cols,
                 !.flagged = IF call.engine = "sqlite" THEN PrimaryKey(catalog, call.table) ELSE {}]
  /\ UNCHANGED <<call, catalog, seen, ctx, todo, answer>>

\* The columns of the primary key are flagged by name.
Flagged(pk) == found.flagged \cup (pk \cap ToSet(found.cols))

\* loadConstraintsPostgres and loadConstraintsMySQL: one query.
ReadKeys ==
  /\ Queries("keys", "end")
  /\ LET pk == PrimaryKey(catalog, call.table)
     IN found' = [found EXCEPT !.pk = pk, !.flagged = Flagged(pk),
                    !.uniques = KeySet(call.engine, catalog, call.table, "unique"), !.fks = KeySet(call.engine, catalog, call.table, "fk")]
  /\ answer' = "ok"
  /\ UNCHANGED <<call, catalog, seen, ctx, todo>>

\* loadConstraintsSQLite: table_info names the columns of the key.
ReadPrimaryKey ==
  /\ Queries("pk", "indexes")
  /\ found' = [found EXCEPT !.pk = PrimaryKey(catalog, call.table)]
  /\ UNCHANGED <<call, catalog, seen, ctx, todo, answer>>

ReadIndexList ==
  /\ Queries("indexes", "index")
  /\ todo' = {k.name : k \in Keys(catalog, call.table, "unique")}
  /\ UNCHANGED <<call, catalog, seen, ctx, found, answer>>

\* index_info of one unique index; this loop does not look at rows.Err.
ReadIndex ==
  /\ Queries("index", "index")
  /\ \E name \in todo :
       /\ \E got \in Prefixes(IndexCols(catalog, name)) :
            /\ Null \notin ToSet(got)
            /\ Unchecked(IndexCols(catalog, name), got)
            /\ found' = [found EXCEPT !.uniques = @ \cup {[name |-> name, cols |-> got]}]
       /\ todo' = todo \ {name}
  /\ UNCHANGED <<call, catalog, seen, answer>>

\* foreign_key_list, the last query; this loop does not look at rows.Err.
ReadForeignKeys ==
  /\ todo = {}
  /\ Queries("index", "end")
  /\ LET keys == Declared(call.engine, catalog, call.table, "fk")
     IN \E got \in PartsOf(keys) :
          /\ \A k \in got : Null \notin ToSet(k.refs)
          /\ Unchecked(keys, got)
          /\ found' = [found EXCEPT !.flagged = Flagged(found.pk), !.fks = got]
  /\ answer' = "ok"
  /\ UNCHANGED <<call, catalog, seen, todo>>

\* ListSchemas: SQLite has one schema and asks for nothing.
ReadSchemas ==
  /\ Goto("schemas", "tables")
  /\ ctx = "live" \/ call.engine = "sqlite"
  /\ ctx' = NewTimer(ctx)
  /\ UNCHANGED <<call, catalog, seen, todo, found, answer>>

ReadTables ==
  /\ Queries("tables", "relations")
  /\ found' = [found EXCEPT !.tables = TablesOf(catalog)]
  /\ UNCHANGED <<call, catalog, seen, ctx, todo, answer>>

\* Without a schema argument runInspect goes on when ListTables fails, with the
\* rows it had read by then; ListRelations has a timer of its own.
TablesFail ==
  /\ ~call.schema
  /\ Goto("tables", "relations")
  /\ \E got \in Beginnings(IF ctx = "live" THEN TablesOf(catalog) ELSE {}) :
       found' = [found EXCEPT !.tables = got]
  /\ ctx' \in IF ctx = "cancelled" THEN {"cancelled"} ELSE {"live", "cancelled"}
  /\ UNCHANGED <<call, catalog, seen, todo, answer>>

\* listRelationsPostgres and listRelationsMySQL: one query.
ReadRelations ==
  /\ call.engine # "sqlite"
  /\ Queries("relations", "end")
  /\ found' = [found EXCEPT !.relations = Relations(call.engine, catalog)]
  /\ answer' = "ok"
  /\ UNCHANGED <<call, catalog, seen, ctx, todo>>

\* listRelationsSQLite lists the tables once more, then their keys one by one.
ReadTablesAgain ==
  /\ call.engine = "sqlite"
  /\ Queries("relations", "relation")
  /\ todo' = TablesOf(catalog)
  /\ found' = [found EXCEPT !.scanned = TablesOf(catalog)]
  /\ UNCHANGED <<call, catalog, seen, ctx, answer>>

\* The next table of the loop, and what it adds; this loop does not look at
\* rows.Err.
NextTable(t) == t \in todo /\ \A u \in todo \ {t} : Earlier(t, u)

AddRelations(t) ==
  /\ LET keys == Declared(call.engine, catalog, t, "fk")
     IN \E got \in PartsOf(keys) :
          /\ \A k \in got : Null \notin ToSet(k.refs)
          /\ Unchecked(keys, got)
          /\ found' = [found EXCEPT !.relations = @ \cup got]
  /\ todo' = todo \ {t}
  /\ UNCHANGED <<call, catalog, seen, answer>>

\* (mutant) A table whose query fails is passed over.
ReadTableRelationsAnyway ==
  /\ Goto("relation", "relation")
  /\ \E t \in Table : NextTable(t) /\ AddRelations(t)

\* The query of the next table needs a live context again.
ReadTableRelations ==
  /\ Queries("relation", "relation")
  /\ \E t \in Table : NextTable(t) /\ AddRelations(t)

RelationsRead ==
  /\ todo = {}
  /\ Goto("relation", "end")
  /\ answer' = "ok"
  /\ UNCHANGED <<call, catalog, seen, ctx, todo, found>>

\* allow_tables: the tables that are permitted, and the relations with one end
\* that is.
ShownTables == found.tables \cap call.permitted
ShownRelations == {r \in found.relations : {r.from, r.ref} \cap call.permitted # {}}

Call ==
  \/ ReadColumns \/ ReadKeys
  \/ ReadPrimaryKey \/ ReadIndexList \/ ReadIndex \/ ReadForeignKeys
  \/ ReadSchemas \/ ReadTables \/ TablesFail \/ ReadRelations
  \/ ReadTablesAgain \/ ReadTableRelations \/ RelationsRead
  \/ Fail

\* The timer, or Ctrl-C.
CtxEnds ==
  /\ pc # "end" /\ ctx = "live"
  /\ ctx' \in {"expired", "cancelled"}
  /\ UNCHANGED <<call, catalog, seen, pc, todo, found, answer>>

\* Another session changes the schema.
Edit ==
  /\ pc # "end" /\ Len(seen) <= MaxEdits
  /\ catalog' \in Possible(call.engine) \ {catalog}
  /\ seen' = Append(seen, catalog')
  /\ UNCHANGED <<call, ctx, pc, todo, found, answer>>

Next == Call \/ CtxEnds \/ Edit

Spec == Init /\ [][Next]_vars

-----------------------------------------------------------------------------
(* Properties.                                                             *)

\* PostgreSQL's join pairs every column with every other one: there only the
\* sets of columns say something, and only while names tell constraints apart.
View(engine, k) ==
  IF engine = "postgres" THEN [k EXCEPT !.cols = ToSet(k.cols), !.refs = ToSet(k.refs)] ELSE k
Views(engine, ks) == {View(engine, k) : k \in ks}
ToldApart(engine, cat) == engine = "postgres" => Distinct(cat)

\* A key is read apart from every other one when no other key that is joined with it
\* has its name: in PostgreSQL none of the schema, in MySQL none of the table.
ReadApart(engine, cat, t, k) ==
  \A u \in IF engine = "postgres" THEN Table ELSE {t} :
    \A m \in cat[u].keys : m.name = k.name => u = t /\ m = k
AsDeclared(engine, t, k) ==
  IF engine = "mysql" THEN Listed(t, k.name, Rows(k))
  ELSE View(engine, [name |-> k.name, from |-> t, ref |-> k.ref, cols |-> k.cols, refs |-> k.refs])
Covers(engine, k, g) ==
  IF engine = "mysql" THEN Rows(k) \subseteq g.rows
  ELSE g.cols = ToSet(k.cols) /\ ToSet(k.refs) \subseteq g.refs

\* The keys of a kind were declared: each key has all that was declared of it, and
\* nothing else when it is read apart.
KeysAsDeclared(engine, cat, t, kind, got) ==
  /\ {g.name : g \in got} = {k.name : k \in Keys(cat, t, kind)}
  /\ \A k \in Keys(cat, t, kind) : \A g \in got :
       g.name = k.name =>
         /\ Covers(engine, k, g)
         /\ ReadApart(engine, cat, t, k) => g = AsDeclared(engine, t, k)

\* A table is described as it was: its columns, then its primary key, then its
\* other keys were declared like that at moments of the call in this order,
\* whoever changed the schema between the queries.  Two keys whose names the
\* join does not tell apart may have each other's columns beside their own.  Only
\* SQLite's foreign keys, which are read last, may stop short, and only when the
\* context ended (DescribeTable, loadConstraints).
DescribedAsItWas ==
  LET t == call.table
      e == call.engine IN
  answer = "ok" /\ call.what = "table" =>
    \E i, j, k, l \in DOMAIN seen :
      /\ i <= j /\ j <= k /\ k <= l
      /\ found.cols = seen[i][t].cols
      /\ found.pk = PrimaryKey(seen[j], t)
      /\ found.pk \cap ToSet(found.cols) \subseteq found.flagged
      /\ found.flagged \subseteq PrimaryKey(seen[i], t) \cup found.pk
      /\ IF e = "sqlite"
         THEN /\ {u.name : u \in found.uniques} = {u.name : u \in Declared(e, seen[k], t, "unique")}
              /\ \A u \in found.uniques : \E m \in k .. l : u.cols = IndexCols(seen[m], u.name)
              /\ IF ctx = "live" THEN found.fks = Declared(e, seen[l], t, "fk")
                 ELSE found.fks \in PartsOf(Declared(e, seen[l], t, "fk"))
         ELSE /\ KeysAsDeclared(e, seen[j], t, "unique", found.uniques)
              /\ KeysAsDeclared(e, seen[j], t, "fk", found.fks)

\* The last table of SQLite's loop, whose keys may stop short.
CutTable(t) == ctx # "live" /\ t \in found.scanned /\ \A u \in found.scanned \ {t} : Earlier(u, t)

\* A schema is shown as it was: the permitted tables that there were, or without
\* a schema argument perhaps only the first of them; no relation that was never
\* declared; and every permitted relation that was there all the time, but for
\* those of the last table of SQLite's loop when the context ended there
\* (runInspect, ListTables, ListRelations and the filters).
SchemaAsItWas ==
  answer = "ok" /\ call.what = "schema" => LET e == call.engine IN
    /\ \E i \in DOMAIN seen :
         LET there == TablesOf(seen[i]) \cap call.permitted
         IN IF call.schema THEN ShownTables = there ELSE ShownTables \in Beginnings(there)
    /\ \A r \in ShownRelations : \E i \in DOMAIN seen :
         ToldApart(e, seen[i]) =>
           \/ r \in Views(e, Declared(e, seen[i], r.from, "fk"))
           \/ CutTable(r.from) /\ \E d \in Declared(e, seen[i], r.from, "fk") : r \in Cuts(d)
    /\ \A t \in Table : \A d \in Declared(e, catalog, t, "fk") :
         /\ \A i \in DOMAIN seen : d \in Declared(e, seen[i], t, "fk") /\ ToldApart(e, seen[i])
         /\ {t, d.ref} \cap call.permitted # {}
         => CutTable(t) \/ View(e, d) \in ShownRelations
=============================================================================
