------------------------------ MODULE MCReads -------------------------------
(* A small instance of what a caller reads while other sessions write: the *)
(* pages of a query (QueryPage), and the schema (Inspect: customers, their *)
(* orders, and the items).  While one is read the other one rests.         *)
EXTENDS ReadsProofs

CONSTANTS customers, items, orders, a, b

Listing == <<customers, items, orders>>
All == {customers, items, orders}

K(kind, name, cols, ref, refs) == [kind |-> kind, name |-> name, cols |-> cols, ref |-> ref, refs |-> refs]
T(cols, keys) == [cols |-> cols, keys |-> keys]
NoTable == T(<<>>, {})
Pk(name, t, cols) == K("pk", name, cols, t, cols)

\* Customers with their primary key, and what keys they have beside it.
Customers(keys) == T(<<a, b>>, {Pk("cp", customers, <<b, a>>)} \cup keys)
Unique(cols) == K("unique", "cu", cols, customers, cols)
Fk(name, refs) == K("fk", name, <<a, b>>, customers, refs)
Fk1(name) == K("fk", name, <<a>>, items, <<a>>)

Base == [t \in All |->
  CASE t = customers -> Customers({Unique(<<a, b>>)})
    [] t = items -> T(<<a, b>>, {Pk("ip", items, <<a>>), Fk("if", <<b, a>>)})
    [] t = orders -> T(<<a, b>>, {Pk("op", orders, <<a>>), Fk1("oi"), Fk("of", <<a, b>>)})]

Evolved ==
  {Base,
   [Base EXCEPT ![customers] = Customers({Unique(<<b>>)}), ![orders] = NoTable],  \* another index
   [Base EXCEPT ![customers] = Customers({}), ![orders] = T(<<b>>, {})],        \* no index
   [Base EXCEPT ![customers] = Customers({Unique(<<Null>>)})],                    \* on an expression
   [Base EXCEPT ![orders] = T(<<b, a>>, {Pk("op", orders, <<b>>), Fk("if", <<a, b>>)})],  \* a name twice
   [Base EXCEPT ![orders] = T(<<a, b>>, {K("unique", "of", <<b>>, orders, <<b>>), Fk("of", <<a, b>>)})],  \* and of two kinds
   [Base EXCEPT ![orders] = T(<<a, b>>, {Fk("of", <<Null, Null>>)})]}             \* implicit parent key

C(engine, what, t, named, permitted) ==
  [engine |-> engine, what |-> what, table |-> t, schema |-> named, permitted |-> permitted]
SomeCalls ==
  {C(e, "table", t, FALSE, All) : e \in {"postgres", "mysql", "sqlite"}, t \in {customers, orders}}
  \cup {C(e, "schema", orders, s, p) :
         e \in {"postgres", "mysql", "sqlite"}, s \in BOOLEAN, p \in {All, {items}}}
=============================================================================
