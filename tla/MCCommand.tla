----------------------------- MODULE MCCommand ------------------------------
(* A small instance of Command. *)
EXTENDS CommandProofs

CONSTANTS users, orders, main, spare

P(db, actions, restricts, tables, prodlike) ==
  [db |-> db, actions |-> actions, restricts |-> restricts, tables |-> tables,
   prodlike |-> prodlike]

\* The same connection name over time: wide open, narrowed and moved to another
\* database, moved to production, and a profile that finalize refuses.
SomeProfiles ==
  {P(main, Actions, FALSE, {}, FALSE),
   P(spare, {"query", "update"}, TRUE, {users}, FALSE),
   P(main, {"query", "update"}, TRUE, {users, orders}, TRUE),
   P(main, {"query", "schema"}, FALSE, {}, TRUE)}

S(action, objects) ==
  [action |-> action, objects |-> objects, unsafe |-> FALSE, multi |-> FALSE]
D(declared, stmt) == [declared |-> declared, stmt |-> stmt]

Read == S("query", {users})
Change == S("update", {users, orders})
SomeInputs ==
  {<<D("query", Read)>>, <<D("update", Change)>>, <<D("admin", S("admin", {}))>>,
   <<D("update", [Change EXCEPT !.unsafe = TRUE])>>,
   <<D("query", [Read EXCEPT !.multi = TRUE])>>,
   <<D("query", Read), D("update", Change)>>,
   <<D("update", S("update", {users})), D("update", Change)>>,
   <<D("query", Read), D("schema", S("schema", {users}))>>,
   <<D("query", S("unknown", {}))>>}

I(command, dry, dsn) == [command |-> command, dry |-> dry, dsn |-> dsn, table |-> orders]
SomeInvocations ==
  {I("query", FALSE, None), I("update", FALSE, None), I("admin", FALSE, spare),
   I("tx", FALSE, None), I("tx", TRUE, None), I("update", TRUE, None),
   I("import", FALSE, None), I("import", TRUE, None),
   I("export", FALSE, None), I("export", TRUE, None),
   I("inspect_table", FALSE, None), I("inspect_schema", FALSE, None)}

Tables == {users, orders}
Databases == {main, spare}
=============================================================================
