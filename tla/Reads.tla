------------------------------- MODULE Reads --------------------------------
(* What a caller reads while other sessions write: the pages of a query      *)
(* (QueryPage), and the schema (Inspect).  While one is read the other one   *)
(* rests.                                                                    *)
EXTENDS QueryPage

CONSTANTS Tables, Column, Catalogs, Calls, Null, MaxEdits

VARIABLES call, catalog, looked, ctx, step, todo, found, answer

Look == INSTANCE Inspect WITH seen <- looked, pc <- step

ASSUME InspectArguments == Look!ArgumentsAreCalls

schema == <<call, catalog, looked, ctx, step, todo, found, answer>>

\* An empty table that has been read, and a call that was refused.
PageRests ==
  /\ table = <<>> /\ view = <<>> /\ rows = <<>> /\ got = <<>> /\ kept = {}
  /\ pc = "end" /\ cursor = 0 /\ seen = 0 /\ size = 0
  /\ truncated = FALSE /\ squeezed = FALSE /\ deleted = FALSE
  /\ writes = 0 /\ fails = 0
SchemaRests ==
  /\ call = CHOOSE c \in Calls : TRUE
  /\ catalog = CHOOSE c \in Catalogs : TRUE
  /\ looked = <<catalog>>
  /\ ctx = "live" /\ step = "end" /\ todo = {} /\ found = Look!Nothing /\ answer = "err"

ReadsInit == (Init /\ SchemaRests) \/ (Look!Init /\ PageRests)
ReadsNext ==
  \/ Next /\ UNCHANGED schema
  \/ Look!Next /\ UNCHANGED vars
ReadsSpec == ReadsInit /\ [][ReadsNext]_<<vars, schema>>

\* A table is described as it was (Inspect).
DescribedAsItWas == Look!DescribedAsItWas

\* A schema is shown as it was (Inspect).
SchemaAsItWas == Look!SchemaAsItWas
=============================================================================
