---------------------------- MODULE HandlerTable ----------------------------
(* What handlers.json promises to the export tests that share it: a table    *)
(* with one descriptor per handler, into which each test puts its own in one *)
(* step, whatever the others do meanwhile.                                   *)
CONSTANT Descriptor  \* records with the handler's fqname

VARIABLE table

\* Mutant: a handler that is in the table keeps its descriptor.
PutOnce(t, d) == IF \E e \in t : e.fqname = d.fqname THEN t ELSE t \cup {d}

Put(t, d) == {e \in t : e.fqname # d.fqname} \cup {d}

Init == table = {}

Upsert(d) == table' = Put(table, d)

\* A new staging directory, a write that failed, a run that was killed while it
\* wrote.
Discard == table' = {}

Next == (\E d \in Descriptor : Upsert(d)) \/ Discard

Spec == Init /\ [][Next]_table
=============================================================================
