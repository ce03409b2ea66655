---------------------------- MODULE HandlerExport ----------------------------
(* The export tests that #[client] emits (routing/export.rs `append`): cargo *)
(* runs them in parallel, each opens the staging directory's handlers.json,  *)
(* takes the file's lock, reads the list, cuts the file to nothing and       *)
(* writes the list back with its own descriptor in place. A run can be       *)
(* killed, and a write can fail, with the file cut.                          *)
EXTENDS Naturals

CONSTANTS Handler,    \* fn items, by fqname
          Descriptor, \* records with the handler's fqname
          Builds,     \* what the builds export: functions from handlers
          Nobody

ASSUME ExportAssumption ==
  /\ \A b \in Builds : DOMAIN b \subseteq Handler
  /\ \A b \in Builds : \A h \in DOMAIN b : b[h] \in Descriptor /\ b[h].fqname = <<h>>
  /\ Nobody \notin Handler

VARIABLES file,     \* handlers.json
          lock,     \* the holder of its exclusive lock
          test,     \* where each handler's export test is
          seen,     \* the list each test read
          exported, \* the descriptors of the build whose tests run
          broken    \* history: a write of the run failed, or it was killed

exportVars == <<file, lock, test, seen, exported, broken>>

Absent == [state |-> "absent", handlers |-> {}]
Cut    == [state |-> "cut", handlers |-> {}]   \* there, with nothing in it
Torn   == [state |-> "torn", handlers |-> {}]  \* not JSON
List(hs) == [state |-> "list", handlers |-> hs]

Running == {"start", "opened", "locked", "read", "cut", "written"}
Holding == {"locked", "read", "cut", "written"}

ExportTypeOK ==
  /\ file \in [state : {"absent", "cut", "torn", "list"}, handlers : SUBSET Descriptor]
  /\ lock \in Handler \cup {Nobody}
  /\ test \in [Handler -> Running \cup {"none", "done", "failed"}]
  /\ seen \in [Handler -> SUBSET Descriptor]
  /\ exported \in Builds \cup {<<>>}
  /\ broken \in BOOLEAN

\* The list, whoever is in the middle of rewriting it.
TableOf ==
  IF \E h \in Handler : test[h] = "cut"
  THEN seen[CHOOSE h \in Handler : test[h] = "cut"]
  ELSE file.handlers

Table == INSTANCE HandlerTable WITH table <- TableOf

ExportInit ==
  /\ file = Absent /\ lock = Nobody
  /\ test = [h \in Handler |-> "none"]
  /\ seen = [h \in Handler |-> {}]
  /\ exported = <<>> /\ broken = FALSE

Quiet == \A h \in Handler : test[h] \notin Running

At(h, from, to) == test[h] = from /\ test' = [test EXCEPT ![h] = to]

\* cargo test -- export_client_: a test per annotated handler, in the staging
\* directory of the run before or in a new one.
StartTests(b, fresh) ==
  /\ Quiet
  /\ exported' = b /\ broken' = FALSE
  /\ test' = [h \in Handler |-> IF h \in DOMAIN b THEN "start" ELSE "none"]
  /\ file' = IF fresh THEN Absent ELSE file
  /\ UNCHANGED <<lock, seen>>

\* External, the recipe's mv: handlers.json leaves the directory of a run in
\* which all went well, and stays in that of another.
LeaveDirectory(moved) ==
  /\ Quiet
  /\ test' = [h \in Handler |-> "none"]
  /\ exported' = <<>> /\ broken' = FALSE
  /\ file' = IF moved THEN Absent ELSE file
  /\ UNCHANGED <<lock, seen>>

\* Mutant: the file is opened truncated.
OpenTruncated(h) ==
  /\ At(h, "start", "opened")
  /\ file' = Cut
  /\ UNCHANGED <<lock, seen, exported, broken>>

\* create_dir_all and open, which creates but does not truncate.
Open(h) ==
  /\ At(h, "start", "opened")
  /\ file' = IF file = Absent THEN Cut ELSE file
  /\ UNCHANGED <<lock, seen, exported, broken>>

\* Mutant: the lock is shared.
LockShared(h) ==
  /\ lock' = h
  /\ At(h, "opened", "locked")
  /\ UNCHANGED <<file, seen, exported, broken>>

Lock(h) ==
  /\ lock = Nobody /\ lock' = h
  /\ At(h, "opened", "locked")
  /\ UNCHANGED <<file, seen, exported, broken>>

\* Blank text is an empty list.
Read(h) ==
  /\ file # Torn
  /\ At(h, "locked", "read")
  /\ seen' = [seen EXCEPT ![h] = file.handlers]
  /\ UNCHANGED <<file, lock, exported, broken>>

\* Mutant: a list that does not parse is read again until it does.
ReadUntilWhole(h) ==
  /\ file = Torn /\ test[h] = "locked"
  /\ UNCHANGED exportVars

\* from_str fails: the file is unlocked and the test fails.
ReadFails(h) ==
  /\ file = Torn
  /\ At(h, "locked", "failed")
  /\ lock' = Nobody
  /\ UNCHANGED <<file, seen, exported, broken>>

\* set_len(0) and rewind.
Truncate(h) ==
  /\ At(h, "read", "cut")
  /\ file' = Cut
  /\ UNCHANGED <<lock, seen, exported, broken>>

\* retain, push, sort_by and write_all: sorted by a key that is unique, the
\* list is a set.
Write(h) ==
  /\ At(h, "cut", "written")
  /\ file' = List(Table!Put(seen[h], exported[h]))
  /\ seen' = [seen EXCEPT ![h] = {}]
  /\ UNCHANGED <<lock, exported, broken>>

\* A call fails that leaves the file as it is: create_dir_all, open, lock, the
\* read, set_len or unlock. The File is dropped on the way out, its lock with it.
CallFails(h) ==
  /\ test[h] \in Running \ {"cut"}
  /\ At(h, test[h], "failed")
  /\ lock' = IF lock = h THEN Nobody ELSE lock
  /\ seen' = [seen EXCEPT ![h] = {}]
  /\ UNCHANGED <<file, exported, broken>>

\* rewind fails, or write_all (no space left) with nothing or a part written.
WriteFails(h) ==
  /\ At(h, "cut", "failed")
  /\ file' \in {Cut, Torn}
  /\ seen' = [seen EXCEPT ![h] = {}]
  /\ lock' = Nobody /\ broken' = TRUE
  /\ UNCHANGED exported

Unlock(h) ==
  /\ At(h, "written", "done")
  /\ lock' = Nobody
  /\ UNCHANGED <<file, seen, exported, broken>>

\* The process of the tests ends: the locks go with it.
Kill ==
  /\ ~Quiet
  /\ test' = [h \in Handler |-> IF test[h] \in Running THEN "failed" ELSE test[h]]
  /\ file' \in {file} \cup (IF \E h \in Handler : test[h] = "cut" THEN {Torn} ELSE {})
  /\ seen' = [h \in Handler |-> {}]
  /\ lock' = Nobody /\ broken' = TRUE
  /\ UNCHANGED exported

TestStep(h) ==
  Open(h) \/ Lock(h) \/ Read(h) \/ ReadFails(h) \/ Truncate(h) \/ Write(h) \/ Unlock(h)

ExportNext ==
  \/ \E b \in Builds, fresh \in BOOLEAN : StartTests(b, fresh)
  \/ \E moved \in BOOLEAN : LeaveDirectory(moved)
  \/ \E h \in Handler : TestStep(h) \/ CallFails(h) \/ WriteFails(h)
  \/ Kill

ExportSpec == ExportInit /\ [][ExportNext]_exportVars

----------------------------------------------------------------------------

\* At most one test is between the lock and the unlock.
Exclusive ==
  \A h \in Handler : test[h] \in Holding => lock = h

\* handlers.json is the table of HandlerTable: the read, the cut and the write
\* of a test are one step as far as the others can see (export.rs:194-224).
AppendIsOneStep == [][Table!Next]_TableOf

\* No export is lost: unless a write of the run failed or it was killed, a test
\* that has passed has its handler's descriptor of this build, and no other of
\* that handler, in the list (export.rs:194-224; the tests write in parallel).
NoExportLost ==
  ~broken => \A h \in DOMAIN exported : test[h] = "done" =>
    {d \in TableOf : d.fqname = <<h>>} = {exported[h]}
=============================================================================
