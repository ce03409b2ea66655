------------------------ MODULE ClientPipelineProofs ------------------------
(* For any number of handlers, sources, routers, calls and runs. First the    *)
(* export tests: handlers.json is the table of HandlerTable to those that    *)
(* share it, and no export is lost. Then the recording router: its table is  *)
(* the app. Last the pipeline: what client.ts says is what the app serves    *)
(* and the sources declare.                                                  *)
EXTENDS ClientPipeline, TLAPS, WellFoundedInduction

-----------------------------------------------------------------------------
(* The export tests. *)

\* A test under way, or passed, is of a handler of the build.
TestsOfTheBuild ==
  \A h \in Handler : test[h] \in Running \cup {"done"} =>
    exported \in Builds /\ h \in DOMAIN exported

\* What the holder of the lock has read is what is in the file, until it cuts it.
HolderOK ==
  \A h \in Handler :
    /\ test[h] = "read" => seen[h] = file.handlers
    /\ test[h] = "cut" => file = Cut

\* Only a list has descriptors in it.
FileOK == file.state # "list" => file.handlers = {}

About(hs, h) == {d \in hs : d.fqname = <<h>>}

\* NoExportLost, from the write on.
WrittenOK ==
  ~broken => \A h \in Handler : test[h] \in {"written", "done"} =>
    About(TableOf, h) = {exported[h]}

ExportInv == ExportTypeOK /\ Exclusive /\ TestsOfTheBuild /\ HolderOK /\ FileOK /\ WrittenOK

-----------------------------------------------------------------------------

\* TableOf, of any tests, lists and file.
TableIn(t, s, f) ==
  IF \E h \in Handler : t[h] = "cut"
  THEN s[CHOOSE h \in Handler : t[h] = "cut"]
  ELSE f.handlers

LEMMA TableNowAndNext == TableOf = TableIn(test, seen, file)
                         /\ TableOf' = TableIn(test', seen', file')
  BY DEF TableOf, TableIn

LEMMA WhileCut ==
  ASSUME NEW t, NEW s, NEW f, NEW h \in Handler, t[h] = "cut",
         \A g \in Handler : t[g] = "cut" => g = h
  PROVE  TableIn(t, s, f) = s[h]
  BY DEF TableIn

LEMMA Uncut ==
  ASSUME NEW t, NEW s, NEW f, \A g \in Handler : t[g] # "cut"
  PROVE  TableIn(t, s, f) = f.handlers
  BY DEF TableIn

\* A step that cuts nothing, and changes neither the list in the file nor what
\* was read by a test that has cut it, changes nothing for the others.
LEMMA SameTable ==
  ASSUME NEW t, NEW s, NEW f, NEW t2, NEW s2, NEW f2,
         \A g \in Handler : t[g] = "cut" <=> t2[g] = "cut",
         \A g \in Handler : t[g] = "cut" => s2[g] = s[g],
         f2.handlers = f.handlers
  PROVE  TableIn(t2, s2, f2) = TableIn(t, s, f)
  <1>1. CASE \E h \in Handler : t[h] = "cut"
    <2>1. (CHOOSE h \in Handler : t2[h] = "cut") = (CHOOSE h \in Handler : t[h] = "cut")
      OBVIOUS
    <2>2. (CHOOSE h \in Handler : t[h] = "cut") \in {h \in Handler : t[h] = "cut"}
      BY <1>1
    <2> QED
      BY <1>1, <2>1, <2>2 DEF TableIn
  <1>2. CASE \A h \in Handler : t[h] # "cut"
    BY <1>2 DEF TableIn
  <1> QED
    BY <1>1, <1>2

LEMMA PutIsOwn ==
  ASSUME NEW t \in SUBSET Descriptor, NEW d \in Descriptor, NEW h, d.fqname = <<h>>
  PROVE  /\ Table!Put(t, d) \in SUBSET Descriptor
         /\ About(Table!Put(t, d), h) = {d}
         /\ \A g : g # h => About(Table!Put(t, d), g) = About(t, g)
  BY DEF Table!Put, About

LEMMA Exports ==
  ASSUME TestsOfTheBuild, NEW h \in Handler, test[h] \in Running \cup {"done"}
  PROVE  exported[h] \in Descriptor /\ exported[h].fqname = <<h>>
  BY ExportAssumption DEF TestsOfTheBuild

-----------------------------------------------------------------------------

LEMMA InitInv == ExportInit => ExportInv
  <1> SUFFICES ASSUME ExportInit PROVE ExportInv
    OBVIOUS
  <1>1. ExportTypeOK /\ FileOK
    BY DEF ExportInit, ExportTypeOK, FileOK, Absent
  <1>2. \A h \in Handler : test[h] = "none"
    BY DEF ExportInit
  <1>3. Exclusive /\ HolderOK /\ WrittenOK /\ TestsOfTheBuild
    BY <1>2 DEF Exclusive, HolderOK, WrittenOK, TestsOfTheBuild, Holding, Running
  <1> QED
    BY <1>1, <1>3 DEF ExportInv

\* The table is left alone, or loses everything, or gets a descriptor of the build.
TableStep ==
  \/ TableOf' = TableOf
  \/ TableOf' = {}
  \/ \E h \in DOMAIN exported :
       /\ exported' = exported /\ exported[h] \in Descriptor
       /\ TableOf' = Table!Put(TableOf, exported[h])

\* What every step shows: the invariant is kept, and the table makes a step.
StepOK == ExportInv' /\ TableStep

LEMMA StartStep ==
  ASSUME ExportInv, NEW b \in Builds, NEW new \in BOOLEAN, StartTests(b, new)
  PROVE  StepOK
  <1>1. /\ Quiet /\ exported' = b /\ broken' = FALSE /\ UNCHANGED <<lock, seen>>
        /\ test' = [h \in Handler |-> IF h \in DOMAIN b THEN "start" ELSE "none"]
        /\ file' = IF new THEN Absent ELSE file
    BY DEF StartTests
  <1>2. \A h \in Handler : test[h] # "cut" /\ test'[h] \in {"start", "none"}
    BY <1>1 DEF Quiet, Running
  <1>3. TableOf = file.handlers /\ TableOf' = file'.handlers
    BY <1>2, TableNowAndNext, Uncut
  <1>4. TableOf' = {} \/ TableOf' = TableOf
    BY <1>1, <1>3 DEF Absent
  <1>5. ExportTypeOK' /\ FileOK'
    BY <1>1 DEF ExportInv, ExportTypeOK, FileOK, Absent, Running
  <1>6. Exclusive' /\ HolderOK' /\ WrittenOK'
    BY <1>2 DEF Exclusive, HolderOK, WrittenOK, Holding
  <1>7. TestsOfTheBuild'
    BY <1>1 DEF TestsOfTheBuild, Running
  <1> QED
    BY <1>4, <1>5, <1>6, <1>7 DEF StepOK, TableStep, ExportInv

LEMMA LeaveStep ==
  ASSUME ExportInv, NEW moved \in BOOLEAN, LeaveDirectory(moved)
  PROVE  StepOK
  <1>1. /\ Quiet /\ exported' = <<>> /\ broken' = FALSE /\ UNCHANGED <<lock, seen>>
        /\ test' = [h \in Handler |-> "none"]
        /\ file' = IF moved THEN Absent ELSE file
    BY DEF LeaveDirectory
  <1>2. \A h \in Handler : test[h] # "cut" /\ test'[h] = "none"
    BY <1>1 DEF Quiet, Running
  <1>3. TableOf = file.handlers /\ TableOf' = file'.handlers
    BY <1>2, TableNowAndNext, Uncut
  <1>4. TableOf' = {} \/ TableOf' = TableOf
    BY <1>1, <1>3 DEF Absent
  <1>5. ExportTypeOK' /\ FileOK'
    BY <1>1 DEF ExportInv, ExportTypeOK, FileOK, Absent
  <1>6. Exclusive' /\ HolderOK' /\ WrittenOK' /\ TestsOfTheBuild'
    BY <1>2 DEF Exclusive, HolderOK, WrittenOK, TestsOfTheBuild, Holding, Running
  <1> QED
    BY <1>4, <1>5, <1>6 DEF StepOK, TableStep, ExportInv

\* Steps of one test that change no list: what they leave to show.
LEMMA QuietStep ==
  ASSUME ExportInv, NEW h \in Handler, NEW from \in Running \ {"cut", "written"},
         NEW to \in {"opened", "locked", "read", "failed"}, At(h, from, to),
         file'.handlers = file.handlers, UNCHANGED <<exported, broken>>,
         \A g \in Handler : g # h => seen'[g] = seen[g]
  PROVE  TestsOfTheBuild' /\ WrittenOK' /\ TableOf' = TableOf
  <1>1. /\ test[h] = from /\ test' = [test EXCEPT ![h] = to]
        /\ test \in [Handler -> Running \cup {"none", "done", "failed"}]
    BY DEF At, ExportInv, ExportTypeOK
  <1>2. /\ \A g \in Handler : g # h => test'[g] = test[g]
        /\ test'[h] = to
    BY <1>1
  <1>3. TableOf' = TableOf
    <2>1. \A g \in Handler : test[g] = "cut" <=> test'[g] = "cut"
      BY <1>1, <1>2
    <2>2. \A g \in Handler : test[g] = "cut" => seen'[g] = seen[g]
      BY <1>1
    <2> QED
      BY <2>1, <2>2, SameTable, TableNowAndNext
  <1>4. WrittenOK'
    BY <1>2, <1>3 DEF ExportInv, WrittenOK, About
  <1>5. TestsOfTheBuild'
    BY <1>1, <1>2 DEF ExportInv, TestsOfTheBuild, Running
  <1> QED
    BY <1>3, <1>4, <1>5

LEMMA OpenStep ==
  ASSUME ExportInv, NEW h \in Handler, Open(h)
  PROVE  StepOK
  <1>1. /\ At(h, "start", "opened") /\ file' = IF file = Absent THEN Cut ELSE file
        /\ UNCHANGED <<lock, seen, exported, broken>>
    BY DEF Open
  <1>2. file'.handlers = file.handlers
    BY <1>1 DEF Absent, Cut
  <1>3. TestsOfTheBuild' /\ WrittenOK' /\ TableOf' = TableOf
    BY <1>1, <1>2, QuietStep DEF Running
  <1>4. ExportTypeOK' /\ FileOK'
    BY <1>1 DEF At, ExportInv, ExportTypeOK, FileOK, Absent, Cut, Running
  <1>5. Exclusive' /\ HolderOK'
    BY <1>1, <1>2 DEF At, ExportInv, ExportTypeOK, Exclusive, HolderOK, Holding, Absent, Cut
  <1> QED
    BY <1>3, <1>4, <1>5 DEF StepOK, TableStep, ExportInv

LEMMA LockStep ==
  ASSUME ExportInv, NEW h \in Handler, Lock(h)
  PROVE  StepOK
  <1>1. /\ At(h, "opened", "locked") /\ lock = Nobody /\ lock' = h
        /\ UNCHANGED <<file, seen, exported, broken>>
    BY DEF Lock
  <1>2. TestsOfTheBuild' /\ WrittenOK' /\ TableOf' = TableOf
    BY <1>1, QuietStep DEF Running
  <1>3. ExportTypeOK' /\ FileOK'
    BY <1>1 DEF At, ExportInv, ExportTypeOK, FileOK, Running
  <1>4. \A g \in Handler : test[g] \notin Holding
    BY <1>1, ExportAssumption DEF ExportInv, Exclusive
  <1>5. Exclusive' /\ HolderOK'
    BY <1>1, <1>4 DEF At, ExportInv, ExportTypeOK, Exclusive, HolderOK, Holding
  <1> QED
    BY <1>2, <1>3, <1>5 DEF StepOK, TableStep, ExportInv

LEMMA ReadStep ==
  ASSUME ExportInv, NEW h \in Handler, Read(h)
  PROVE  StepOK
  <1>1. /\ At(h, "locked", "read") /\ seen' = [seen EXCEPT ![h] = file.handlers]
        /\ UNCHANGED <<file, lock, exported, broken>>
    BY DEF Read
  <1>2. /\ \A g \in Handler : g # h => seen'[g] = seen[g]
        /\ seen'[h] = file.handlers
    BY <1>1 DEF ExportInv, ExportTypeOK
  <1>3. TestsOfTheBuild' /\ WrittenOK' /\ TableOf' = TableOf
    BY <1>1, <1>2, QuietStep DEF Running
  <1>4. ExportTypeOK' /\ FileOK'
    BY <1>1 DEF At, ExportInv, ExportTypeOK, FileOK, Running
  <1>5. Exclusive' /\ HolderOK'
    BY <1>1, <1>2 DEF At, ExportInv, ExportTypeOK, Exclusive, HolderOK, Holding
  <1> QED
    BY <1>3, <1>4, <1>5 DEF StepOK, TableStep, ExportInv

LEMMA ReadFailsStep ==
  ASSUME ExportInv, NEW h \in Handler, ReadFails(h)
  PROVE  StepOK
  <1>1. /\ At(h, "locked", "failed") /\ lock' = Nobody
        /\ UNCHANGED <<file, seen, exported, broken>>
    BY DEF ReadFails
  <1>2. TestsOfTheBuild' /\ WrittenOK' /\ TableOf' = TableOf
    BY <1>1, QuietStep DEF Running
  <1>3. ExportTypeOK' /\ FileOK'
    BY <1>1 DEF At, ExportInv, ExportTypeOK, FileOK, Running
  <1>4. Exclusive' /\ HolderOK'
    BY <1>1 DEF At, ExportInv, ExportTypeOK, Exclusive, HolderOK, Holding
  <1> QED
    BY <1>2, <1>3, <1>4 DEF StepOK, TableStep, ExportInv

\* The holder is the only one between the cut and the write.
LEMMA Alone ==
  ASSUME ExportInv, NEW h \in Handler, test[h] \in Holding
  PROVE  \A g \in Handler : test[g] \in Holding => g = h
  BY DEF ExportInv, Exclusive

LEMMA TruncateStep ==
  ASSUME ExportInv, NEW h \in Handler, Truncate(h)
  PROVE  StepOK
  <1>1. /\ test[h] = "read" /\ test' = [test EXCEPT ![h] = "cut"] /\ file' = Cut
        /\ UNCHANGED <<lock, seen, exported, broken>>
    BY DEF Truncate, At
  <1>2. \A g \in Handler : test[g] \in Holding => g = h
    BY <1>1, Alone DEF Holding
  <1>3. /\ test'[h] = "cut"
        /\ \A g \in Handler : g # h => test'[g] = test[g] /\ test'[g] \notin Holding
    BY <1>1, <1>2 DEF ExportInv, ExportTypeOK
  <1>4. TableOf' = seen[h]
    <2>1. TableIn(test', seen', file') = seen'[h]
      <3>1. \A g \in Handler : test'[g] = "cut" => g = h
        BY <1>3 DEF Holding
      <3> HIDE <1>1
      <3> QED
        BY <1>3, <3>1, WhileCut
    <2> QED
      BY <1>1, <2>1, TableNowAndNext
  <1>5. TableOf = file.handlers
    BY <1>1, <1>2, TableNowAndNext, Uncut DEF Holding
  <1>6. TableOf' = TableOf
    BY <1>1, <1>4, <1>5 DEF ExportInv, HolderOK
  <1>7. ExportTypeOK' /\ FileOK'
    BY <1>1 DEF ExportInv, ExportTypeOK, FileOK, Cut, Running
  <1>8. Exclusive' /\ HolderOK'
    BY <1>1, <1>3 DEF ExportInv, Exclusive, HolderOK, Holding
  <1>9. WrittenOK'
    BY <1>1, <1>3, <1>6 DEF ExportInv, WrittenOK, About
  <1>10. TestsOfTheBuild'
    BY <1>1, <1>3 DEF ExportInv, TestsOfTheBuild, Running
  <1> QED
    BY <1>6, <1>7, <1>8, <1>9, <1>10 DEF StepOK, TableStep, ExportInv

LEMMA WriteStep ==
  ASSUME ExportInv, NEW h \in Handler, Write(h)
  PROVE  StepOK
  <1>1. /\ test[h] = "cut" /\ test' = [test EXCEPT ![h] = "written"]
        /\ file' = List(Table!Put(seen[h], exported[h]))
        /\ seen' = [seen EXCEPT ![h] = {}]
        /\ UNCHANGED <<lock, exported, broken>>
    BY DEF Write, At
  <1>2. \A g \in Handler : test[g] \in Holding => g = h
    BY <1>1, Alone DEF Holding
  <1>3. /\ test'[h] = "written"
        /\ \A g \in Handler : g # h => test'[g] = test[g] /\ test'[g] \notin Holding
    BY <1>1, <1>2 DEF ExportInv, ExportTypeOK
  <1>4. /\ exported[h] \in Descriptor /\ exported[h].fqname = <<h>>
        /\ seen[h] \in SUBSET Descriptor
    BY <1>1, Exports DEF ExportInv, ExportTypeOK, Running
  <1>5. TableOf = seen[h]
    <2>1. test[h] = "cut" /\ \A g \in Handler : test[g] = "cut" => g = h
      BY <1>1, <1>2 DEF Holding
    <2>2. TableIn(test, seen, file) = seen[h]
      BY <2>1 DEF TableIn
    <2> QED
      BY <2>2, TableNowAndNext
  <1>6. TableOf' = Table!Put(seen[h], exported[h])
    <2>1. TableOf' = file'.handlers
      BY <1>3, TableNowAndNext, Uncut DEF Holding
    <2> QED
      BY <1>1, <2>1 DEF List
  <1>7. TableStep
    <2>1. h \in DOMAIN exported
      BY <1>1 DEF ExportInv, TestsOfTheBuild, Running
    <2> QED
      BY <1>1, <1>4, <1>5, <1>6, <2>1 DEF TableStep
  <1>8. ExportTypeOK' /\ FileOK'
    BY <1>1, <1>4, PutIsOwn DEF ExportInv, ExportTypeOK, FileOK, List, Running
  <1>9. Exclusive' /\ HolderOK'
    BY <1>1, <1>3 DEF ExportInv, Exclusive, HolderOK, Holding
  <1>10. WrittenOK'
    <2>1. About(TableOf', h) = {exported[h]}
      <3>1. About(Table!Put(seen[h], exported[h]), h) = {exported[h]}
        BY <1>4 DEF About, Table!Put
      <3> QED
        BY <1>6, <3>1 DEF About
    <2>2. \A g \in Handler : g # h => About(TableOf', g) = About(TableOf, g)
      BY <1>4, <1>5, <1>6, PutIsOwn
    <2> QED
      BY <1>1, <1>3, <2>1, <2>2 DEF ExportInv, WrittenOK, About
  <1>11. TestsOfTheBuild'
    BY <1>1, <1>3 DEF ExportInv, TestsOfTheBuild, Running
  <1> QED
    BY <1>7, <1>8, <1>9, <1>10, <1>11 DEF StepOK, TableStep, ExportInv

LEMMA WriteFailsStep ==
  ASSUME ExportInv, NEW h \in Handler, WriteFails(h)
  PROVE  StepOK
  <1>1. /\ test[h] = "cut" /\ test' = [test EXCEPT ![h] = "failed"] /\ file' \in {Cut, Torn}
        /\ seen' = [seen EXCEPT ![h] = {}]
        /\ lock' = Nobody /\ broken' = TRUE /\ exported' = exported
    BY DEF WriteFails, At
  <1>2. \A g \in Handler : test[g] \in Holding => g = h
    BY <1>1, Alone DEF Holding
  <1>3. /\ test'[h] = "failed"
        /\ \A g \in Handler : g # h => test'[g] = test[g] /\ test'[g] \notin Holding
    BY <1>1, <1>2 DEF ExportInv, ExportTypeOK
  <1>4. file'.handlers = {} /\ TableOf' = file'.handlers
    <2>1. \A g \in Handler : test'[g] # "cut"
      BY <1>3 DEF Holding
    <2>2. TableOf' = file'.handlers
      BY <2>1, TableNowAndNext, Uncut
    <2> QED
      BY <1>1, <2>2 DEF Cut, Torn
  <1>5. TableOf' = {}
    BY <1>4
  <1>6. ExportTypeOK' /\ FileOK'
    BY <1>1, <1>4 DEF ExportInv, ExportTypeOK, FileOK, Cut, Torn
  <1>7. Exclusive' /\ HolderOK' /\ WrittenOK'
    BY <1>1, <1>3 DEF Exclusive, HolderOK, WrittenOK, Holding
  <1>8. TestsOfTheBuild'
    BY <1>1, <1>3 DEF ExportInv, TestsOfTheBuild, Running
  <1> QED
    BY <1>5, <1>6, <1>7, <1>8 DEF StepOK, TableStep, ExportInv

LEMMA UnlockStep ==
  ASSUME ExportInv, NEW h \in Handler, Unlock(h)
  PROVE  StepOK
  <1>1. /\ test[h] = "written" /\ test' = [test EXCEPT ![h] = "done"] /\ lock' = Nobody
        /\ UNCHANGED <<file, seen, exported, broken>>
    BY DEF Unlock, At
  <1>2. \A g \in Handler : test[g] \in Holding => g = h
    BY <1>1, Alone DEF Holding
  <1>3. /\ test'[h] = "done"
        /\ \A g \in Handler : g # h => test'[g] = test[g] /\ test'[g] \notin Holding
    BY <1>1, <1>2 DEF ExportInv, ExportTypeOK
  <1>4. TableOf' = TableOf
    <2>1. \A g \in Handler : test[g] # "cut" /\ test'[g] # "cut"
      BY <1>1, <1>2, <1>3 DEF Holding
    <2>2. TableOf = file.handlers /\ TableOf' = file'.handlers
      BY <2>1, TableNowAndNext, Uncut
    <2> QED
      BY <1>1, <2>2
  <1>5. ExportTypeOK' /\ FileOK'
    BY <1>1 DEF ExportInv, ExportTypeOK, FileOK
  <1>6. Exclusive' /\ HolderOK'
    BY <1>1, <1>3 DEF Exclusive, HolderOK, Holding
  <1>7. WrittenOK'
    BY <1>1, <1>3, <1>4 DEF ExportInv, WrittenOK, About
  <1>8. TestsOfTheBuild'
    BY <1>1, <1>3 DEF ExportInv, TestsOfTheBuild, Running
  <1> QED
    BY <1>4, <1>5, <1>6, <1>7, <1>8 DEF StepOK, TableStep, ExportInv

LEMMA CallFailsStep ==
  ASSUME ExportInv, NEW h \in Handler, CallFails(h)
  PROVE  StepOK
  <1>1. /\ test[h] \in Running \ {"cut"} /\ test' = [test EXCEPT ![h] = "failed"]
        /\ lock' = IF lock = h THEN Nobody ELSE lock
        /\ seen' = [seen EXCEPT ![h] = {}]
        /\ UNCHANGED <<file, exported, broken>>
    BY DEF CallFails, At
  <1>2. /\ test'[h] = "failed"
        /\ \A g \in Handler : g # h => test'[g] = test[g] /\ seen'[g] = seen[g]
    BY <1>1 DEF ExportInv, ExportTypeOK
  <1>3. TableOf' = TableOf
    <2>1. \A g \in Handler : test[g] = "cut" <=> test'[g] = "cut"
      BY <1>1, <1>2
    <2>2. \A g \in Handler : test[g] = "cut" => seen'[g] = seen[g]
      BY <1>1, <1>2
    <2>3. file'.handlers = file.handlers
      BY <1>1
    <2> QED
      BY <2>1, <2>2, <2>3, SameTable, TableNowAndNext
  <1>4. ExportTypeOK' /\ FileOK'
    BY <1>1 DEF ExportInv, ExportTypeOK, FileOK
  <1>5. Exclusive' /\ HolderOK'
    BY <1>1, <1>2 DEF ExportInv, Exclusive, HolderOK, Holding
  <1>6. WrittenOK' /\ TestsOfTheBuild'
    BY <1>1, <1>2, <1>3 DEF ExportInv, WrittenOK, TestsOfTheBuild, About, Running
  <1> QED
    BY <1>3, <1>4, <1>5, <1>6 DEF StepOK, TableStep, ExportInv

LEMMA KillStep ==
  ASSUME ExportInv, Kill
  PROVE  StepOK
  <1>1. /\ test' = [h \in Handler |-> IF test[h] \in Running THEN "failed" ELSE test[h]]
        /\ file' \in {file} \cup (IF \E h \in Handler : test[h] = "cut" THEN {Torn} ELSE {})
        /\ seen' = [h \in Handler |-> {}]
        /\ lock' = Nobody /\ broken' = TRUE /\ exported' = exported
    BY DEF Kill
  <1>2. \A h \in Handler : test'[h] \in {"none", "done", "failed"}
    BY <1>1 DEF ExportInv, ExportTypeOK, Running
  <1>3. TableOf' = file'.handlers
    BY <1>2, TableNowAndNext, Uncut
  <1>4. TableOf' = {} \/ TableOf' = TableOf
    <2>1. CASE \E h \in Handler : test[h] = "cut"
      <3>1. file'.handlers = {}
        BY <1>1, <2>1 DEF ExportInv, HolderOK, Cut, Torn
      <3> QED
        BY <1>3, <3>1
    <2>2. CASE \A h \in Handler : test[h] # "cut"
      BY <1>1, <1>3, <2>2, TableNowAndNext, Uncut
    <2> QED
      BY <2>1, <2>2
  <1>5. ExportTypeOK' /\ FileOK'
    BY <1>1, <1>2 DEF ExportInv, ExportTypeOK, FileOK, Torn
  <1>6. Exclusive' /\ HolderOK' /\ WrittenOK'
    BY <1>1, <1>2 DEF Exclusive, HolderOK, WrittenOK, Holding
  <1>7. TestsOfTheBuild'
    BY <1>1, <1>2 DEF ExportInv, ExportTypeOK, TestsOfTheBuild, Running
  <1> QED
    BY <1>4, <1>5, <1>6, <1>7 DEF StepOK, TableStep, ExportInv

LEMMA StepInv == ExportInv /\ [ExportNext]_exportVars => StepOK
  <1> SUFFICES ASSUME ExportInv, [ExportNext]_exportVars
               PROVE  StepOK
    OBVIOUS
  <1>1. ASSUME NEW b \in Builds, NEW new \in BOOLEAN, StartTests(b, new)
        PROVE  StepOK
    BY <1>1, StartStep
  <1>2. ASSUME NEW moved \in BOOLEAN, LeaveDirectory(moved)
        PROVE  StepOK
    BY <1>2, LeaveStep
  <1>3. ASSUME NEW h \in Handler, TestStep(h)
        PROVE  StepOK
    BY <1>3, OpenStep, LockStep, ReadStep, ReadFailsStep, TruncateStep, WriteStep, UnlockStep
       DEF TestStep
  <1>4. ASSUME NEW h \in Handler, CallFails(h) \/ WriteFails(h)
        PROVE  StepOK
    BY <1>4, WriteFailsStep, CallFailsStep
  <1>5. CASE Kill
    BY <1>5, KillStep
  <1>6. CASE UNCHANGED exportVars
    BY <1>6 DEF exportVars, StepOK, TableStep, ExportInv, ExportTypeOK, Exclusive, TestsOfTheBuild, HolderOK,
                FileOK, WrittenOK, TableOf, About
  <1> QED
    BY <1>1, <1>2, <1>3, <1>4, <1>5, <1>6 DEF ExportNext

-----------------------------------------------------------------------------

\* The lock, the file and what each test has read fit together at every step.
THEOREM ExportInductive == ExportSpec => []ExportInv
  <1>1. ExportInv /\ [ExportNext]_exportVars => ExportInv'
    BY StepInv DEF StepOK
  <1> QED
    BY <1>1, InitInv, PTL DEF ExportSpec

\* At most one export test is between the lock and the unlock, and the variables
\* have their types.
THEOREM OneHolder == ExportSpec => [](ExportTypeOK /\ Exclusive)
  <1>1. ExportInv => ExportTypeOK /\ Exclusive
    BY DEF ExportInv
  <1> QED
    BY <1>1, ExportInductive, PTL

\* No export is lost: unless a write of the run failed or it was killed, a test
\* that has passed has its handler's descriptor of this build in the list, and no
\* other of that handler (export.rs:194-224).
THEOREM ExportsKept == ExportSpec => []NoExportLost
  <1>1. ExportInv => NoExportLost
    <2> SUFFICES ASSUME ExportInv, ~broken, NEW h \in DOMAIN exported, test[h] = "done"
                 PROVE  {d \in TableOf : d.fqname = <<h>>} = {exported[h]}
      BY DEF NoExportLost
    <2>1. h \in Handler
      BY ExportAssumption DEF ExportInv, ExportTypeOK
    <2> QED
      BY <2>1 DEF ExportInv, WrittenOK, About
  <1> QED
    BY <1>1, ExportInductive, PTL

\* handlers.json is the table of HandlerTable: the read, the cut and the write of
\* a test are one step as far as the others can see (export.rs:194-224).
THEOREM ExportRefines == ExportSpec => AppendIsOneStep
  <1>1. ExportInv /\ [ExportNext]_exportVars => [Table!Next]_TableOf
    BY StepInv DEF StepOK, TableStep, Table!Next, Table!Upsert, Table!Discard
  <1> QED
    BY <1>1, ExportInductive, PTL DEF ExportSpec, AppendIsOneStep

\* One descriptor for each handler.
OneEach == \A d, e \in TableOf : d.fqname = e.fqname => d = e

\* Each test of the build was started.
Started == \A h \in DOMAIN exported : test[h] # "none"

\* A failed write or a killed run leaves a failed test.
BrokenShows == broken => \E h \in Handler : test[h] = "failed"

RunOK == OneEach /\ Started /\ BrokenShows

LEMMA PutKeepsOneEach ==
  ASSUME NEW t, NEW d, \A x, y \in t : x.fqname = y.fqname => x = y
  PROVE  \A x, y \in Table!Put(t, d) : x.fqname = y.fqname => x = y
  BY DEF Table!Put

LEMMA RunInit == ExportInit => RunOK
  BY DEF ExportInit, RunOK, OneEach, Started, BrokenShows, TableOf, Absent

LEMMA RunStep == ExportInv /\ RunOK /\ [ExportNext]_exportVars => RunOK'
  <1> SUFFICES ASSUME ExportInv, RunOK, [ExportNext]_exportVars
               PROVE  RunOK'
    OBVIOUS
  <1>1. OneEach'
    <2>1. TableStep
      BY StepInv DEF StepOK
    <2> QED
      BY <2>1, PutKeepsOneEach DEF TableStep, RunOK, OneEach
  <1>2. test \in [Handler -> Running \cup {"none", "done", "failed"}]
    BY DEF ExportInv, ExportTypeOK
  <1>3. ASSUME NEW h \in Handler, NEW from, NEW to \in Running \cup {"done", "failed"},
               At(h, from, to), exported' = exported,
               broken' => broken \/ to = "failed", from \in Running
        PROVE  Started' /\ BrokenShows'
    <2>1. /\ test'[h] = to /\ test[h] = from
          /\ \A g \in Handler : g # h => test'[g] = test[g]
      BY <1>2, <1>3 DEF At
    <2>2. \A g \in DOMAIN exported : g \in Handler
      BY ExportAssumption DEF ExportInv, ExportTypeOK
    <2>3. Started'
      BY <1>3, <2>1, <2>2 DEF RunOK, Started, Running
    <2>4. BrokenShows'
      <3>1. CASE to = "failed"
        BY <2>1, <3>1 DEF BrokenShows
      <3>2. CASE ~broken'
        BY <3>2 DEF BrokenShows
      <3>3. CASE broken
        <4>1. PICK g \in Handler : test[g] = "failed"
          BY <3>3 DEF RunOK, BrokenShows
        <4>2. g # h
          BY <1>3, <2>1, <4>1 DEF Running
        <4> QED
          BY <2>1, <4>1, <4>2 DEF BrokenShows
      <3> QED
        BY <1>3, <3>1, <3>2, <3>3
    <2> QED
      BY <2>3, <2>4
  <1>4. ASSUME NEW h \in Handler, TestStep(h)
        PROVE  Started' /\ BrokenShows'
    BY <1>3, <1>4 DEF TestStep, Open, Lock, Read, ReadFails, Truncate, Write, Unlock, Running
  <1>5. ASSUME NEW h \in Handler, CallFails(h) \/ WriteFails(h)
        PROVE  Started' /\ BrokenShows'
    BY <1>3, <1>5 DEF CallFails, WriteFails, At, Running
  <1>6. CASE Kill
    <2>1. \A h \in DOMAIN exported : h \in Handler
      BY ExportAssumption DEF ExportInv, ExportTypeOK
    <2>2. /\ test' = [h \in Handler |-> IF test[h] \in Running THEN "failed" ELSE test[h]]
          /\ exported' = exported
      BY <1>6 DEF Kill
    <2>3. Started'
      BY <2>1, <2>2 DEF RunOK, Started
    <2>4. PICK h \in Handler : test[h] \in Running
      BY <1>6 DEF Kill, Quiet
    <2>5. BrokenShows'
      BY <2>2, <2>4 DEF BrokenShows
    <2> QED
      BY <1>1, <2>3, <2>5 DEF RunOK
  <1>7. ASSUME NEW b \in Builds, NEW new \in BOOLEAN, StartTests(b, new)
        PROVE  Started' /\ BrokenShows'
    BY <1>7, ExportAssumption DEF StartTests, Started, BrokenShows
  <1>8. ASSUME NEW moved \in BOOLEAN, LeaveDirectory(moved)
        PROVE  Started' /\ BrokenShows'
    BY <1>8 DEF LeaveDirectory, Started, BrokenShows
  <1>9. CASE UNCHANGED exportVars
    BY <1>1, <1>9 DEF exportVars, RunOK, Started, BrokenShows
  <1> QED
    BY <1>1, <1>4, <1>5, <1>6, <1>7, <1>8, <1>9 DEF ExportNext, RunOK

-----------------------------------------------------------------------------
(* The pipeline. *)

\* The tests of this run were started; they have passed; routes.json is this run's.
Ran ==
  \/ phase \in {"export", "routes", "generate"}
  \/ phase = "ended" /\ outcome # "CompileError"

Passed ==
  \/ phase \in {"routes", "generate"}
  \/ phase = "ended" /\ outcome \notin {"CompileError", "TestFailed"}

Joined ==
  \/ phase = "generate"
  \/ phase = "ended" /\ outcome \notin {"CompileError", "TestFailed"}

SourceOK == Ran => source \in Source /\ exported = ExportedBy(source)

PassedOK == Passed => Quiet /\ ~broken /\ \A h \in DOMAIN exported : test[h] = "done"

\* In a new directory the list has nothing but this build's.
FreshOK == fresh /\ Ran => TableOf \subseteq {exported[h] : h \in DOMAIN exported}

JoinedOK == Joined => ~refused /\ routes = manifest[App]

ResultOK ==
  phase = "ended" =>
    /\ outcome = "Unreadable" => file.state # "list"
    /\ outcome = "HandlerWithoutRoute" => outcome \in Refusals(routes, file.handlers)
    /\ outcome = "Generated" =>
         Refusals(routes, file.handlers) = {} /\ client.fns = Fns(routes, file.handlers)

PipeOK == SourceOK /\ PassedOK /\ FreshOK /\ JoinedOK /\ ResultOK

LEMMA BuildOf ==
  ASSUME NEW s \in Source, Compiles(s)
  PROVE  /\ ExportedBy(s) \in Builds
         /\ DOMAIN ExportedBy(s) = Annotated(s) /\ Annotated(s) \subseteq Handler
         /\ \A h \in Annotated(s) : ExportedBy(s)[h] = DescriptorOf(h, s[h])
  BY PipelineAssumption DEF ExportedBy, Annotated

\* To the tests, a step of the pipeline is a step of their own or none.
LEMMA ExportsAdvance == [PipelineNext]_vars => [ExportNext]_exportVars
  <1> SUFFICES ASSUME [PipelineNext]_vars
               PROVE  [ExportNext]_exportVars
    OBVIOUS
  <1>1. CASE Compile
    BY <1>1, BuildOf DEF Compile, ExportNext
  <1>2. ASSUME NEW h \in Handler, ExportTest(h) \/ TestFails(h)
        PROVE  ExportNext
    BY <1>2 DEF ExportTest, TestFails, Exporting, ExportNext
  <1>3. CASE KillTests
    BY <1>3 DEF KillTests, ExportNext
  <1>4. CASE ExportEnds \/ Build \/ WriteManifest \/ Generate
    BY <1>4 DEF ExportEnds, Build, WriteManifest, Generate
  <1>5. CASE Leave
    BY <1>5 DEF Leave, ExportNext
  <1>6. CASE UNCHANGED vars
    BY <1>6 DEF vars, exportVars
  <1> QED
    BY <1>1, <1>2, <1>3, <1>4, <1>5, <1>6 DEF PipelineNext

LEMMA QuietTable ==
  ASSUME Quiet
  PROVE  TableOf = file.handlers
  BY Uncut, TableNowAndNext DEF Quiet, Running

LEMMA CompileStep ==
  ASSUME Compile, PipeOK, ExportInv
  PROVE  PipeOK'
  <1>1. PICK s \in Source, new \in BOOLEAN :
          /\ source' = s /\ fresh' = new
          /\ IF Compiles(s)
             THEN StartTests(ExportedBy(s), new) /\ phase' = "export"
             ELSE End("CompileError")
    BY DEF Compile
  <1>2. CASE ~Compiles(s)
    <2>1. phase' = "ended" /\ outcome' = "CompileError"
      BY <1>1, <1>2 DEF End
    <2> QED
      BY <2>1 DEF PipeOK, SourceOK, PassedOK, FreshOK, JoinedOK, ResultOK, Ran, Passed, Joined
  <1>3. CASE Compiles(s)
    <2>1. /\ phase' = "export" /\ exported' = ExportedBy(s)
          /\ test' = [h \in Handler |-> IF h \in DOMAIN ExportedBy(s) THEN "start" ELSE "none"]
          /\ file' = IF new THEN Absent ELSE file
      BY <1>1, <1>3 DEF StartTests
    <2>2. SourceOK' /\ PassedOK' /\ JoinedOK' /\ ResultOK'
      BY <1>1, <2>1 DEF SourceOK, PassedOK, JoinedOK, ResultOK, Passed, Joined
    <2>3. FreshOK'
      <3>1. \A h \in Handler : test'[h] # "cut"
        BY <2>1
      <3>2. TableOf' = file'.handlers
        BY <3>1, Uncut, TableNowAndNext
      <3> QED
        BY <1>1, <2>1, <3>2 DEF FreshOK, Absent
    <2> QED
      BY <2>2, <2>3 DEF PipeOK
  <1> QED
    BY <1>2, <1>3

LEMMA ExportingStep ==
  ASSUME PipeOK, ExportInv, phase = "export", UNCHANGED <<routeVars, runVars>>,
         \/ \E h \in Handler : TestStep(h) \/ CallFails(h) \/ WriteFails(h)
         \/ Kill
  PROVE  PipeOK'
  <1>1. phase' = "export" /\ UNCHANGED <<source, fresh>>
    BY DEF runVars
  <1>2. exported' = exported
    BY DEF TestStep, Open, Lock, Read, ReadFails, Truncate, Write, Unlock, CallFails, WriteFails, Kill
  <1>3. SourceOK' /\ PassedOK' /\ JoinedOK' /\ ResultOK'
    BY <1>1, <1>2 DEF PipeOK, SourceOK, PassedOK, JoinedOK, ResultOK, Ran, Passed, Joined
  <1>4. TableStep
    BY StepInv DEF ExportNext, StepOK
  <1>5. FreshOK'
    BY <1>1, <1>2, <1>4 DEF PipeOK, FreshOK, TableStep, Table!Put, Ran
  <1> QED
    BY <1>3, <1>5 DEF PipeOK

LEMMA SameExports ==
  ASSUME UNCHANGED exportVars
  PROVE  /\ TableOf' = TableOf /\ exported' = exported /\ test' = test /\ file' = file
         /\ ~broken => ~broken'
         /\ Quiet => Quiet'
  BY DEF exportVars, TableOf, Quiet

LEMMA ExportEndsStep ==
  ASSUME PipeOK, ExportInv, RunOK, ExportEnds
  PROVE  PipeOK'
  <1>1. /\ phase = "export" /\ Quiet /\ UNCHANGED <<source, fresh>>
        /\ UNCHANGED exportVars
        /\ IF \E h \in Handler : test[h] = "failed" THEN End("TestFailed") ELSE phase' = "routes"
    BY DEF ExportEnds
  <1>2. phase' = "routes" \/ (phase' = "ended" /\ outcome' = "TestFailed")
    BY <1>1 DEF End
  <1>3. SourceOK' /\ FreshOK' /\ JoinedOK' /\ ResultOK'
    BY <1>1, <1>2, SameExports DEF PipeOK, SourceOK, FreshOK, JoinedOK, ResultOK, Ran, Joined
  <1>4. PassedOK'
    <2>1. CASE phase' = "ended" /\ outcome' = "TestFailed"
      BY <2>1 DEF PassedOK, Passed
    <2>2. CASE phase' = "routes"
      <3>1. \A h \in Handler : test[h] # "failed"
        BY <1>1, <2>2 DEF End
      <3>2. ~broken
        BY <3>1 DEF RunOK, BrokenShows
      <3>3. \A h \in DOMAIN exported : h \in Handler
        BY ExportAssumption DEF ExportInv, ExportTypeOK
      <3>4. \A h \in DOMAIN exported : test[h] = "done"
        BY <1>1, <3>1, <3>3 DEF RunOK, Started, Quiet, ExportInv, ExportTypeOK
      <3> QED
        BY <1>1, <3>2, <3>4, SameExports DEF PassedOK
    <2> QED
      BY <1>2, <2>1, <2>2
  <1> QED
    BY <1>3, <1>4 DEF PipeOK

LEMMA BuildStep ==
  ASSUME PipeOK, Build
  PROVE  PipeOK'
  <1>1. phase' = "routes" /\ UNCHANGED <<source, fresh>> /\ phase = "routes" /\ UNCHANGED exportVars
    BY DEF Build, runVars
  <1>2. SourceOK' /\ FreshOK' /\ PassedOK'
    BY <1>1, SameExports DEF PipeOK, SourceOK, FreshOK, PassedOK, Ran, Passed
  <1>3. JoinedOK' /\ ResultOK'
    BY <1>1 DEF JoinedOK, ResultOK, Joined
  <1> QED
    BY <1>2, <1>3 DEF PipeOK

LEMMA WriteManifestStep ==
  ASSUME PipeOK, WriteManifest
  PROVE  PipeOK'
  <1>1. /\ phase = "routes" /\ UNCHANGED <<source, fresh>> /\ UNCHANGED exportVars
        /\ UNCHANGED routeVars
    BY DEF WriteManifest
  <1>2. SourceOK' /\ FreshOK'
    <2>1. Ran
      BY <1>1 DEF Ran
    <2> QED
      BY <1>1, <2>1, SameExports DEF PipeOK, SourceOK, FreshOK
  <1>3. CASE refused
    <2>1. phase' = "ended" /\ outcome' = "TestFailed"
      BY <1>3 DEF WriteManifest, End
    <2> QED
      BY <1>2, <2>1 DEF PipeOK, PassedOK, JoinedOK, ResultOK, Passed, Joined
  <1>4. CASE ~refused
    <2>1. phase' = "generate" /\ routes' = manifest[App]
      BY <1>4 DEF WriteManifest
    <2>2. PassedOK'
      BY <1>1, SameExports DEF PipeOK, PassedOK, Passed
    <2>3. JoinedOK' /\ ResultOK'
      BY <1>1, <1>4, <2>1 DEF JoinedOK, ResultOK, routeVars
    <2> QED
      BY <1>2, <2>2, <2>3 DEF PipeOK
  <1> QED
    BY <1>3, <1>4

LEMMA RefusalsAre ==
  ASSUME NEW rs, NEW hs, NEW e \in Refusals(rs, hs)
  PROVE  e \in {"HandlerMountedTwice", "RouteWithoutHandler", "HandlerWithoutRoute",
                "Shape", "NameClash"}
  BY DEF Refusals

LEMMA GenerateStep ==
  ASSUME PipeOK, Generate
  PROVE  PipeOK'
  <1>1. /\ phase = "generate" /\ UNCHANGED <<source, fresh, routes>> /\ UNCHANGED exportVars
        /\ UNCHANGED routeVars
    BY DEF Generate
  <1>2. SourceOK' /\ FreshOK' /\ PassedOK'
    <2>1. Ran /\ Passed
      BY <1>1 DEF Ran, Passed
    <2> QED
      BY <1>1, <2>1, SameExports DEF PipeOK, SourceOK, FreshOK, PassedOK
  <1>3. JoinedOK'
    <2>1. Joined
      BY <1>1 DEF Joined
    <2> QED
      BY <1>1, <2>1 DEF PipeOK, JoinedOK, routeVars
  <1>4. ResultOK'
    <2>1. CASE file.state # "list"
      <3>1. outcome' = "Unreadable" /\ file' = file
        BY <1>1, <2>1 DEF Generate, End, exportVars
      <3> QED
        BY <2>1, <3>1 DEF ResultOK
    <2>2. CASE file.state = "list" /\ Refusals(routes, file.handlers) # {}
      <3>1. outcome' \in Refusals(routes, file.handlers) /\ file' = file /\ routes' = routes
        BY <1>1, <2>2 DEF Generate, End, exportVars
      <3>2. outcome' \notin {"Unreadable", "Generated"}
        BY <3>1, RefusalsAre
      <3> QED
        BY <3>1, <3>2 DEF ResultOK
    <2>3. CASE file.state = "list" /\ Refusals(routes, file.handlers) = {}
      <3>1. /\ outcome' = "Generated" /\ file' = file /\ routes' = routes
            /\ client'.fns = Fns(routes, file.handlers)
        BY <1>1, <2>3 DEF Generate, End, exportVars
      <3> QED
        BY <2>3, <3>1 DEF ResultOK
    <2> QED
      BY <2>1, <2>2, <2>3
  <1> QED
    BY <1>2, <1>3, <1>4 DEF PipeOK

LEMMA PipeInit == PipelineInit => PipeOK
  BY DEF PipelineInit, PipeOK, SourceOK, PassedOK, FreshOK, JoinedOK, ResultOK, Ran, Passed, Joined

LEMMA PipeStep == ExportInv /\ RunOK /\ PipeOK /\ [PipelineNext]_vars => PipeOK'
  <1> SUFFICES ASSUME ExportInv, RunOK, PipeOK, [PipelineNext]_vars
               PROVE  PipeOK'
    OBVIOUS
  <1>1. ASSUME NEW h \in Handler, ExportTest(h) \/ TestFails(h)
        PROVE  PipeOK'
    BY <1>1, ExportingStep DEF ExportTest, TestFails, Exporting
  <1>2. CASE KillTests
    BY <1>2, ExportingStep DEF KillTests
  <1>3. CASE Leave
    <2>1. phase' = "idle"
      BY <1>3 DEF Leave
    <2> QED
      BY <2>1 DEF PipeOK, SourceOK, PassedOK, FreshOK, JoinedOK, ResultOK, Ran, Passed, Joined
  <1>4. CASE UNCHANGED vars
    <2>1. UNCHANGED exportVars /\ UNCHANGED runVars /\ UNCHANGED routeVars
      BY <1>4 DEF vars
    <2> QED
      BY <2>1, SameExports DEF runVars, routeVars, PipeOK, SourceOK, PassedOK, FreshOK, JoinedOK,
                               ResultOK, Ran, Passed, Joined
  <1> QED
    BY <1>1, <1>2, <1>3, <1>4, CompileStep, ExportEndsStep, BuildStep, WriteManifestStep,
       GenerateStep DEF PipelineNext

-----------------------------------------------------------------------------
(* What the join is of. *)

\* A run that generated: no refusal, a function for each descriptor in the file.
LEMMA WhenGenerated ==
  ASSUME ExportInv, RunOK, PipeOK, Generated
  PROVE  /\ source \in Source /\ exported = ExportedBy(source)
         /\ Refusals(routes, file.handlers) = {} /\ client.fns = Fns(routes, file.handlers)
         /\ ~refused /\ routes = manifest[App]
         /\ TableOf = file.handlers
  <1>1. /\ phase = "ended" /\ outcome = "Generated" /\ Ran /\ Passed /\ Joined
    BY DEF Generated, Ran, Passed, Joined
  <1> QED
    BY <1>1, QuietTable DEF PipeOK, SourceOK, PassedOK, JoinedOK, ResultOK

\* A descriptor of the build, in a build that passed.
LEMMA InTheList ==
  ASSUME ExportInv, PipeOK, Passed, NEW h \in DOMAIN exported
  PROVE  /\ h \in Handler
         /\ About(file.handlers, h) = {exported[h]} /\ exported[h] \in file.handlers
  <1>1. /\ Quiet /\ ~broken /\ test[h] = "done"
    BY DEF PipeOK, PassedOK
  <1>2. h \in Handler
    BY ExportAssumption DEF ExportInv, ExportTypeOK
  <1> QED
    BY <1>1, <1>2, QuietTable DEF ExportInv, WrittenOK, About

LEMMA NotRefused ==
  ASSUME NEW rs, NEW hs, Refusals(rs, hs) = {}
  PROVE  /\ ~MountedTwice(rs) /\ ~NameClash(hs)
         /\ \A reg \in Elements(rs) : Include(reg) => Described(reg, hs)
         /\ \A d \in hs : IsMounted(d, rs) /\ PlanOk(RegOf(d, rs), d)
  BY DEF Refusals

LEMMA RegOfIs ==
  ASSUME NEW rs, NEW d, IsMounted(d, rs)
  PROVE  RegOf(d, rs) \in Elements(rs) /\ RegOf(d, rs).fqname = d.fqname
  BY DEF IsMounted, RegOf

LEMMA OneReg ==
  ASSUME NEW rs, ~MountedTwice(rs), NEW x \in Elements(rs), NEW y \in Elements(rs),
         x.fqname = y.fqname
  PROVE  x = y
  BY DEF MountedTwice, Elements

LEMMA FnIs ==
  ASSUME NEW reg, NEW d
  PROVE  LET f == FnOf(reg, d) IN
         /\ f.fqname = d.fqname /\ f.ts = TsName(d) /\ f.method = reg.method
         /\ f.url = Url(reg.path) /\ f.response = d.response
         /\ f.params = IF reg.params = <<>> THEN <<>> ELSE Typed(reg.params, PathArgs(d)[1])
         /\ f.rest = Rest(d)
  BY DEF FnOf

LEMMA Coverage ==
  ASSUME ExportInv, RunOK, PipeOK
  PROVE  ClientCoversTheApi
  <1> SUFFICES ASSUME Generated
               PROVE  /\ \A i \in DOMAIN manifest[App] : Include(manifest[App][i]) =>
                           \E f \in client.fns : f.fqname = manifest[App][i].fqname
                                                 /\ f.url = Url(manifest[App][i].path)
                      /\ \A f, g \in client.fns : f # g => f.ts # g.ts /\ f.fqname # g.fqname
    BY DEF ClientCoversTheApi
  <1> DEFINE hs == file.handlers
             rs == manifest[App]
  <1>1. client.fns = Fns(rs, hs) /\ Refusals(rs, hs) = {} /\ TableOf = hs
    BY WhenGenerated
  <1>2. ASSUME NEW i \in DOMAIN rs, Include(rs[i])
        PROVE  \E f \in client.fns : f.fqname = rs[i].fqname /\ f.url = Url(rs[i].path)
    <2>1. rs[i] \in Elements(rs)
      BY DEF Elements
    <2>2. PICK d \in hs : d.fqname = rs[i].fqname
      BY <1>1, <1>2, <2>1, NotRefused DEF Described
    <2>3. RegOf(d, rs) = rs[i]
      BY <1>1, <2>1, <2>2, NotRefused, RegOfIs, OneReg
    <2>4. FnOf(rs[i], d) \in client.fns
      BY <1>1, <2>2, <2>3 DEF Fns
    <2> QED
      BY <2>2, <2>4, FnIs
  <1>3. ASSUME NEW f \in client.fns, NEW g \in client.fns, f # g
        PROVE  f.ts # g.ts /\ f.fqname # g.fqname
    <2>1. PICK d \in hs : f = FnOf(RegOf(d, rs), d)
      BY <1>1 DEF Fns
    <2>2. PICK e \in hs : g = FnOf(RegOf(e, rs), e)
      BY <1>1 DEF Fns
    <2>3. d # e
      BY <1>3, <2>1, <2>2
    <2>4. d.fqname # e.fqname
      BY <1>1, <2>3 DEF RunOK, OneEach
    <2>5. TsName(d) # TsName(e)
      BY <1>1, <2>4, NotRefused DEF NameClash
    <2> QED
      BY <2>1, <2>2, <2>4, <2>5, FnIs
  <1> QED
    BY <1>2, <1>3

LEMMA Exactness ==
  ASSUME ExportInv, RunOK, PipeOK
  PROVE  NewDirectoryIsExact
  <1> SUFFICES ASSUME fresh, phase = "ended"
               PROVE  /\ outcome = "Generated" =>
                           {f.fqname : f \in client.fns} = {<<h>> : h \in Annotated(source)}
                      /\ outcome = "HandlerWithoutRoute" =>
                           \E h \in Annotated(source) :
                             \A i \in DOMAIN routes : routes[i].fqname # <<h>>
                      /\ outcome = "Unreadable" => Annotated(source) = {}
    BY DEF NewDirectoryIsExact
  <1>1. CASE outcome \notin {"Generated", "HandlerWithoutRoute", "Unreadable"}
    BY <1>1
  <1>2. CASE outcome \in {"Generated", "HandlerWithoutRoute", "Unreadable"}
    <2>1. Ran /\ Passed
      BY <1>2 DEF Ran, Passed
    <2>2. /\ Quiet /\ TableOf = file.handlers
          /\ exported = ExportedBy(source)
          /\ file.handlers \subseteq {exported[h] : h \in DOMAIN exported}
      BY <2>1, QuietTable DEF PipeOK, PassedOK, SourceOK, FreshOK
    <2>3. DOMAIN exported = Annotated(source)
      BY <2>2 DEF ExportedBy
    <2>4. \A h \in Annotated(source) : exported[h] \in file.handlers /\ exported[h].fqname = <<h>>
      <3> TAKE h \in Annotated(source)
      <3>1. About(file.handlers, h) = {exported[h]} /\ exported[h] \in file.handlers
        BY <2>1, <2>3, InTheList
      <3> QED
        BY <3>1 DEF About
    <2>5. CASE outcome = "Generated"
      <3>1. client.fns = Fns(routes, file.handlers)
        BY <2>5 DEF PipeOK, ResultOK
      <3>2. ASSUME NEW f \in client.fns
            PROVE  \E h \in Annotated(source) : f.fqname = <<h>>
        <4>1. PICK d \in file.handlers : f = FnOf(RegOf(d, routes), d)
          BY <3>1 DEF Fns
        <4> QED
          BY <2>2, <2>3, <2>4, <4>1, FnIs
      <3>3. ASSUME NEW h \in Annotated(source)
            PROVE  \E f \in client.fns : f.fqname = <<h>>
        <4>1. FnOf(RegOf(exported[h], routes), exported[h]) \in client.fns
          BY <2>4, <3>1 DEF Fns
        <4> QED
          BY <2>4, <4>1, FnIs
      <3>4. {f.fqname : f \in client.fns} = {<<h>> : h \in Annotated(source)}
        BY <3>2, <3>3
      <3> QED
        BY <2>5, <3>4
    <2>6. CASE outcome = "HandlerWithoutRoute"
      <3>1. outcome \in Refusals(routes, file.handlers)
        BY <2>6 DEF PipeOK, ResultOK
      <3>2. PICK d \in file.handlers : ~IsMounted(d, routes)
        BY <2>6, <3>1 DEF Refusals
      <3>3. PICK h \in Annotated(source) : d = exported[h]
        BY <2>2, <2>3
      <3>4. \A i \in DOMAIN routes : routes[i].fqname # <<h>>
        BY <2>4, <3>2, <3>3 DEF IsMounted, Elements
      <3> QED
        BY <2>6, <3>4
    <2>7. CASE outcome = "Unreadable"
      <3>1. file.handlers = {}
        BY <2>7 DEF PipeOK, ResultOK, ExportInv, FileOK
      <3> QED
        BY <2>4, <2>7, <3>1
    <2> QED
      BY <1>2, <2>5, <2>6, <2>7
  <1> QED
    BY <1>1, <1>2

-----------------------------------------------------------------------------
(* The parameters of a path. *)

LEMMA LeastOf ==
  ASSUME NEW T \in SUBSET Nat, T # {}
  PROVE  \E n \in T : \A m \in T : n <= m
  <1>1. PICK x \in T : \A y \in T : ~ (<<y, x>> \in OpToRel(<, Nat))
    BY NatLessThanWellFounded, WFMin, Zenon
  <1>2. \A y \in T : ~ (y < x)
    <2> TAKE y \in T
    <2>1. <<y, x>> \in Nat \X Nat /\ <<y, x>>[1] = y /\ <<y, x>>[2] = x
      OBVIOUS
    <2>2. y < x => <<y, x>> \in OpToRel(<, Nat)
      BY <2>1, Zenon DEF OpToRel
    <2> QED
      BY <1>1, <2>2
  <1> QED
    BY <1>2

\* Induction, over the set of the numbers that satisfy what is to be shown.
LEMMA InductionOverNat ==
  ASSUME NEW T \in SUBSET Nat, 0 \in T, \A n \in T : n + 1 \in T
  PROVE  T = Nat
  <1> SUFFICES ASSUME T # Nat PROVE FALSE
    OBVIOUS
  <1>1. PICK n \in Nat \ T : \A m \in Nat \ T : n <= m
    <2>1. Nat \ T \in SUBSET Nat /\ Nat \ T # {}
      OBVIOUS
    <2> QED
      BY <2>1, LeastOf
  <1>2. n # 0 /\ n - 1 \in T
    BY <1>1
  <1> QED
    BY <1>1, <1>2

\* The body of ParamsUpTo.
ParamsNext(names, path, n) ==
  IF n = 0 THEN <<>>
  ELSE IF IsParam(path[n]) THEN Append(names[n-1], ParamName[path[n]])
  ELSE names[n-1]

LEMMA ParamsUnfold ==
  ASSUME NEW path, Len(path) \in Nat
  PROVE  ParamsUpTo(path) = [n \in 0..Len(path) |-> ParamsNext(ParamsUpTo(path), path, n)]
  <1> DEFINE T == {k \in Nat : \E f : f = [n \in 0..k |-> ParamsNext(f, path, n)]}
  <1>1. 0 \in T
    <2>1. [n \in 0..0 |-> <<>>] = [m \in 0..0 |-> ParamsNext([n \in 0..0 |-> <<>>], path, m)]
      BY DEF ParamsNext
    <2> QED
      BY <2>1
  <1>2. ASSUME NEW k \in T PROVE k + 1 \in T
    <2>1. PICK f : f = [n \in 0..k |-> ParamsNext(f, path, n)]
      OBVIOUS
    <2> DEFINE g == [n \in 0..k+1 |-> IF n = k + 1 THEN ParamsNext(f, path, n) ELSE f[n]]
    <2>2. \A n \in 0..k+1 : n # 0 => g[n-1] = f[n-1]
      <3>1. \A n \in 0..k+1 : n # 0 => n - 1 \in 0..k+1 /\ n - 1 # k + 1
        OBVIOUS
      <3> QED
        BY <3>1
    <2>3. \A n \in 0..k+1 : ParamsNext(g, path, n) = ParamsNext(f, path, n)
      BY <2>2 DEF ParamsNext
    <2>4. \A n \in 0..k+1 : g[n] = ParamsNext(g, path, n)
      <3> TAKE n \in 0..k+1
      <3>1. g[n] = IF n = k + 1 THEN ParamsNext(f, path, n) ELSE f[n]
        OBVIOUS
      <3>2. n # k + 1 => f[n] = ParamsNext(f, path, n)
        BY <2>1
      <3> HIDE DEF g
      <3> QED
        BY <3>1, <3>2, <2>3
    <2>5. g = [n \in 0..k+1 |-> ParamsNext(g, path, n)]
      BY <2>4
    <2> HIDE DEF g
    <2> QED
      BY <2>5
  <1> HIDE DEF T
  <1>3. Len(path) \in T
    <2>1. T \in SUBSET Nat
      BY DEF T
    <2> QED
      BY <1>1, <1>2, <2>1, InductionOverNat
  <1>4. ParamsUpTo(path) = CHOOSE f : f = [n \in 0..Len(path) |-> ParamsNext(f, path, n)]
    BY DEF ParamsUpTo, ParamsNext
  <1> QED
    BY <1>3, <1>4 DEF T

LEMMA ParamsAt ==
  ASSUME NEW path \in Seq(Segment)
  PROVE  /\ ParamsUpTo(path)[0] = <<>>
         /\ \A n \in 1..Len(path) :
              ParamsUpTo(path)[n] = IF IsParam(path[n])
                                    THEN Append(ParamsUpTo(path)[n-1], ParamName[path[n]])
                                    ELSE ParamsUpTo(path)[n-1]
  <1>1. Len(path) \in Nat
    OBVIOUS
  <1>2. \A n \in 0..Len(path) : ParamsUpTo(path)[n] = ParamsNext(ParamsUpTo(path), path, n)
    BY <1>1, ParamsUnfold
  <1> QED
    BY <1>1, <1>2 DEF ParamsNext

\* The names of the first n segments' parameters, and where each comes from.
ParamNames == {ParamName[s] : s \in DOMAIN ParamName}

ParamsIn(path, n) == {i \in 1..n : IsParam(path[i])}

Comes(names, path, n, at) ==
  /\ at \in [DOMAIN names -> ParamsIn(path, n)]
  /\ \A j, k \in DOMAIN names : j < k => at[j] < at[k]
  /\ \A i \in ParamsIn(path, n) : \E k \in DOMAIN names : at[k] = i
  /\ \A k \in DOMAIN names : names[k] = ParamName[path[at[k]]]

LEMMA ComesNext ==
  ASSUME NEW names \in Seq(ParamNames), NEW path \in Seq(Segment), NEW n \in Nat, NEW at,
         Comes(names, path, n, at), n + 1 <= Len(path), IsParam(path[n+1])
  PROVE  LET new == Append(names, ParamName[path[n+1]]) IN
         /\ new \in Seq(ParamNames)
         /\ \E more : Comes(new, path, n + 1, more)
  <1> DEFINE new  == Append(names, ParamName[path[n+1]])
             more == [k \in 1..Len(names)+1 |-> IF k = Len(names) + 1 THEN n + 1 ELSE at[k]]
  <1>1. ParamName[path[n+1]] \in ParamNames
    BY DEF IsParam, ParamNames
  <1>2. /\ new \in Seq(ParamNames) /\ DOMAIN new = 1..Len(names)+1 /\ Len(names) \in Nat
        /\ DOMAIN names = 1..Len(names)
        /\ \A k \in 1..Len(names) : new[k] = names[k]
        /\ new[Len(names)+1] = ParamName[path[n+1]]
    BY <1>1
  <1> HIDE DEF new
  <1>3. /\ \A k \in DOMAIN names : at[k] \in ParamsIn(path, n) /\ at[k] \in 1..n
        /\ ParamsIn(path, n + 1) = ParamsIn(path, n) \cup {n + 1}
    BY DEF Comes, ParamsIn
  <1>4. /\ \A k \in 1..Len(names) : more[k] = at[k]
        /\ more[Len(names)+1] = n + 1 /\ DOMAIN more = 1..Len(names)+1
    BY <1>2
  <1>5. more \in [DOMAIN new -> ParamsIn(path, n + 1)]
    BY <1>2, <1>3
  <1> HIDE DEF more
  <1>6. \A j, k \in DOMAIN new : j < k => more[j] < more[k]
    <2> TAKE j, k \in DOMAIN new
    <2> HAVE j < k
    <2>1. j \in 1..Len(names) /\ more[j] = at[j] /\ at[j] \in 1..n
      BY <1>2, <1>3, <1>4
    <2>2. CASE k = Len(names) + 1
      BY <1>4, <2>1, <2>2
    <2>3. CASE k \in 1..Len(names)
      BY <1>2, <1>4, <2>1, <2>3 DEF Comes
    <2> QED
      BY <1>2, <2>2, <2>3
  <1>7. \A i \in ParamsIn(path, n + 1) : \E k \in DOMAIN new : more[k] = i
    <2> TAKE i \in ParamsIn(path, n + 1)
    <2>1. CASE i = n + 1
      BY <1>2, <1>4, <2>1
    <2>2. CASE i \in ParamsIn(path, n)
      <3>1. PICK k \in DOMAIN names : at[k] = i
        BY <2>2 DEF Comes
      <3> QED
        BY <1>2, <1>4, <3>1
    <2> QED
      BY <1>3, <2>1, <2>2
  <1>8. \A k \in DOMAIN new : new[k] = ParamName[path[more[k]]]
    BY <1>2, <1>4 DEF Comes
  <1>9. Comes(new, path, n + 1, more)
    BY <1>5, <1>6, <1>7, <1>8 DEF Comes
  <1> QED
    BY <1>2, <1>9 DEF new

LEMMA ParamsUpToOK ==
  ASSUME NEW path \in Seq(Segment)
  PROVE  \A n \in 0..Len(path) :
           /\ ParamsUpTo(path)[n] \in Seq(ParamNames)
           /\ \E at : Comes(ParamsUpTo(path)[n], path, n, at)
  <1> DEFINE P == ParamsUpTo(path)
             T == {n \in Nat : n <= Len(path) =>
                     P[n] \in Seq(ParamNames) /\ \E at : Comes(P[n], path, n, at)}
  <1>1. Len(path) \in Nat
    OBVIOUS
  <1>2. 0 \in T
    <2>1. P[0] = <<>>
      BY ParamsAt
    <2>2. <<>> \in Seq(ParamNames) /\ DOMAIN <<>> = {} /\ ParamsIn(path, 0) = {}
      BY DEF ParamsIn
    <2>3. Comes(<<>>, path, 0, [k \in {} |-> 0])
      BY <2>2 DEF Comes
    <2> QED
      BY <2>1, <2>2, <2>3
  <1>3. ASSUME NEW n \in T PROVE n + 1 \in T
    <2> SUFFICES ASSUME n + 1 <= Len(path)
                 PROVE  P[n+1] \in Seq(ParamNames) /\ \E at : Comes(P[n+1], path, n + 1, at)
      OBVIOUS
    <2>1. P[n] \in Seq(ParamNames) /\ \E at : Comes(P[n], path, n, at)
      BY <1>1
    <2>2. PICK at : Comes(P[n], path, n, at)
      BY <2>1
    <2>3. n + 1 \in 1..Len(path) /\ (n + 1) - 1 = n
      BY <1>1
    <2>4. P[n+1] = IF IsParam(path[n+1]) THEN Append(P[n], ParamName[path[n+1]]) ELSE P[n]
      BY <2>3, ParamsAt
    <2>5. CASE IsParam(path[n+1])
      BY <2>1, <2>2, <2>4, <2>5, ComesNext
    <2>6. CASE ~IsParam(path[n+1])
      <3>1. ParamsIn(path, n + 1) = ParamsIn(path, n)
        BY <2>6 DEF ParamsIn
      <3>2. Comes(P[n], path, n + 1, at)
        BY <2>2, <3>1 DEF Comes
      <3> QED
        BY <2>1, <2>4, <2>6, <3>2
    <2> QED
      BY <2>5, <2>6
  <1> HIDE DEF T
  <1>4. T = Nat
    <2>1. T \in SUBSET Nat
      BY DEF T
    <2> QED
      BY <1>2, <1>3, <2>1, InductionOverNat
  <1> QED
    BY <1>1, <1>4 DEF T

LEMMA PathParamsOK ==
  ASSUME NEW path \in Seq(Segment)
  PROVE  /\ PathParams(path) \in Seq(ParamNames)
         /\ \E at : Comes(PathParams(path), path, Len(path), at)
  <1>1. Len(path) \in 0..Len(path)
    OBVIOUS
  <1> QED
    BY <1>1, ParamsUpToOK DEF PathParams

\* A slash at the end is no parameter.
LEMMA SlashHasNoParam ==
  ASSUME NEW path \in Seq(Segment)
  PROVE  PathParams(Append(path, Blank)) = PathParams(path)
  <1> DEFINE more == Append(path, Blank)
  <1>0. Blank \in Segment
    BY RouteAssumption
  <1>1. /\ more \in Seq(Segment) /\ Len(more) = Len(path) + 1 /\ Len(path) \in Nat
        /\ \A n \in 1..Len(path) : more[n] = path[n]
        /\ more[Len(path)+1] = Blank
    BY <1>0
  <1> DEFINE T == {n \in Nat : n <= Len(path) => ParamsUpTo(more)[n] = ParamsUpTo(path)[n]}
  <1> HIDE DEF more
  <1>2. 0 \in T
    BY <1>1, ParamsAt
  <1>3. ASSUME NEW n \in T PROVE n + 1 \in T
    <2> SUFFICES ASSUME n + 1 <= Len(path)
                 PROVE  ParamsUpTo(more)[n+1] = ParamsUpTo(path)[n+1]
      OBVIOUS
    <2>1. n + 1 \in 1..Len(path) /\ n + 1 \in 1..Len(more) /\ (n + 1) - 1 = n
      BY <1>1
    <2>2. ParamsUpTo(more)[n] = ParamsUpTo(path)[n]
      BY <1>1
    <2> HIDE DEF T
    <2> QED
      BY <1>1, <2>1, <2>2, ParamsAt
  <1> HIDE DEF T
  <1>4. T = Nat
    <2>1. T \in SUBSET Nat
      BY DEF T
    <2> QED
      BY <1>2, <1>3, <2>1, InductionOverNat
  <1>5. ParamsUpTo(more)[Len(path)] = ParamsUpTo(path)[Len(path)]
    BY <1>1, <1>4 DEF T
  <1>6. ~IsParam(Blank)
    BY RouteAssumption DEF IsParam
  <1>7. ParamsUpTo(more)[Len(path)+1] = ParamsUpTo(more)[Len(path)]
    <2>1. Len(path) + 1 \in 1..Len(more) /\ (Len(path) + 1) - 1 = Len(path)
      BY <1>1
    <2> QED
      BY <1>1, <1>6, <2>1, ParamsAt
  <1> QED
    BY <1>1, <1>5, <1>7 DEF PathParams, more

-----------------------------------------------------------------------------
(* The recording router. *)

AllPaths == Seq(Segment) \ {<<>>}

Names ==
  Seq({m.handler : m \in Mounts \cup Unrecorded} \cup Segment \cup {"static_file", "static_dir"})

Methods == {m.method : m \in Mounts \cup Unrecorded} \cup {"GET"}

Regs == [fqname : Names, method : Methods, path : AllPaths, params : Seq(ParamNames)]

Routes == [fqname : Names, method : Methods, path : AllPaths, recorded : BOOLEAN]

\* Where a registration's route is: at its path, or, if that is not the root, at
\* its path with a slash at the end.
Stands(s, reg) ==
  /\ s.recorded /\ s.fqname = reg.fqname /\ s.method = reg.method
  /\ \/ s.path = reg.path
     \/ s.path = Append(reg.path, Blank) /\ reg.path # Root

\* A list of registrations and the routes they are of.
TableOK(regs, rts) ==
  /\ \A i \in DOMAIN regs :
       regs[i].params = PathParams(regs[i].path) /\ \E s \in rts : Stands(s, regs[i])
  /\ \A s \in rts : s.recorded => \E i \in DOMAIN regs : Stands(s, regs[i])

\* No two routes of one shape: axum would have panicked.
Apart(rts) ==
  \A s, t \in rts : SameShape(s.path, t.path) =>
    s.path = t.path /\ (s.method = t.method => s = t)

RouteTypeOK ==
  /\ manifest \in [Router -> Seq(Regs)]
  /\ served \in [Router -> SUBSET Routes]

RouteOK ==
  /\ RouteTypeOK
  /\ \A r \in Router : TableOK(manifest[r], served[r])
  /\ ~refused => \A r \in Router : Apart(served[r])

LEMMA TableUnion ==
  ASSUME NEW a \in Seq(Regs), NEW b \in Seq(Regs), NEW x, NEW y, TableOK(a, x), TableOK(b, y)
  PROVE  TableOK(a \o b, x \cup y)
  <1> DEFINE c == a \o b
  <1>1. /\ c \in Seq(Regs) /\ DOMAIN c = 1..Len(a)+Len(b) /\ Len(a) \in Nat /\ Len(b) \in Nat
        /\ DOMAIN a = 1..Len(a) /\ DOMAIN b = 1..Len(b)
        /\ \A i \in 1..Len(a) : c[i] = a[i]
        /\ \A i \in 1..Len(b) : c[Len(a)+i] = b[i]
    OBVIOUS
  <1> HIDE DEF c
  <1>2. \A i \in DOMAIN c : (\E j \in DOMAIN a : c[i] = a[j]) \/ (\E j \in DOMAIN b : c[i] = b[j])
    <2> TAKE i \in DOMAIN c
    <2>1. CASE i \in 1..Len(a)
      BY <1>1, <2>1
    <2>2. CASE i \notin 1..Len(a)
      <3>1. i - Len(a) \in 1..Len(b) /\ Len(a) + (i - Len(a)) = i
        BY <1>1, <2>2
      <3>2. c[i] = b[i - Len(a)]
        BY <1>1, <3>1
      <3> QED
        BY <1>1, <3>1, <3>2
    <2> QED
      BY <2>1, <2>2
  <1>3. /\ \A j \in DOMAIN a : \E i \in DOMAIN c : c[i] = a[j]
        /\ \A j \in DOMAIN b : \E i \in DOMAIN c : c[i] = b[j]
    <2>1. ASSUME NEW j \in DOMAIN a PROVE \E i \in DOMAIN c : c[i] = a[j]
      BY <1>1
    <2>2. ASSUME NEW j \in DOMAIN b PROVE \E i \in DOMAIN c : c[i] = b[j]
      <3>1. Len(a) + j \in DOMAIN c /\ c[Len(a)+j] = b[j]
        BY <1>1
      <3> QED
        BY <3>1
    <2> QED
      BY <2>1, <2>2
  <1>4. ASSUME NEW i \in DOMAIN c
        PROVE  c[i].params = PathParams(c[i].path) /\ \E s \in x \cup y : Stands(s, c[i])
    BY <1>2 DEF TableOK
  <1>5. ASSUME NEW s \in x \cup y, s.recorded
        PROVE  \E i \in DOMAIN c : Stands(s, c[i])
    BY <1>3, <1>5 DEF TableOK
  <1> QED
    BY <1>4, <1>5 DEF TableOK, c

LEMMA ShapeSymmetric ==
  ASSUME NEW p \in AllPaths, NEW q \in AllPaths, SameShape(p, q)
  PROVE  SameShape(q, p)
  <1>1. /\ Len(p) = Len(q) /\ Len(p) \in Nat /\ DOMAIN p = 1..Len(p) /\ DOMAIN q = 1..Len(q)
    BY DEF SameShape, AllPaths
  <1> QED
    BY <1>1 DEF SameShape

LEMMA ApartUnion ==
  ASSUME NEW x \in SUBSET Routes, NEW y \in SUBSET Routes, Apart(x), Apart(y),
         \A n \in y, o \in x : ~Overlap(n, o)
  PROVE  Apart(x \cup y)
  <1> SUFFICES ASSUME NEW s \in x \cup y, NEW t \in x \cup y, SameShape(s.path, t.path)
               PROVE  s.path = t.path /\ (s.method = t.method => s = t)
    BY DEF Apart
  <1>1. s.path \in AllPaths /\ t.path \in AllPaths
    BY DEF Routes
  <1>2. SameShape(t.path, s.path)
    BY <1>1, ShapeSymmetric
  <1>3. CASE s \in x /\ t \in x
    BY <1>3 DEF Apart
  <1>4. CASE s \in y /\ t \in y
    BY <1>4 DEF Apart
  <1>5. CASE s \in y /\ t \in x
    BY <1>5 DEF Overlap
  <1>6. CASE s \in x /\ t \in y
    BY <1>2, <1>6 DEF Overlap
  <1> QED
    BY <1>3, <1>4, <1>5, <1>6

\* A call that is given a table of its own, and routes that are apart.
LEMMA AddStep ==
  ASSUME RouteOK, NEW r \in Router, NEW from \in Router,
         NEW regs \in Seq(Regs), NEW rts \in SUBSET Routes,
         TableOK(regs, rts), Apart(rts), Add(r, from, regs, rts)
  PROVE  RouteOK'
  <1>1. /\ manifest \in [Router -> Seq(Regs)] /\ served \in [Router -> SUBSET Routes]
        /\ ~refused
        /\ refused' = \E n \in rts, o \in served[r] : Overlap(n, o)
        /\ manifest' = [manifest EXCEPT ![from] = <<>>, ![r] = manifest[r] \o regs]
        /\ served' = [served EXCEPT ![from] = {}, ![r] = served[r] \cup rts]
    BY DEF Add, Call, RouteOK, RouteTypeOK
  <1>2. /\ manifest'[r] = manifest[r] \o regs /\ served'[r] = served[r] \cup rts
        /\ \A x \in Router \ {r} :
             \/ manifest'[x] = <<>> /\ served'[x] = {}
             \/ manifest'[x] = manifest[x] /\ served'[x] = served[x]
    BY <1>1
  <1>3. RouteTypeOK'
    <2>1. manifest[r] \o regs \in Seq(Regs) /\ <<>> \in Seq(Regs)
      BY <1>1
    <2>2. \A x \in Router : manifest'[x] \in Seq(Regs)
      BY <1>1, <1>2, <2>1
    <2>3. \A x \in Router : served'[x] \in SUBSET Routes
      BY <1>1, <1>2
    <2>4. DOMAIN manifest' = Router /\ DOMAIN served' = Router
      BY <1>1
    <2> QED
      BY <1>1, <2>2, <2>3, <2>4 DEF RouteTypeOK
  <1>4. \A x \in Router : TableOK(manifest'[x], served'[x])
    <2>1. TableOK(manifest[r] \o regs, served[r] \cup rts)
      BY <1>1, TableUnion DEF RouteOK
    <2>2. TableOK(<<>>, {})
      BY DEF TableOK
    <2> QED
      BY <1>2, <2>1, <2>2 DEF RouteOK
  <1>5. ASSUME ~refused'
        PROVE  \A x \in Router : Apart(served'[x])
    <2>1. \A n \in rts, o \in served[r] : ~Overlap(n, o)
      BY <1>1, <1>5
    <2>2. Apart(served[r] \cup rts)
      BY <1>1, <2>1, ApartUnion DEF RouteOK
    <2>3. Apart({})
      BY DEF Apart
    <2> QED
      BY <1>1, <1>2, <2>2, <2>3 DEF RouteOK
  <1> QED
    BY <1>3, <1>4, <1>5 DEF RouteOK

LEMMA OneRoute ==
  ASSUME NEW n \in Names, NEW m \in Methods, NEW p \in AllPaths
  PROVE  /\ Registration(n, m, p) \in Regs /\ Route(n, m, p, TRUE) \in Routes
         /\ Route(n, m, p, FALSE) \in Routes
         /\ TableOK(<<Registration(n, m, p)>>, {Route(n, m, p, TRUE)})
         /\ TableOK(<<>>, {Route(n, m, p, FALSE)})
         /\ Apart({Route(n, m, p, TRUE)}) /\ Apart({Route(n, m, p, FALSE)})
  <1>1. PathParams(p) \in Seq(ParamNames)
    BY PathParamsOK DEF AllPaths
  <1>2. Stands(Route(n, m, p, TRUE), Registration(n, m, p))
    BY DEF Stands, Route, Registration
  <1>3. TableOK(<<Registration(n, m, p)>>, {Route(n, m, p, TRUE)})
    <2> DEFINE g == Registration(n, m, p)
               s == Route(n, m, p, TRUE)
    <2>1. g.params = PathParams(g.path) /\ Stands(s, g)
      BY <1>2 DEF Registration
    <2>2. DOMAIN <<g>> = {1} /\ <<g>>[1] = g
      OBVIOUS
    <2> HIDE DEF g, s
    <2>3. TableOK(<<g>>, {s})
      BY <2>1, <2>2 DEF TableOK
    <2> QED
      BY <2>3 DEF g, s
  <1>4. TableOK(<<>>, {Route(n, m, p, FALSE)})
    BY DEF TableOK, Route
  <1>5. Registration(n, m, p) \in Regs /\ Route(n, m, p, TRUE) \in Routes
        /\ Route(n, m, p, FALSE) \in Routes
    BY <1>1 DEF Registration, Regs, Route, Routes
  <1> QED
    BY <1>3, <1>4, <1>5 DEF Apart

LEMMA RecordStep ==
  ASSUME RouteOK, NEW r \in Router, NEW n \in Names, NEW m \in Methods, NEW p \in AllPaths,
         Record(r, n, m, p)
  PROVE  RouteOK'
  <1>1. Registration(n, m, p) \in Regs /\ Route(n, m, p, TRUE) \in Routes
    BY OneRoute
  <1>2. <<Registration(n, m, p)>> \in Seq(Regs)
    BY <1>1
  <1>3. {Route(n, m, p, TRUE)} \in SUBSET Routes
    BY <1>1, Zenon
  <1> QED
    BY <1>2, <1>3, OneRoute, AddStep DEF Record

LEMMA MountStep ==
  ASSUME RouteOK, NEW r \in Router, NEW m \in Mounts, Mount(r, m.handler, m.method, m.path)
  PROVE  RouteOK'
  <1>1. <<m.handler>> \in Names /\ m.method \in Methods /\ m.path \in AllPaths
    BY PathAssumption DEF Names, Methods, AllPaths, IsPath
  <1> QED
    BY <1>1, RecordStep DEF Mount

LEMMA PlainRouteStep ==
  ASSUME RouteOK, NEW r \in Router, NEW m \in Unrecorded,
         PlainRoute(r, m.handler, m.method, m.path)
  PROVE  RouteOK'
  <1>1. <<m.handler>> \in Names /\ m.method \in Methods /\ m.path \in AllPaths
    BY PathAssumption DEF Names, Methods, AllPaths, IsPath
  <1>2. Route(<<m.handler>>, m.method, m.path, FALSE) \in Routes
    BY <1>1, OneRoute
  <1>3. {Route(<<m.handler>>, m.method, m.path, FALSE)} \in SUBSET Routes
    BY <1>2, Zenon
  <1>4. <<>> \in Seq(Regs)
    OBVIOUS
  <1> QED
    BY <1>1, <1>3, <1>4, OneRoute, AddStep DEF PlainRoute

\* What is left of a prefix, and what axum makes of one.
LEMMA TrimmedIs ==
  ASSUME NEW p \in AllPaths, IsPath(p)
  PROVE  IF p[Len(p)] = Blank
         THEN Trimmed(p) = SubSeq(p, 1, Len(p) - 1)
         ELSE Trimmed(p) = p
  <1> DEFINE Ends(n) == /\ n = 0 \/ p[n] # Blank
                        /\ \A m \in n+1..Len(p) : p[m] = Blank
  <1>0. Len(p) \in Nat \ {0} /\ p = SubSeq(p, 1, Len(p))
    BY DEF IsPath, AllPaths
  <1>1. Len(p) \in Nat \ {0} /\ \A i \in 1..Len(p)-1 : p[i] # Blank
    BY <1>0 DEF IsPath
  <1>2. CASE p[Len(p)] # Blank
    <2>1. Ends(Len(p))
      BY <1>1, <1>2
    <2>2. \A n \in 0..Len(p) : Ends(n) => n = Len(p)
      <3> TAKE n \in 0..Len(p)
      <3> HAVE Ends(n)
      <3>1. CASE n # Len(p)
        <4>1. Len(p) \in n+1..Len(p)
          BY <1>1, <3>1
        <4> QED
          BY <1>2, <4>1
      <3> QED
        BY <3>1
    <2>3. (CHOOSE n \in 0..Len(p) : Ends(n)) = Len(p)
      <3>1. Len(p) \in 0..Len(p)
        BY <1>1
      <3> HIDE DEF Ends
      <3> QED
        BY <2>1, <2>2, <3>1
    <2> QED
      BY <1>0, <1>2, <2>3 DEF Trimmed
  <1>3. CASE p[Len(p)] = Blank
    <2>1. Ends(Len(p) - 1)
      <3>1. Len(p) - 1 = 0 \/ p[Len(p) - 1] # Blank
        <4>1. \A l \in Nat \ {0} : l - 1 = 0 \/ l - 1 \in 1..l-1
          OBVIOUS
        <4> QED
          BY <1>1, <4>1
      <3>2. \A m \in (Len(p) - 1) + 1..Len(p) : m = Len(p)
        BY <1>1
      <3> QED
        BY <1>3, <3>1, <3>2
    <2>2. \A n \in 0..Len(p) : Ends(n) => n = Len(p) - 1
      <3> TAKE n \in 0..Len(p)
      <3> HAVE Ends(n)
      <3>1. n # Len(p)
        BY <1>1, <1>3
      <3>2. CASE n < Len(p) - 1
        <4>1. Len(p) - 1 \in n+1..Len(p) /\ Len(p) - 1 \in 1..Len(p)-1
          BY <1>1, <3>2
        <4> QED
          BY <1>1, <4>1
      <3> QED
        BY <1>1, <3>1, <3>2
    <2>3. (CHOOSE n \in 0..Len(p) : Ends(n)) = Len(p) - 1
      <3>1. Len(p) - 1 \in 0..Len(p)
        BY <1>1
      <3> HIDE DEF Ends
      <3> QED
        BY <2>1, <2>2, <3>1
    <2> QED
      BY <1>3, <2>3 DEF Trimmed
  <1> QED
    BY <1>2, <1>3

LEMMA PrefixIs ==
  ASSUME NEW prefix \in Prefixes, prefix # Root
  PROVE  LET base == Trimmed(prefix) IN
         /\ base \in AllPaths /\ base # Root
         /\ prefix = base \/ prefix = Append(base, Blank)
         /\ \A path \in AllPaths :
              NestedPath(prefix, path) = IF path = Root THEN prefix ELSE base \o path
  <1> DEFINE base == Trimmed(prefix)
             L == Len(prefix)
  <1>1. prefix \in AllPaths /\ IsPath(prefix) /\ L \in Nat \ {0}
    BY PathAssumption DEF IsPath, AllPaths
  <1>2. CASE prefix[L] # Blank
    <2>1. base = prefix
      BY <1>1, <1>2, TrimmedIs
    <2> QED
      BY <1>1, <1>2, <2>1 DEF NestedPath
  <1>3. CASE prefix[L] = Blank
    <2>1. base = SubSeq(prefix, 1, L - 1)
      BY <1>1, <1>3, TrimmedIs
    <2>2. L > 1
      <3>1. CASE L = 1
        <4>1. prefix = <<Blank>>
          BY <1>1, <1>3, <3>1 DEF AllPaths
        <4> QED
          BY <4>1 DEF Root
      <3>2. \A l \in Nat \ {0} : l # 1 => l > 1
        OBVIOUS
      <3> QED
        BY <1>1, <3>1, <3>2
    <2>3. /\ base \in Seq(Segment) /\ Len(base) = L - 1
          /\ \A i \in 1..L-1 : base[i] = prefix[i]
      BY <1>1, <2>1, <2>2 DEF AllPaths
    <2>4. base[L-1] # Blank
      <3>1. \A l \in Nat : l > 1 => l - 1 \in 1..l-1
        OBVIOUS
      <3> QED
        BY <1>1, <2>2, <2>3, <3>1 DEF IsPath
    <2> HIDE DEF base
    <2>5. base \in AllPaths /\ base # Root
      BY <1>1, <2>2, <2>3, <2>4 DEF AllPaths, Root
    <2>6. prefix = Append(base, Blank)
      <3>0. Blank \in Segment /\ Len(base) + 1 = L
        BY <1>1, <2>3, RouteAssumption
      <3>1. /\ Append(base, Blank) \in Seq(Segment) /\ Len(Append(base, Blank)) = L
            /\ \A i \in 1..L : Append(base, Blank)[i] = prefix[i]
        BY <1>1, <1>3, <2>3, <3>0
      <3> QED
        BY <1>1, <3>1 DEF AllPaths
    <2>7. base \o Root = prefix
      BY <2>3, <2>6, RouteAssumption DEF Root
    <2>8. \A path \in AllPaths :
            NestedPath(prefix, path) = IF path = Root THEN prefix ELSE base \o path
      BY <1>3, <2>1, <2>7 DEF NestedPath, base
    <2> QED
      BY <2>5, <2>6, <2>8 DEF base
  <1> QED
    BY <1>2, <1>3

NestedRoute(prefix, s) == [s EXCEPT !.path = NestedPath(prefix, s.path)]

LEMMA LongerThanRoot ==
  ASSUME NEW p \in AllPaths, NEW q \in AllPaths
  PROVE  p \o q \in AllPaths /\ p \o q # Root
  <1>1. p \o q \in Seq(Segment) /\ Len(p \o q) = Len(p) + Len(q) /\ Len(p) > 0 /\ Len(q) > 0
        /\ Len(p) \in Nat /\ Len(q) \in Nat
    BY DEF AllPaths
  <1>2. Len(p \o q) # 1 /\ Len(p \o q) # 0
    BY <1>1
  <1>3. Len(Root) = 1 /\ Len(<<>>) = 0
    BY DEF Root
  <1>4. p \o q # Root /\ p \o q # <<>>
    BY <1>2, <1>3
  <1> QED
    BY <1>1, <1>4 DEF AllPaths

LEMMA NestedRegIs ==
  ASSUME NEW prefix \in Prefixes, prefix # Root, NEW reg \in Regs
  PROVE  LET n == NestedRegistration(prefix, reg) IN
         /\ n \in Regs /\ n.fqname = reg.fqname /\ n.method = reg.method
         /\ n.params = PathParams(n.path)
         /\ n.path = IF reg.path = Root THEN Trimmed(prefix) ELSE Trimmed(prefix) \o reg.path
  <1> DEFINE path == IF reg.path = Root THEN Trimmed(prefix) ELSE Trimmed(prefix) \o reg.path
  <1>1. reg.fqname \in Names /\ reg.method \in Methods /\ reg.path \in AllPaths
    BY DEF Regs
  <1>2. path \in AllPaths
    BY <1>1, PrefixIs, LongerThanRoot
  <1>3. NestedRegistration(prefix, reg) = Registration(reg.fqname, reg.method, path)
    BY DEF NestedRegistration
  <1> HIDE DEF path
  <1>4. Registration(reg.fqname, reg.method, path) \in Regs
    BY <1>1, <1>2, OneRoute
  <1> QED
    BY <1>3, <1>4 DEF Registration, path

LEMMA NestedRouteIs ==
  ASSUME NEW prefix \in Prefixes, prefix # Root, NEW s \in Routes
  PROVE  LET n == NestedRoute(prefix, s) IN
         /\ n \in Routes /\ n.fqname = s.fqname /\ n.method = s.method
         /\ n.recorded = s.recorded
         /\ n.path = IF s.path = Root THEN prefix ELSE Trimmed(prefix) \o s.path
  <1>1. s.path \in AllPaths
    BY DEF Routes
  <1>2. prefix \in AllPaths
    BY PathAssumption DEF IsPath, AllPaths
  <1>3. NestedPath(prefix, s.path) \in AllPaths
    <2>1. Trimmed(prefix) \in AllPaths
      BY PrefixIs
    <2>2. Trimmed(prefix) \o s.path \in AllPaths
      BY <1>1, <2>1, LongerThanRoot
    <2>3. NestedPath(prefix, s.path) = IF s.path = Root THEN prefix ELSE Trimmed(prefix) \o s.path
      BY <1>1, PrefixIs
    <2> QED
      BY <1>2, <2>2, <2>3
  <1>4. NestedPath(prefix, s.path) = IF s.path = Root THEN prefix ELSE Trimmed(prefix) \o s.path
    BY <1>1, PrefixIs
  <1> QED
    BY <1>3, <1>4 DEF NestedRoute, Routes

\* A route that stands for a registration does so when both are nested.
LEMMA NestedStands ==
  ASSUME NEW prefix \in Prefixes, prefix # Root, NEW reg \in Regs, NEW s \in Routes,
         Stands(s, reg)
  PROVE  Stands(NestedRoute(prefix, s), NestedRegistration(prefix, reg))
  <1> DEFINE base == Trimmed(prefix)
             ns == NestedRoute(prefix, s)
             nreg == NestedRegistration(prefix, reg)
  <1>1. /\ reg.path \in AllPaths /\ base \in AllPaths /\ base # Root
        /\ prefix = base \/ prefix = Append(base, Blank)
    BY PrefixIs DEF Regs
  <1>2. /\ ns.fqname = s.fqname /\ ns.method = s.method /\ ns.recorded = s.recorded
        /\ ns.path = IF s.path = Root THEN prefix ELSE base \o s.path
    BY NestedRouteIs
  <1>3. /\ nreg.fqname = reg.fqname /\ nreg.method = reg.method
        /\ nreg.path = IF reg.path = Root THEN base ELSE base \o reg.path
    BY NestedRegIs
  <1> HIDE DEF base, ns, nreg
  <1>4. ns.path = nreg.path \/ (ns.path = Append(nreg.path, Blank) /\ nreg.path # Root)
    <2>1. CASE s.path = reg.path /\ reg.path = Root
      BY <1>1, <1>2, <1>3, <2>1
    <2>2. CASE s.path = reg.path /\ reg.path # Root
      BY <1>2, <1>3, <2>2
    <2>3. CASE s.path = Append(reg.path, Blank) /\ reg.path # Root
      <3>1. Blank \in Segment /\ <<Blank>> \in AllPaths
        BY RouteAssumption DEF AllPaths
      <3>2. Append(reg.path, Blank) = reg.path \o <<Blank>>
        BY <1>1, <3>1 DEF AllPaths
      <3>3. s.path # Root
        BY <1>1, <2>3, <3>1, <3>2, LongerThanRoot
      <3>4. base \o Append(reg.path, Blank) = Append(base \o reg.path, Blank)
        BY <1>1, <3>1 DEF AllPaths
      <3>5. base \o reg.path # Root
        BY <1>1, LongerThanRoot
      <3> QED
        BY <1>2, <1>3, <2>3, <3>3, <3>4, <3>5
    <2> QED
      BY <2>1, <2>2, <2>3 DEF Stands
  <1> QED
    BY <1>2, <1>3, <1>4 DEF Stands, ns, nreg

LEMMA ShapeIsReflexive ==
  ASSUME NEW p
  PROVE  SameShape(p, p)
  BY DEF SameShape

LEMMA ShapeBehind ==
  ASSUME NEW base \in AllPaths, NEW p \in AllPaths, NEW q \in AllPaths,
         SameShape(base \o p, base \o q)
  PROVE  SameShape(p, q)
  <1> DEFINE bp == base \o p
             bq == base \o q
  <1>1. /\ Len(bp) = Len(base) + Len(p) /\ Len(bq) = Len(base) + Len(q)
        /\ Len(base) \in Nat /\ Len(p) \in Nat /\ Len(q) \in Nat
        /\ DOMAIN bp = 1..Len(base)+Len(p) /\ DOMAIN p = 1..Len(p)
        /\ \A i \in 1..Len(p) : bp[Len(base)+i] = p[i]
        /\ \A i \in 1..Len(q) : bq[Len(base)+i] = q[i]
    BY DEF AllPaths
  <1> HIDE DEF bp, bq
  <1>2. Len(p) = Len(q)
    <2>1. Len(bp) = Len(bq)
      BY DEF SameShape, bp, bq
    <2> QED
      BY <1>1, <2>1
  <1>3. \A i \in DOMAIN bp : \/ IsParam(bp[i]) /\ IsParam(bq[i])
                             \/ ~IsParam(bp[i]) /\ ~IsParam(bq[i]) /\ LiteralOf(bp[i]) = LiteralOf(bq[i])
    BY DEF SameShape, bp, bq
  <1>4. \A i \in DOMAIN p : Len(base) + i \in DOMAIN bp
    BY <1>1
  <1>5. \A i \in DOMAIN p : bp[Len(base)+i] = p[i] /\ bq[Len(base)+i] = q[i]
    BY <1>1, <1>2
  <1> QED
    BY <1>2, <1>3, <1>4, <1>5 DEF SameShape

LEMMA NestedApart ==
  ASSUME NEW prefix \in Prefixes, prefix # Root, NEW x \in SUBSET Routes, Apart(x)
  PROVE  Apart({NestedRoute(prefix, s) : s \in x})
  <1> DEFINE base == Trimmed(prefix)
             N(s) == NestedRoute(prefix, s)
  <1>1. /\ base \in AllPaths /\ (prefix = base \/ prefix = Append(base, Blank))
        /\ \A s \in Routes : /\ N(s).path = IF s.path = Root THEN prefix ELSE base \o s.path
                             /\ N(s).method = s.method /\ s.path \in AllPaths
    BY PrefixIs, NestedRouteIs DEF Routes
  <1> SUFFICES ASSUME NEW s \in x, NEW t \in x, SameShape(N(s).path, N(t).path)
               PROVE  N(s).path = N(t).path /\ (N(s).method = N(t).method => N(s) = N(t))
    BY DEF Apart
  <1>2. SameShape(s.path, t.path)
    <2>1. Append(base, Blank) = base \o Root /\ Root \in AllPaths
      BY <1>1, RouteAssumption DEF AllPaths, Root
    <2>2. CASE N(s).path = base \o s.path /\ N(t).path = base \o t.path
      <3>1. base \in AllPaths /\ s.path \in AllPaths /\ t.path \in AllPaths
        BY <1>1
      <3>2. SameShape(base \o s.path, base \o t.path)
        BY <2>2
      <3> QED
        BY <3>1, <3>2, ShapeBehind
    <2>3. CASE s.path = Root /\ t.path = Root
      BY <2>3, ShapeIsReflexive
    <2>4. CASE N(s).path = base /\ N(t).path = base \o t.path
      <3>1. Len(base) = Len(base \o t.path)
        BY <2>4 DEF SameShape
      <3> QED
        BY <1>1, <3>1 DEF AllPaths
    <2>5. CASE N(t).path = base /\ N(s).path = base \o s.path
      <3>1. Len(base) = Len(base \o s.path)
        BY <2>5 DEF SameShape
      <3> QED
        BY <1>1, <3>1 DEF AllPaths
    <2> QED
      BY <1>1, <2>1, <2>2, <2>3, <2>4, <2>5
  <1>3. s.path = t.path /\ (s.method = t.method => s = t)
    BY <1>2 DEF Apart
  <1> QED
    BY <1>1, <1>3

LEMMA NestedTable ==
  ASSUME NEW prefix \in Prefixes, prefix # Root, NEW regs \in Seq(Regs), NEW x \in SUBSET Routes,
         TableOK(regs, x)
  PROVE  TableOK([i \in DOMAIN regs |-> NestedRegistration(prefix, regs[i])],
                 {NestedRoute(prefix, s) : s \in x})
  <1> DEFINE nregs == [i \in DOMAIN regs |-> NestedRegistration(prefix, regs[i])]
             nx == {NestedRoute(prefix, s) : s \in x}
  <1>1. \A i \in DOMAIN regs : regs[i] \in Regs
    OBVIOUS
  <1>2. ASSUME NEW i \in DOMAIN nregs
        PROVE  nregs[i].params = PathParams(nregs[i].path) /\ \E s \in nx : Stands(s, nregs[i])
    <2>1. PICK s \in x : Stands(s, regs[i])
      BY DEF TableOK
    <2>2. Stands(NestedRoute(prefix, s), NestedRegistration(prefix, regs[i]))
      BY <1>1, <2>1, NestedStands
    <2> QED
      BY <1>1, <2>2, NestedRegIs
  <1>3. ASSUME NEW n \in nx, n.recorded
        PROVE  \E i \in DOMAIN nregs : Stands(n, nregs[i])
    <2>1. PICK s \in x : n = NestedRoute(prefix, s)
      OBVIOUS
    <2>2. s.recorded
      BY <1>3, <2>1, NestedRouteIs
    <2>3. PICK i \in DOMAIN regs : Stands(s, regs[i])
      BY <2>2 DEF TableOK
    <2> QED
      BY <1>1, <2>1, <2>3, NestedStands
  <1> QED
    BY <1>2, <1>3 DEF TableOK

LEMMA NestStep ==
  ASSUME RouteOK, NEW r \in Router, NEW from \in Router, NEW prefix \in Prefixes,
         Nest(r, prefix, from)
  PROVE  RouteOK'
  <1> DEFINE nregs == [i \in DOMAIN manifest[from] |-> NestedRegistration(prefix, manifest[from][i])]
             nx == {NestedRoute(prefix, s) : s \in served[from]}
  <1>1. prefix # Root /\ Add(r, from, nregs, nx) /\ ~refused
    BY DEF Nest, NestedRoute, Add, Call
  <1>2. /\ manifest[from] \in Seq(Regs) /\ served[from] \in SUBSET Routes
        /\ TableOK(manifest[from], served[from]) /\ Apart(served[from])
    BY <1>1 DEF RouteOK, RouteTypeOK
  <1>3. nregs \in Seq(Regs)
    <2>1. \A i \in DOMAIN manifest[from] : NestedRegistration(prefix, manifest[from][i]) \in Regs
      BY <1>1, <1>2, NestedRegIs
    <2> QED
      BY <1>2, <2>1
  <1>4. nx \in SUBSET Routes
    BY <1>1, <1>2, NestedRouteIs
  <1> QED
    BY <1>1, <1>2, <1>3, <1>4, NestedTable, NestedApart, AddStep

LEMMA MergeStep ==
  ASSUME RouteOK, NEW r \in Router, NEW from \in Router, Merge(r, from)
  PROVE  RouteOK'
  <1>1. Add(r, from, manifest[from], served[from]) /\ ~refused
    BY DEF Merge, Add, Call
  <1>2. /\ manifest[from] \in Seq(Regs) /\ served[from] \in SUBSET Routes
        /\ TableOK(manifest[from], served[from]) /\ Apart(served[from])
    BY <1>1 DEF RouteOK, RouteTypeOK
  <1> QED
    BY <1>1, <1>2, AddStep

LEMMA NameOfPath ==
  ASSUME NEW p \in AllPaths, NEW what \in {"static_file", "static_dir"}
  PROVE  <<what>> \o p \in Names
  <1> DEFINE A == {m.handler : m \in Mounts \cup Unrecorded} \cup Segment
                    \cup {"static_file", "static_dir"}
  <1>1. <<what>> \in Seq(A)
    OBVIOUS
  <1>2. p \in Seq(A)
    BY DEF AllPaths
  <1> HIDE DEF A
  <1>3. <<what>> \o p \in Seq(A)
    BY <1>1, <1>2
  <1> QED
    BY <1>3 DEF Names, A

LEMMA StaticStep ==
  ASSUME RouteOK, NEW r \in Router,
         \/ \E path \in Files : StaticFile(r, path)
         \/ \E prefix \in Prefixes : StaticDir(r, prefix, AssetName)
  PROVE  RouteOK'
  <1>1. "GET" \in Methods
    BY DEF Methods
  <1>2. CASE \E path \in Files : StaticFile(r, path)
    <2>1. PICK path \in Files : StaticFile(r, path)
      BY <1>2
    <2>2. path \in AllPaths
      BY PathAssumption DEF IsPath, AllPaths
    <2>3. <<"static_file">> \o path \in Names
      BY <2>2, NameOfPath
    <2> QED
      BY <1>1, <2>1, <2>2, <2>3, RecordStep DEF StaticFile
  <1>3. CASE \E prefix \in Prefixes : StaticDir(r, prefix, AssetName)
    <2>1. PICK prefix \in Prefixes : StaticDir(r, prefix, AssetName)
      BY <1>3
    <2> DEFINE path == Append(Trimmed(prefix), AssetName)
    <2>2. prefix \in AllPaths /\ IsPath(prefix) /\ AssetName \in Segment
      BY PathAssumption DEF IsPath, AllPaths
    <2>3. Trimmed(prefix) \in Seq(Segment)
      BY <2>2, TrimmedIs DEF AllPaths
    <2>4. path \in AllPaths
      BY <2>2, <2>3 DEF AllPaths
    <2>5. <<"static_dir">> \o path \in Names
      BY <2>4, NameOfPath
    <2>6. Record(r, <<"static_dir">> \o path, "GET", path)
      BY <2>1 DEF StaticDir
    <2> QED
      BY <1>1, <2>4, <2>5, <2>6, RecordStep
  <1> QED
    BY <1>2, <1>3

LEMMA RouteInitOK == RouteInit => RouteOK
  BY DEF RouteInit, RouteOK, RouteTypeOK, TableOK, Apart

LEMMA RoutesAdvance == RouteOK /\ [PipelineNext]_vars => RouteOK'
  <1> SUFFICES ASSUME RouteOK, [PipelineNext]_vars
               PROVE  RouteOK'
    OBVIOUS
  <1>1. CASE UNCHANGED routeVars
    BY <1>1 DEF routeVars, RouteOK, RouteTypeOK
  <1>2. CASE Build
    BY <1>2, MountStep, PlainRouteStep, StaticStep, NestStep, MergeStep DEF Build
  <1>3. CASE Leave
    BY <1>3 DEF Leave, RouteOK, RouteTypeOK, TableOK, Apart
  <1>4. CASE Compile \/ ExportEnds \/ WriteManifest \/ Generate \/ KillTests
    BY <1>1, <1>4 DEF Compile, ExportEnds, WriteManifest, Generate, KillTests
  <1>5. ASSUME NEW h \in Handler, ExportTest(h) \/ TestFails(h)
        PROVE  RouteOK'
    BY <1>1, <1>5 DEF ExportTest, TestFails, Exporting
  <1>6. CASE UNCHANGED vars
    BY <1>1, <1>6 DEF vars
  <1> QED
    BY <1>2, <1>3, <1>4, <1>5, <1>6 DEF PipelineNext

LEMMA TableHolds ==
  ASSUME RouteOK
  PROVE  TableIsTheApp
  <1> SUFFICES ASSUME NEW r \in Router
               PROVE  /\ \A i \in DOMAIN manifest[r] :
                           \E s \in served[r] : Serves(s, manifest[r][i])
                                                /\ manifest[r][i].params = PathParams(s.path)
                      /\ \A s \in served[r] : s.recorded =>
                           \E i \in DOMAIN manifest[r] : Serves(s, manifest[r][i])
    BY DEF TableIsTheApp
  <1>1. /\ manifest[r] \in Seq(Regs) /\ TableOK(manifest[r], served[r])
    BY DEF RouteOK, RouteTypeOK
  <1>2. \A s, reg : Stands(s, reg) => Serves(s, reg)
    BY DEF Stands, Serves
  <1>3. ASSUME NEW i \in DOMAIN manifest[r]
        PROVE  \E s \in served[r] : Serves(s, manifest[r][i])
                                    /\ manifest[r][i].params = PathParams(s.path)
    <2> DEFINE reg == manifest[r][i]
    <2>0. reg \in Regs
      BY <1>1
    <2>1. reg.path \in Seq(Segment)
      BY <2>0 DEF Regs, AllPaths
    <2>2. PICK s \in served[r] : Stands(s, reg)
      BY <1>1 DEF TableOK
    <2>3. PathParams(s.path) = PathParams(reg.path)
      BY <2>1, <2>2, SlashHasNoParam DEF Stands
    <2> QED
      BY <1>1, <1>2, <2>2, <2>3 DEF TableOK
  <1>4. ASSUME NEW s \in served[r], s.recorded
        PROVE  \E i \in DOMAIN manifest[r] : Serves(s, manifest[r][i])
    BY <1>1, <1>2, <1>4 DEF TableOK
  <1> QED
    BY <1>3, <1>4

-----------------------------------------------------------------------------
(* What the client says. *)

\* A function of the client, and the registration and the descriptor it joins.
LEMMA JoinOf ==
  ASSUME ExportInv, RunOK, PipeOK, RouteOK, Generated, NEW f \in client.fns
  PROVE  \E d \in file.handlers, reg \in Regs :
           /\ f = FnOf(reg, d) /\ reg.fqname = d.fqname /\ PlanOk(reg, d)
           /\ reg.params = PathParams(reg.path)
           /\ \E s \in served[App] : Stands(s, reg)
  <1>1. /\ client.fns = Fns(routes, file.handlers) /\ Refusals(routes, file.handlers) = {}
        /\ routes = manifest[App]
    BY WhenGenerated
  <1>2. PICK d \in file.handlers : f = FnOf(RegOf(d, routes), d)
    BY <1>1 DEF Fns
  <1> DEFINE reg == RegOf(d, routes)
  <1>3. IsMounted(d, routes) /\ PlanOk(reg, d)
    BY <1>1, NotRefused
  <1>4. reg \in Elements(routes) /\ reg.fqname = d.fqname
    BY <1>3, RegOfIs
  <1>5. PICK i \in DOMAIN routes : reg = routes[i]
    BY <1>4 DEF Elements
  <1>6. manifest[App] \in Seq(Regs) /\ TableOK(manifest[App], served[App])
    BY RouteAssumption DEF RouteOK, RouteTypeOK
  <1>7. reg \in Regs
    BY <1>1, <1>5, <1>6
  <1>8. reg.params = PathParams(reg.path) /\ \E s \in served[App] : Stands(s, reg)
    BY <1>1, <1>5, <1>6 DEF TableOK
  <1> HIDE DEF reg
  <1> QED
    BY <1>2, <1>3, <1>4, <1>7, <1>8 DEF reg

LEMMA UrlIs ==
  ASSUME NEW path \in AllPaths
  PROVE  /\ DOMAIN Url(path) = 1..Len(path) /\ Len(Url(path)) = Len(path)
         /\ Len(path) \in Nat /\ DOMAIN path = 1..Len(path)
         /\ \A i \in 1..Len(path) :
              Url(path)[i] = IF IsParam(path[i]) THEN <<"enc", ParamName[path[i]]>>
                                                 ELSE <<path[i]>>
  <1>1. Len(path) \in Nat /\ DOMAIN path = 1..Len(path)
    BY DEF AllPaths
  <1> QED
    BY <1>1 DEF Url

\* The names of the parameters are the route's, in both forms of FnOf.
LEMMA ParamsAre ==
  ASSUME NEW reg \in Regs, NEW d
  PROVE  LET params == FnOf(reg, d).params IN
         /\ DOMAIN params = DOMAIN reg.params
         /\ \A i \in DOMAIN params : params[i].name = reg.params[i]
         /\ reg.params = [i \in DOMAIN params |-> params[i].name]
         /\ params # <<>> => reg.params # <<>> /\ params = Typed(reg.params, PathArgs(d)[1])
  <1> DEFINE params == FnOf(reg, d).params
  <1>1. params = IF reg.params = <<>> THEN <<>> ELSE Typed(reg.params, PathArgs(d)[1])
    BY FnIs
  <1>2. reg.params \in Seq(ParamNames)
    BY DEF Regs
  <1> HIDE DEF params
  <1>3. DOMAIN params = DOMAIN reg.params
    BY <1>1 DEF Typed
  <1>4. \A i \in DOMAIN params : params[i].name = reg.params[i]
    BY <1>1 DEF Typed
  <1>5. reg.params = [i \in DOMAIN params |-> params[i].name]
    BY <1>2, <1>3, <1>4
  <1> QED
    BY <1>1, <1>3, <1>4, <1>5 DEF params

LEMMA Signatures ==
  ASSUME ExportInv, RunOK, PipeOK, RouteOK
  PROVE  SignaturesAreCurrent
  <1> SUFFICES ASSUME Generated, NEW h \in Annotated(source)
               PROVE  /\ \E f \in client.fns : f.fqname = <<h>>
                      /\ \A f \in client.fns : f.fqname = <<h>> =>
                           Signed(f, DescriptorOf(h, source[h]))
    BY DEF SignaturesAreCurrent
  <1> DEFINE own == DescriptorOf(h, source[h])
  <1>1. client.fns = Fns(routes, file.handlers) /\ exported = ExportedBy(source)
    BY WhenGenerated
  <1>2. h \in DOMAIN exported /\ exported[h] = own
    BY <1>1 DEF ExportedBy
  <1>3. Passed
    BY DEF Generated, Passed
  <1>4. About(file.handlers, h) = {own} /\ own \in file.handlers
    BY <1>2, <1>3, InTheList
  <1>5. own.fqname = <<h>>
    BY DEF DescriptorOf
  <1> HIDE DEF own
  <1>6. \E f \in client.fns : f.fqname = <<h>>
    <2>1. FnOf(RegOf(own, routes), own) \in client.fns
      BY <1>1, <1>4 DEF Fns
    <2> QED
      BY <1>5, <2>1, FnIs
  <1>7. ASSUME NEW f \in client.fns, f.fqname = <<h>>
        PROVE  Signed(f, own)
    <2>1. PICK d \in file.handlers, reg \in Regs :
            f = FnOf(reg, d) /\ reg.fqname = d.fqname /\ PlanOk(reg, d)
      BY JoinOf
    <2>2. d = own
      <3>1. d.fqname = <<h>>
        BY <1>7, <2>1, FnIs
      <3> QED
        BY <1>4, <3>1 DEF About
    <2>3. f.response = own.response /\ f.rest = Rest(own)
      BY <2>1, <2>2, FnIs
    <2>4. PathSigned(f.params, own)
      <3> DEFINE names == [i \in DOMAIN f.params |-> f.params[i].name]
      <3>1. names = reg.params
        <4>1. reg.params = [i \in DOMAIN FnOf(reg, d).params |-> FnOf(reg, d).params[i].name]
          BY ParamsAre
        <4> QED
          BY <2>1, <4>1
      <3>2. f.params = IF reg.params = <<>> THEN <<>> ELSE Typed(reg.params, PathArgs(own)[1])
        BY <2>1, <2>2, FnIs
      <3>3. Typed(<<>>, PathArgs(own)[1]) = <<>>
        BY DEF Typed
      <3>4. f.params = Typed(reg.params, PathArgs(own)[1])
        BY <3>2, <3>3
      <3>5. CASE Len(PathArgs(own)) = 0
        <4>1. reg.params = <<>>
          BY <2>1, <2>2, <3>5 DEF PlanOk
        <4> QED
          BY <3>2, <3>5, <4>1 DEF PathSigned
      <3>6. CASE Len(PathArgs(own)) # 0
        <4>1. Len(PathArgs(own)) = 1 /\ Fits(reg.params, PathArgs(own)[1])
          BY <2>1, <2>2, <3>6 DEF PlanOk
        <4> QED
          BY <3>1, <3>4, <3>6, <4>1 DEF PathSigned
      <3> QED
        BY <3>5, <3>6
    <2> QED
      BY <2>3, <2>4 DEF Signed
  <1> QED
    BY <1>6, <1>7 DEF own

LEMMA OrderOfParams ==
  ASSUME NEW reg \in Regs, reg.params = PathParams(reg.path), NEW d
  PROVE  InOrder(FnOf(reg, d).params, Url(reg.path))
  <1> DEFINE path == reg.path
             url == Url(reg.path)
             params == FnOf(reg, d).params
             encoded == {i \in DOMAIN url : Len(url[i]) = 2}
  <1>1. path \in AllPaths /\ path \in Seq(Segment)
    BY DEF Regs, AllPaths
  <1>2. PICK at : Comes(PathParams(path), path, Len(path), at)
    BY <1>1, PathParamsOK
  <1>3. /\ DOMAIN params = DOMAIN PathParams(path)
        /\ \A k \in DOMAIN params : params[k].name = PathParams(path)[k]
    <2>1. reg.params = [k \in DOMAIN params |-> params[k].name]
      BY ParamsAre
    <2>2. PathParams(path) = reg.params
      OBVIOUS
    <2> HIDE DEF params, path
    <2> QED
      BY <2>1, <2>2
  <1>4. /\ DOMAIN url = 1..Len(path)
        /\ \A i \in 1..Len(path) :
             url[i] = IF IsParam(path[i]) THEN <<"enc", ParamName[path[i]]>> ELSE <<path[i]>>
    BY <1>1, UrlIs
  <1>5. encoded = ParamsIn(path, Len(path))
    <2> HIDE DEF path, url
    <2>1. \A x, y : Len(<<x, y>>) = 2 /\ Len(<<x>>) = 1
      OBVIOUS
    <2>2. \A i \in 1..Len(path) : Len(url[i]) = 2 <=> IsParam(path[i])
      <3> TAKE i \in 1..Len(path)
      <3>1. CASE IsParam(path[i])
        BY <1>4, <2>1, <3>1
      <3>2. CASE ~IsParam(path[i])
        <4>1. url[i] = <<path[i]>>
          BY <1>4, <3>2
        <4> QED
          BY <2>1, <3>2, <4>1
      <3> QED
        BY <3>1, <3>2
    <2> QED
      BY <1>4, <2>2 DEF ParamsIn
  <1> HIDE DEF path, url, params, encoded
  <1>6. at \in [DOMAIN params -> encoded]
    BY <1>2, <1>3, <1>5 DEF Comes
  <1>7. \A j, k \in DOMAIN params : j < k => at[j] < at[k]
    BY <1>2, <1>3 DEF Comes
  <1>8. \A i \in encoded : \E k \in DOMAIN params : at[k] = i
    BY <1>2, <1>3, <1>5 DEF Comes
  <1>9. \A k \in DOMAIN params : url[at[k]] = <<"enc", params[k].name>>
    <2> TAKE k \in DOMAIN params
    <2>1. at[k] \in 1..Len(path) /\ IsParam(path[at[k]])
      BY <1>5, <1>6 DEF ParamsIn
    <2>2. params[k].name = ParamName[path[at[k]]]
      BY <1>2, <1>3 DEF Comes
    <2> QED
      BY <1>4, <2>1, <2>2
  <1> QED
    BY <1>6, <1>7, <1>8, <1>9 DEF InOrder, url, params, encoded

LEMMA ReachingIsShape ==
  ASSUME NEW path \in AllPaths, NEW f, f.url = Url(path), ~Escaped(f),
         NEW t \in Routes, Reaches(f, t)
  PROVE  SameShape(path, t.path)
  <1>1. Len(t.path) = Len(path) /\ DOMAIN f.url = 1..Len(path) /\ DOMAIN path = 1..Len(path)
    BY UrlIs DEF Reaches
  <1> SUFFICES ASSUME NEW i \in 1..Len(path)
               PROVE  \/ IsParam(path[i]) /\ IsParam(t.path[i])
                      \/ ~IsParam(path[i]) /\ ~IsParam(t.path[i])
                           /\ LiteralOf(path[i]) = LiteralOf(t.path[i])
    BY <1>1 DEF SameShape
  <1>2. f.url[i] = IF IsParam(path[i]) THEN <<"enc", ParamName[path[i]]>> ELSE <<path[i]>>
    BY UrlIs
  <1>3. f.url[i] = IF IsParam(t.path[i]) THEN <<"enc", ParamName[t.path[i]]>>
                                         ELSE <<LiteralOf(t.path[i])>>
    BY <1>1 DEF Reaches
  <1>4. ~IsParam(path[i]) => LiteralOf(path[i]) = path[i]
    BY <1>1, <1>2 DEF Escaped, LiteralOf
  <1>5. \A x, y, z : <<x, y>> # <<z>>
    OBVIOUS
  <1>6. CASE IsParam(path[i])
    <2>1. f.url[i] = <<"enc", ParamName[path[i]]>>
      BY <1>2, <1>6
    <2>2. IsParam(t.path[i])
      BY <1>3, <1>5, <2>1
    <2> QED
      BY <1>6, <2>2
  <1>7. CASE ~IsParam(path[i])
    <2>1. f.url[i] = <<path[i]>>
      BY <1>2, <1>7
    <2>2. ~IsParam(t.path[i])
      BY <1>3, <1>5, <2>1
    <2>3. \A x, y : <<x>> = <<y>> => x = y
      OBVIOUS
    <2>4. f.url[i] = <<LiteralOf(t.path[i])>>
      BY <1>3, <2>2
    <2>5. path[i] = LiteralOf(t.path[i])
      BY <2>1, <2>3, <2>4
    <2> QED
      BY <1>4, <1>7, <2>2, <2>5
  <1> QED
    BY <1>6, <1>7

LEMMA Reaching ==
  ASSUME ExportInv, RunOK, PipeOK, RouteOK
  PROVE  ClientReachesItsHandler
  <1> SUFFICES ASSUME Generated, NEW f \in client.fns, ~Escaped(f), ~UnderSlash(f)
               PROVE  /\ \E s \in served[App] : Reaches(f, s)
                      /\ \A s \in served[App] : Reaches(f, s) => s.fqname = f.fqname
                      /\ InOrder(f.params, f.url)
    BY DEF ClientReachesItsHandler
  <1>1. PICK d \in file.handlers, reg \in Regs :
          /\ f = FnOf(reg, d) /\ reg.fqname = d.fqname
          /\ reg.params = PathParams(reg.path)
          /\ \E s \in served[App] : Stands(s, reg)
    BY JoinOf
  <1>2. PICK s \in served[App] : Stands(s, reg)
    BY <1>1
  <1>3. /\ f.url = Url(reg.path) /\ f.method = reg.method /\ f.fqname = reg.fqname
        /\ reg.path \in AllPaths
    BY <1>1, FnIs DEF Regs
  <1>4. served[App] \in SUBSET Routes /\ Apart(served[App])
    BY WhenGenerated, RouteAssumption DEF RouteOK, RouteTypeOK
  <1>5. s.path = reg.path
    <2>1. CASE s.path = Append(reg.path, Blank)
      <3>1. Len(s.path) = Len(reg.path) + 1 /\ Len(reg.path) \in Nat /\ Len(f.url) = Len(reg.path)
        BY <1>3, <2>1, UrlIs, RouteAssumption DEF AllPaths
      <3>2. s.fqname = f.fqname
        BY <1>2, <1>3 DEF Stands
      <3> QED
        BY <3>1, <3>2 DEF UnderSlash
    <2> QED
      BY <1>2, <2>1 DEF Stands
  <1>6. Reaches(f, s)
    <2>1. s.method = f.method /\ Len(s.path) = Len(f.url) /\ DOMAIN f.url = 1..Len(reg.path)
      BY <1>2, <1>3, <1>5, UrlIs DEF Stands
    <2>2. \A i \in DOMAIN f.url :
            f.url[i] = IF IsParam(s.path[i]) THEN <<"enc", ParamName[s.path[i]]>>
                                             ELSE <<LiteralOf(s.path[i])>>
      <3> TAKE i \in DOMAIN f.url
      <3>1. f.url[i] = IF IsParam(s.path[i]) THEN <<"enc", ParamName[s.path[i]]>>
                                             ELSE <<s.path[i]>>
        BY <1>3, <1>5, <2>1, UrlIs
      <3>2. ~IsParam(s.path[i]) => LiteralOf(s.path[i]) = s.path[i]
        BY <3>1 DEF Escaped, LiteralOf
      <3> QED
        BY <3>1, <3>2
    <2> QED
      BY <2>1, <2>2 DEF Reaches
  <1>7. ASSUME NEW t \in served[App], Reaches(f, t)
        PROVE  t.fqname = f.fqname
    <2>1. SameShape(s.path, t.path)
      BY <1>3, <1>4, <1>5, <1>7, ReachingIsShape
    <2>2. t.method = s.method
      BY <1>2, <1>3, <1>7 DEF Reaches, Stands
    <2>3. s = t
      BY <1>4, <2>1, <2>2 DEF Apart
    <2> QED
      BY <1>2, <1>3, <2>3 DEF Stands
  <1>8. InOrder(f.params, f.url)
    BY <1>1, <1>3, OrderOfParams
  <1> QED
    BY <1>6, <1>7, <1>8

-----------------------------------------------------------------------------
(* The theorems of the pipeline. *)

PipelineInv == ExportInv /\ RunOK /\ PipeOK /\ RouteOK

\* The invariant of the whole recipe: the tests and their file, the run, the
\* phase that is under way and what it has joined, and every router.
THEOREM PipelineInductive == PipelineSpec => []PipelineInv
  <1>1. PipelineInit => PipelineInv
    BY InitInv, RunInit, PipeInit, RouteInitOK DEF PipelineInit, PipelineInv
  <1>2. PipelineInv /\ [PipelineNext]_vars => PipelineInv'
    <2> SUFFICES ASSUME PipelineInv, [PipelineNext]_vars
                 PROVE  PipelineInv'
      OBVIOUS
    <2>1. ExportInv /\ RunOK /\ PipeOK /\ RouteOK /\ [ExportNext]_exportVars
      BY ExportsAdvance DEF PipelineInv
    <2>2. ExportInv'
      BY <2>1, StepInv DEF StepOK
    <2>3. RunOK' /\ PipeOK' /\ RouteOK'
      BY <2>1, RunStep, PipeStep, RoutesAdvance
    <2> QED
      BY <2>2, <2>3 DEF PipelineInv
  <1> QED
    BY <1>1, <1>2, PTL DEF PipelineSpec

\* The recipe runs the export tests as they are: what ExportSpec promises, its
\* refinement of HandlerTable among it, holds of the pipeline
\* (export.rs:194-224, under the recipe that runs them).
THEOREM PipelineExports == PipelineSpec => ExportSpec
  <1>1. PipelineInit => ExportInit
    BY DEF PipelineInit
  <1> QED
    BY <1>1, ExportsAdvance, PTL DEF PipelineSpec, ExportSpec

\* No export is lost in any run of the recipe, whatever the one before left in
\* the directory (export.rs:194-224).
THEOREM PipelineKeepsExports == PipelineSpec => []NoExportLost
  BY PipelineExports, ExportsKept, PTL

\* In the recipe too the tests share the table of HandlerTable (export.rs:194-224).
THEOREM PipelineRefines == PipelineSpec => AppendIsOneStep
  BY PipelineExports, ExportRefines, PTL

\* Whatever is nested in what and merged with what, what the router recorded is
\* what axum serves (router.rs:51-171).
THEOREM TableIsServed == PipelineSpec => []TableIsTheApp
  <1>1. PipelineInv => TableIsTheApp
    BY TableHolds DEF PipelineInv
  <1> QED
    BY <1>1, PipelineInductive, PTL

\* Each recorded route of the API has its function, and only one
\* (generate.rs:302-340).
THEOREM ApiIsCovered == PipelineSpec => []ClientCoversTheApi
  <1>1. PipelineInv => ClientCoversTheApi
    BY Coverage DEF PipelineInv
  <1> QED
    BY <1>1, PipelineInductive, PTL

\* A function of the client asks for its own handler, and its parameters stand
\* in the order of the URL (router.rs:55-171, manifest.rs:19-29,
\* generate.rs:190-300).
THEOREM HandlerIsReached == PipelineSpec => []ClientReachesItsHandler
  <1>1. PipelineInv => ClientReachesItsHandler
    BY Reaching DEF PipelineInv
  <1> QED
    BY <1>1, PipelineInductive, PTL

\* A function has the types its handler has in the source of this run, whatever
\* an earlier run left in the directory (export.rs:194-224, generate.rs:190-300).
THEOREM TypesAreCurrent == PipelineSpec => []SignaturesAreCurrent
  <1>1. PipelineInv => SignaturesAreCurrent
    BY Signatures DEF PipelineInv
  <1> QED
    BY <1>1, PipelineInductive, PTL

\* In a new directory the client has the functions of the annotated handlers and
\* no other, and a refusal is about a handler that is there
\* (export.rs:194-224, generate.rs:190-300).
THEOREM NewIsExact == PipelineSpec => []NewDirectoryIsExact
  <1>1. PipelineInv => NewDirectoryIsExact
    BY Exactness DEF PipelineInv
  <1> QED
    BY <1>1, PipelineInductive, PTL
=============================================================================
