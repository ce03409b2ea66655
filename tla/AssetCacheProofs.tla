-------------------------- MODULE AssetCacheProofs --------------------------
(* Safety of the asset cache for any number of callers, names, files and     *)
(* writes, as long as no two writes leave the same mtime.                    *)
EXTENDS AssetCache, TLAPS

LEMMA NewCallIsACall ==
  /\ NewCall \in CallState
  /\ NewCall.pc = "idle" /\ NewCall.result = None
  BY CacheAssumption DEF NewCall, CallState, Time

LEMMA InitInv == Init => IInv
  <1> SUFFICES ASSUME Init PROVE IInv
    OBVIOUS
  <1>1. 0 \in Time
    BY CacheAssumption DEF Time
  <1>2. TypeOK
    BY <1>1, NewCallIsACall DEF Init, TypeOK, Pinned
  <1>3. FilesApart
    BY DEF Init, FilesApart
  <1>4. \A c \in Caller : call[c].pc = "idle" /\ call[c].result = None
    BY NewCallIsACall DEF Init
  <1>5. CallsAgree
    BY <1>4 DEF CallsAgree, Statted
  <1>6. Pairs = {}
    <2>1. \A n \in Name : entries[n] = None
      BY DEF Init
    <2>2. QED
      BY <1>4, <2>1 DEF Pairs
  <1>7. PairsOK
    BY <1>6 DEF PairsOK
  <1>8. EntriesPinned
    BY DEF Init, EntriesPinned
  <1>9. \A c \in Caller : CallOK(c)
    BY <1>4, CacheAssumption DEF CallOK, Statted
  <1>10. QED
    BY <1>2, <1>3, <1>5, <1>7, <1>8, <1>9 DEF IInv

-----------------------------------------------------------------------------
(* Steps of static_file: one call moves, the files stay.                     *)

\* Nothing new is stored, and no call looks for what it had not looked for.
LEMMA PairsShrink ==
  ASSUME IInv, Pairs' \subseteq Pairs, UNCHANGED <<files, clock>>,
         \A d \in Caller : call'[d].pc = "lookup" =>
           call[d].pc = "lookup" /\ call'[d].mtime = call[d].mtime /\ had'[d] = had[d]
  PROVE  PairsOK'
  <1> SUFFICES ASSUME NEW e \in Pairs'
               PROVE  /\ e.mtime <= clock'
                      /\ \A p \in Path : files'[p] # None /\ files'[p].mtime = e.mtime =>
                                           files'[p].content = e.bytes
                      /\ \A d \in Caller : call'[d].pc = "lookup" /\ call'[d].mtime = e.mtime =>
                                             e.bytes \in had'[d]
    BY DEF PairsOK
  <1>1. e \in Pairs
    OBVIOUS
  <1>2. QED
    BY <1>1 DEF IInv, PairsOK

\* The call of c becomes u; the rest of the invariant is what is left to show.
LEMMA CallMoves ==
  ASSUME IInv, NEW c \in Caller, NEW u \in CallState,
         call' = [call EXCEPT ![c] = u],
         UNCHANGED <<link, files, clock, boot>>,
         entries' \in [Name -> Entry \cup {None}],
         had' \in [Caller -> SUBSET Content],
         \A d \in Caller : d # c => had'[d] = had[d],
         EntriesPinned', PairsOK', CallOK(c)',
         u.pc \in {"lookup", "read", "insert"} =>
           \A d \in Caller : Statted(d) /\ call[d].mtime = u.mtime => call[d].path = u.path
  PROVE  IInv'
  <1>1. TypeOK'
    BY DEF IInv, TypeOK
  <1>2. FilesApart'
    BY DEF IInv, FilesApart
  <1>3. call'[c] = u /\ \A d \in Caller : d # c => call'[d] = call[d]
    BY DEF IInv, TypeOK
  <1>4. CallsAgree'
    BY <1>3 DEF IInv, CallsAgree, Statted
  <1>5. \A d \in Caller : CallOK(d)'
    <2> TAKE d \in Caller
    <2>1. CASE d = c
      BY <2>1
    <2>2. CASE d # c
      BY <2>2, <1>3 DEF IInv, CallOK, Statted
    <2>3. QED
      BY <2>1, <2>2
  <1>6. QED
    BY <1>1, <1>2, <1>4, <1>5 DEF IInv

\* The call ends with r, which is no content or one that it may return.
LEMMA ReturnsStep ==
  ASSUME IInv, NEW c \in Caller, call[c].name \in Name,
         NEW r \in Content \cup {"missing", "unsafe", "mismatch"},
         r \in Content => r \in had[c] /\ PinAllows(call[c].name, r),
         Returns(c, r), had' = had,
         entries' \in [Name -> Entry \cup {None}], EntriesPinned', Pairs' \subseteq Pairs
  PROVE  IInv'
  <1> DEFINE u == [NewCall EXCEPT !.result = r, !.name = call[c].name]
  <1>1. u \in CallState
    BY NewCallIsACall DEF CallState
  <1>2. u.pc = "idle" /\ u.result = r /\ u.name = call[c].name
    BY NewCallIsACall DEF CallState
  <1>3. call' = [call EXCEPT ![c] = u] /\ UNCHANGED <<link, files, clock, boot>>
    BY DEF Returns
  <1> HIDE DEF u
  <1>4. call'[c] = u /\ \A d \in Caller : d # c => call'[d] = call[d]
    BY <1>3 DEF IInv, TypeOK
  <1>5. PairsOK'
    BY <1>2, <1>3, <1>4, PairsShrink
  <1>6. CallOK(c)'
    BY <1>2, <1>4 DEF CallOK, Statted, PinAllows
  <1>7. had' \in [Caller -> SUBSET Content]
    BY DEF IInv, TypeOK
  <1>8. QED
    BY <1>1, <1>2, <1>3, <1>5, <1>6, <1>7, CallMoves

LEMMA SamePairs ==
  ASSUME NEW c \in Caller, NEW u, call \in [Caller -> CallState],
         call' = [call EXCEPT ![c] = u], u.pc # "insert", entries' = entries
  PROVE  Pairs' \subseteq Pairs
  <1>1. \A d \in Caller : d # c => call'[d] = call[d]
    OBVIOUS
  <1>2. call'[c].pc # "insert"
    OBVIOUS
  <1>3. QED
    BY <1>1, <1>2 DEF Pairs

LEMMA ReturnsKeepsPairs ==
  ASSUME NEW c \in Caller, NEW r, call \in [Caller -> CallState], Returns(c, r),
         entries' = entries
  PROVE  Pairs' \subseteq Pairs
  <1> DEFINE u == [NewCall EXCEPT !.result = r, !.name = call[c].name]
  <1>1. u.pc = "idle"
    BY NewCallIsACall DEF NewCall
  <1>2. call' = [call EXCEPT ![c] = u]
    BY DEF Returns
  <1> HIDE DEF u
  <1>3. QED
    BY <1>1, <1>2, SamePairs

LEMMA ResolvedFile ==
  ASSUME TypeOK, NEW n \in Name, Resolved(n) \in Path
  PROVE  files[Resolved(n)] # None
  BY CacheAssumption DEF Resolved, TypeOK

LEMMA VerifiedBytes ==
  ASSUME TypeOK, NEW n \in Name, NEW p \in Path
  PROVE  /\ Verified(n, p) \in Content \cup {"missing", "mismatch"}
         /\ Verified(n, p) \in Content => /\ files[p] # None /\ Verified(n, p) = files[p].content
                                          /\ PinAllows(n, Verified(n, p))
  <1>1. files[p] # None => files[p] \in File /\ files[p].content \in Content
    BY DEF TypeOK, File
  <1>2. QED
    BY <1>1, CacheAssumption DEF Verified, PinAllows

LEMMA BeginStep ==
  ASSUME IInv, NEW c \in Caller, NEW n \in Name, Begin(c, n)
  PROVE  IInv'
  <1>1. TypeOK /\ EntriesPinned' /\ entries' = entries /\ entries \in [Name -> Entry \cup {None}]
        /\ UNCHANGED <<link, files, clock, boot>> /\ call \in [Caller -> CallState]
    BY DEF IInv, TypeOK, Begin, EntriesPinned
  <1>2. CASE Resolved(n) \in Path
    <2> DEFINE u == [NewCall EXCEPT !.pc = "stat", !.name = n, !.path = Resolved(n)]
    <2>1. u \in CallState
      BY <1>2, NewCallIsACall DEF CallState
    <2>2. u.pc = "stat" /\ u.name = n /\ u.path = Resolved(n) /\ u.result = None
      BY NewCallIsACall DEF CallState
    <2>3. call' = [call EXCEPT ![c] = u] /\ had' = [had EXCEPT ![c] = {files[Resolved(n)].content}]
      BY <1>2 DEF Begin
    <2> HIDE DEF u
    <2>4. files[Resolved(n)] # None /\ files[Resolved(n)] \in File
      BY <1>1, <1>2, ResolvedFile DEF TypeOK
    <2>5. files[Resolved(n)].content \in Content
      BY <2>4 DEF File
    <2>6. had' \in [Caller -> SUBSET Content] /\ had'[c] = {files[Resolved(n)].content}
          /\ \A d \in Caller : d # c => had'[d] = had[d]
      BY <1>1, <2>3, <2>5 DEF TypeOK
    <2>7. call'[c] = u /\ \A d \in Caller : d # c => call'[d] = call[d]
      BY <1>1, <2>3
    <2>8. Pairs' \subseteq Pairs
      BY <1>1, <2>2, <2>3, SamePairs
    <2>9. PairsOK'
      BY <1>1, <2>2, <2>6, <2>7, <2>8, PairsShrink
    <2>10. CallOK(c)'
      BY <1>1, <1>2, <2>2, <2>6, <2>7, CacheAssumption DEF CallOK, Statted
    <2>11. QED
      BY <1>1, <2>1, <2>2, <2>3, <2>6, <2>9, <2>10, CallMoves
  <1>3. CASE Resolved(n) \notin Path
    <2> DEFINE u == [NewCall EXCEPT !.name = n, !.result = Resolved(n)]
    <2>1. Resolved(n) \in {"missing", "unsafe"}
      BY <1>1, <1>3 DEF Resolved, TypeOK
    <2>2. u \in CallState
      BY <2>1, NewCallIsACall DEF CallState
    <2>3. u.pc = "idle" /\ u.name = n /\ u.result = Resolved(n)
      BY NewCallIsACall DEF CallState
    <2>4. call' = [call EXCEPT ![c] = u] /\ had' = [had EXCEPT ![c] = {}]
      BY <1>3 DEF Begin
    <2> HIDE DEF u
    <2>5. had' \in [Caller -> SUBSET Content] /\ \A d \in Caller : d # c => had'[d] = had[d]
      BY <1>1, <2>4 DEF TypeOK
    <2>6. call'[c] = u /\ \A d \in Caller : d # c => call'[d] = call[d]
      BY <1>1, <2>4
    <2>7. Pairs' \subseteq Pairs
      BY <1>1, <2>3, <2>4, SamePairs
    <2>8. PairsOK'
      BY <1>1, <2>3, <2>5, <2>6, <2>7, PairsShrink
    <2>9. CallOK(c)'
      BY <2>1, <2>3, <2>6, CacheAssumption DEF CallOK, Statted
    <2>10. QED
      BY <1>1, <2>2, <2>3, <2>4, <2>5, <2>8, <2>9, CallMoves
  <1>4. QED
    BY <1>2, <1>3

\* The mtime found is of this file and no other; a pair that bears it holds
\* the file's present content.
LEMMA StatStep ==
  ASSUME IInv, NEW c \in Caller, Stat(c)
  PROVE  IInv'
  <1>1. /\ TypeOK /\ EntriesPinned' /\ entries' = entries /\ had' = had
        /\ entries \in [Name -> Entry \cup {None}] /\ had \in [Caller -> SUBSET Content]
        /\ call \in [Caller -> CallState] /\ CallOK(c)
        /\ call[c].name \in Name /\ call[c].path \in Path
    BY DEF IInv, TypeOK, Stat, EntriesPinned, CallOK
  <1>2. CASE files[call[c].path] = None
    <2>1. Returns(c, "missing")
      BY <1>2 DEF Stat
    <2>2. Pairs' \subseteq Pairs
      BY <1>1, <2>1, ReturnsKeepsPairs
    <2>3. QED
      BY <1>1, <2>1, <2>2, CacheAssumption, ReturnsStep
  <1>3. CASE files[call[c].path] # None
    <2> DEFINE m == files[call[c].path].mtime
               u == [call[c] EXCEPT !.pc = "lookup", !.mtime = m]
    <2>1. m \in Time
      BY <1>1, <1>3 DEF TypeOK, File
    <2> HIDE DEF m
    <2>2. u \in CallState
      BY <1>1, <2>1 DEF CallState
    <2>3. /\ u.pc = "lookup" /\ u.mtime = m /\ u.name = call[c].name /\ u.path = call[c].path
          /\ u.result = call[c].result
      BY <1>1 DEF CallState
    <2>4. call' = [call EXCEPT ![c] = u] /\ UNCHANGED <<link, files, clock, boot>>
      BY <1>1, <1>3 DEF Stat, m
    <2> HIDE DEF u
    <2>5. call'[c] = u /\ \A d \in Caller : d # c => call'[d] = call[d]
      BY <1>1, <2>4
    <2>6. m <= clock /\ \A p \in Path : files[p] # None /\ files[p].mtime = m => p = call[c].path
      BY <1>1, <1>3 DEF IInv, FilesApart, m
    <2>7. CallOK(c)'
      <3>1. (call[c].pc # "idle" =>
               /\ call[c].name \in Name /\ call[c].path \in Path
               /\ files[call[c].path] # None => files[call[c].path].content \in had[c])'
        BY <1>1, <2>3, <2>4, <2>5 DEF CallOK, Stat
      <3>2. (Statted(c) =>
               /\ call[c].mtime <= clock
               /\ \A p \in Path :
                    files[p] # None /\ files[p].mtime = call[c].mtime => p = call[c].path)'
        BY <2>3, <2>4, <2>5, <2>6 DEF Statted
      <3>3. (call[c].result \in Content =>
               call[c].result \in had[c] /\ PinAllows(call[c].name, call[c].result))'
        BY <1>1, <2>3, <2>5 DEF CallOK, PinAllows
      <3>4. QED
        BY <2>3, <2>5, <3>1, <3>2, <3>3 DEF CallOK, PinAllows, Statted
    <2>8. Pairs' \subseteq Pairs
      BY <1>1, <2>3, <2>4, SamePairs
    <2>9. PairsOK'
      <3> SUFFICES ASSUME NEW e \in Pairs
                   PROVE  /\ e.mtime <= clock
                          /\ \A p \in Path : files[p] # None /\ files[p].mtime = e.mtime =>
                                               files[p].content = e.bytes
                          /\ \A d \in Caller : call'[d].pc = "lookup" /\ call'[d].mtime = e.mtime
                                                 => e.bytes \in had[d]
        BY <1>1, <2>4, <2>8 DEF PairsOK
      <3>1. e.mtime = m => e.bytes \in had[c]
        BY <1>1, <1>3 DEF IInv, PairsOK, CallOK, Stat, m
      <3>2. QED
        BY <2>3, <2>5, <3>1 DEF IInv, PairsOK
    <2>10. \A d \in Caller : Statted(d) /\ call[d].mtime = m => call[d].path = call[c].path
      BY <1>1, <1>3 DEF IInv, CallOK, m
    <2>11. QED
      BY <1>1, <2>2, <2>3, <2>4, <2>7, <2>9, <2>10, CallMoves
  <1>4. QED
    BY <1>2, <1>3

LEMMA HitStep ==
  ASSUME IInv, NEW c \in Caller, Hit(c)
  PROVE  IInv'
  <1> DEFINE entry == entries[call[c].name]
  <1>1. /\ TypeOK /\ EntriesPinned' /\ entries' = entries /\ had' = had
        /\ entries \in [Name -> Entry \cup {None}] /\ call \in [Caller -> CallState]
        /\ call[c].pc = "lookup" /\ call[c].name \in Name
        /\ entry # None /\ entry.mtime = call[c].mtime /\ Returns(c, entry.bytes)
    BY DEF IInv, TypeOK, Hit, EntriesPinned, CallOK
  <1>2. entry \in Entry /\ entry.bytes \in Content
    BY <1>1 DEF Entry
  <1>3. entry \in Pairs
    BY <1>1, <1>2 DEF Pairs
  <1>4. entry.bytes \in had[c] /\ PinAllows(call[c].name, entry.bytes)
    BY <1>1, <1>3 DEF IInv, PairsOK, EntriesPinned
  <1>5. Pairs' \subseteq Pairs
    BY <1>1, ReturnsKeepsPairs
  <1>6. QED
    BY <1>1, <1>2, <1>4, <1>5, ReturnsStep

LEMMA MissStep ==
  ASSUME IInv, NEW c \in Caller, Miss(c)
  PROVE  IInv'
  <1> DEFINE u == [call[c] EXCEPT !.pc = "read"]
  <1>1. /\ EntriesPinned' /\ entries' = entries /\ had' = had
        /\ entries \in [Name -> Entry \cup {None}] /\ had \in [Caller -> SUBSET Content]
        /\ call \in [Caller -> CallState] /\ CallOK(c) /\ call[c].pc = "lookup"
    BY DEF IInv, TypeOK, Miss, EntriesPinned
  <1>2. u \in CallState
    BY <1>1 DEF CallState
  <1>3. /\ u.pc = "read" /\ u.mtime = call[c].mtime /\ u.name = call[c].name
        /\ u.path = call[c].path /\ u.result = call[c].result
    BY <1>1 DEF CallState
  <1>4. call' = [call EXCEPT ![c] = u] /\ UNCHANGED <<link, files, clock, boot>>
    BY <1>1 DEF Miss
  <1> HIDE DEF u
  <1>5. call'[c] = u /\ \A d \in Caller : d # c => call'[d] = call[d]
    BY <1>1, <1>4
  <1>6. CallOK(c)'
    BY <1>1, <1>3, <1>4, <1>5 DEF CallOK, Statted
  <1>7. Pairs' \subseteq Pairs
    BY <1>1, <1>3, <1>4, SamePairs
  <1>8. PairsOK'
    BY <1>1, <1>3, <1>4, <1>5, <1>7, PairsShrink
  <1>9. \A d \in Caller : Statted(d) /\ call[d].mtime = u.mtime => call[d].path = u.path
    BY <1>1, <1>3 DEF IInv, CallsAgree, Statted
  <1>10. QED
    BY <1>1, <1>2, <1>3, <1>4, <1>6, <1>8, <1>9, CallMoves

\* The bytes read are the file's present content, and if some file still has
\* the mtime found before, it is this one.
LEMMA ReadStep ==
  ASSUME IInv, NEW c \in Caller, Read(c)
  PROVE  IInv'
  <1> DEFINE bytes == Verified(call[c].name, call[c].path)
  <1>1. /\ TypeOK /\ EntriesPinned' /\ entries' = entries /\ had' = had
        /\ entries \in [Name -> Entry \cup {None}] /\ had \in [Caller -> SUBSET Content]
        /\ call \in [Caller -> CallState] /\ CallOK(c) /\ call[c].pc = "read"
        /\ call[c].name \in Name /\ call[c].path \in Path
    BY DEF IInv, TypeOK, Read, EntriesPinned, CallOK
  <1>2. /\ bytes \in Content \cup {"missing", "mismatch"}
        /\ bytes \in Content => /\ files[call[c].path] # None
                                /\ bytes = files[call[c].path].content
                                /\ PinAllows(call[c].name, bytes)
    BY <1>1, VerifiedBytes
  <1> HIDE DEF bytes
  <1>3. CASE bytes \notin Content
    <2>1. Returns(c, bytes)
      BY <1>3 DEF Read, bytes
    <2>2. Pairs' \subseteq Pairs
      BY <1>1, <2>1, ReturnsKeepsPairs
    <2>3. QED
      BY <1>1, <1>2, <1>3, <2>1, <2>2, ReturnsStep
  <1>4. CASE bytes \in Content
    <2> DEFINE u == [call[c] EXCEPT !.pc = "insert", !.bytes = bytes]
               new == [mtime |-> call[c].mtime, bytes |-> bytes]
    <2>1. u \in CallState
      BY <1>1, <1>4 DEF CallState
    <2>2. /\ u.pc = "insert" /\ u.mtime = call[c].mtime /\ u.name = call[c].name
          /\ u.path = call[c].path /\ u.result = call[c].result /\ u.bytes = bytes
      BY <1>1 DEF CallState
    <2>3. call' = [call EXCEPT ![c] = u] /\ UNCHANGED <<link, files, clock, boot>>
      BY <1>1, <1>4 DEF Read, bytes
    <2> HIDE DEF u
    <2>4. call'[c] = u /\ \A d \in Caller : d # c => call'[d] = call[d]
      BY <1>1, <2>3
    <2>5. bytes \in had[c]
      BY <1>1, <1>2, <1>4 DEF CallOK
    <2>6. CallOK(c)'
      BY <1>1, <1>2, <1>4, <2>2, <2>3, <2>4, <2>5 DEF CallOK, Statted, PinAllows
    <2>7. \A e \in Pairs' : e \in Pairs \/ e = new
      BY <1>1, <2>2, <2>4 DEF Pairs
    <2>8. new.mtime = call[c].mtime /\ new.bytes = bytes
      OBVIOUS
    <2> HIDE DEF new
    <2>9. PairsOK'
      <3> SUFFICES ASSUME NEW e \in Pairs'
                   PROVE  /\ e.mtime <= clock
                          /\ \A p \in Path : files[p] # None /\ files[p].mtime = e.mtime =>
                                               files[p].content = e.bytes
                          /\ \A d \in Caller : call'[d].pc = "lookup" /\ call'[d].mtime = e.mtime
                                                 => e.bytes \in had[d]
        BY <1>1, <2>3 DEF PairsOK
      <3>1. CASE e \in Pairs
        BY <1>1, <2>2, <2>4, <3>1 DEF IInv, PairsOK
      <3>2. CASE e = new
        <4>1. e.mtime <= clock
          BY <1>1, <2>8, <3>2 DEF CallOK, Statted
        <4>2. \A p \in Path : files[p] # None /\ files[p].mtime = e.mtime =>
                                files[p].content = e.bytes
          BY <1>1, <1>2, <1>4, <2>8, <3>2 DEF CallOK, Statted
        <4>3. ASSUME NEW d \in Caller, call'[d].pc = "lookup", call'[d].mtime = e.mtime
              PROVE  e.bytes \in had[d]
          <5>1. call'[d] = call[d]
            BY <2>2, <2>4, <4>3
          <5>2. call[d].path = call[c].path
            BY <1>1, <2>8, <3>2, <4>3, <5>1 DEF IInv, CallsAgree, Statted
          <5>3. QED
            BY <1>2, <1>4, <2>8, <3>2, <4>3, <5>1, <5>2 DEF IInv, CallOK
        <4>4. QED
          BY <4>1, <4>2, <4>3
      <3>3. QED
        BY <2>7, <3>1, <3>2
    <2>10. \A d \in Caller : Statted(d) /\ call[d].mtime = u.mtime => call[d].path = u.path
      BY <1>1, <2>2 DEF IInv, CallsAgree, Statted
    <2>11. QED
      BY <1>1, <2>1, <2>2, <2>3, <2>6, <2>9, <2>10, CallMoves
  <1>5. QED
    BY <1>3, <1>4

\* What the cache gets is what the call was about to put there.
LEMMA InsertStep ==
  ASSUME IInv, NEW c \in Caller, Insert(c)
  PROVE  IInv'
  <1> DEFINE new == [mtime |-> call[c].mtime, bytes |-> call[c].bytes]
             u == [NewCall EXCEPT !.result = call[c].bytes, !.name = call[c].name]
  <1>1. /\ TypeOK /\ EntriesPinned /\ had' = had /\ call[c].pc = "insert"
        /\ entries \in [Name -> Entry \cup {None}] /\ call \in [Caller -> CallState]
        /\ call[c].name \in Name /\ call[c].bytes \in Content \cap had[c]
        /\ PinAllows(call[c].name, call[c].bytes) /\ Returns(c, call[c].bytes)
    BY DEF IInv, TypeOK, Insert, CallOK
  <1>2. new \in Entry
    BY <1>1 DEF Entry, CallState
  <1>3. entries' = [entries EXCEPT ![call[c].name] = new]
    BY DEF Insert, Stamp
  <1>4. entries' \in [Name -> Entry \cup {None}]
    BY <1>1, <1>2, <1>3
  <1>5. new.bytes = call[c].bytes
    OBVIOUS
  <1>6. new \in Pairs
    BY <1>1, <1>2 DEF Pairs
  <1> HIDE DEF new
  <1>7. EntriesPinned'
    BY <1>1, <1>3, <1>5 DEF EntriesPinned, PinAllows
  <1>8. u.pc = "idle" /\ call' = [call EXCEPT ![c] = u]
    BY <1>1, NewCallIsACall DEF Returns, NewCall
  <1> HIDE DEF u
  <1>9. Pairs' \subseteq Pairs
    <2>1. call'[c] = u /\ \A d \in Caller : d # c => call'[d] = call[d]
      BY <1>1, <1>8
    <2>2. \A n \in Name : entries'[n] = entries[n] \/ entries'[n] = new
      BY <1>1, <1>3
    <2>3. QED
      BY <1>6, <1>8, <2>1, <2>2 DEF Pairs
  <1>10. QED
    BY <1>1, <1>4, <1>7, <1>9, ReturnsStep

-----------------------------------------------------------------------------
(* The environment.                                                          *)

\* The mtime of a write is no other file's, no entry's and no call's: this is
\* where a coarse clock would break the invariant.
LEMMA WriteStep ==
  ASSUME IInv, ~Coarse, NEW p \in Path, NEW content \in Content, Write(p, content)
  PROVE  IInv'
  <1>1. PICK t \in Stamps :
          files' = [files EXCEPT ![p] = [content |-> content, mtime |-> t]] /\ clock' = t
    BY DEF Write
  <1> DEFINE file == [content |-> content, mtime |-> t]
  <1>2. t = clock + 1 /\ t \in Time /\ clock \in Nat
    BY DEF Stamps, IInv, TypeOK, Time
  <1>3. TypeOK /\ UNCHANGED <<link, boot, entries, call>>
        /\ had' = [c \in Caller |-> IF call[c].path = p THEN had[c] \cup {content} ELSE had[c]]
    BY DEF IInv, Write
  <1>4. file \in File /\ file.content = content /\ file.mtime = t
    BY <1>2 DEF File
  <1> HIDE DEF file
  <1>5. files'[p] = file /\ \A q \in Path : q # p => files'[q] = files[q]
    BY <1>1, <1>3 DEF TypeOK, file
  <1>6. \A c \in Caller : had[c] \subseteq had'[c] /\ had'[c] \subseteq Content
                          /\ (call[c].path = p => content \in had'[c])
    BY <1>3 DEF TypeOK
  <1>7. TypeOK'
    <2>1. had' \in [Caller -> SUBSET Content]
      BY <1>3, <1>6
    <2>2. files' \in [Path -> File \cup {None}]
      BY <1>1, <1>3, <1>4 DEF TypeOK, file
    <2>3. QED
      BY <1>1, <1>2, <1>3, <2>1, <2>2 DEF TypeOK
  <1>8. \A q \in Path : files[q] # None => files[q].mtime \in Nat /\ files[q].mtime <= clock
    BY <1>3 DEF IInv, FilesApart, TypeOK, File, Time
  <1>9. FilesApart'
    BY <1>1, <1>2, <1>4, <1>5, <1>8 DEF IInv, FilesApart
  <1>10. CallsAgree'
    BY <1>3 DEF IInv, CallsAgree, Statted
  <1>11. Pairs' = Pairs
    BY <1>3 DEF Pairs
  <1>12. PairsOK'
    <2> SUFFICES ASSUME NEW e \in Pairs
                 PROVE  /\ e.mtime <= clock'
                        /\ \A q \in Path : files'[q] # None /\ files'[q].mtime = e.mtime =>
                                             files'[q].content = e.bytes
                        /\ \A d \in Caller : call[d].pc = "lookup" /\ call[d].mtime = e.mtime =>
                                               e.bytes \in had'[d]
      BY <1>3, <1>11 DEF PairsOK
    <2>1. e.mtime \in Nat /\ e.mtime <= clock
      BY DEF IInv, PairsOK, Pairs, Entry, Time
    <2>2. QED
      BY <1>1, <1>2, <1>4, <1>5, <1>6, <2>1 DEF IInv, PairsOK
  <1>13. EntriesPinned'
    BY <1>3 DEF IInv, EntriesPinned, PinAllows
  <1>14. \A c \in Caller : CallOK(c)'
    <2> TAKE c \in Caller
    <2>1. CallOK(c) /\ call[c].mtime \in Nat
      BY <1>3 DEF IInv, TypeOK, CallState, Time
    <2>2. (call[c].pc # "idle" =>
             /\ call[c].name \in Name /\ call[c].path \in Path
             /\ files[call[c].path] # None => files[call[c].path].content \in had[c])'
      BY <1>3, <1>4, <1>5, <1>6, <2>1 DEF CallOK
    <2>3. (Statted(c) =>
             /\ call[c].mtime <= clock
             /\ \A q \in Path :
                  files[q] # None /\ files[q].mtime = call[c].mtime => q = call[c].path)'
      BY <1>1, <1>2, <1>3, <1>4, <1>5, <2>1 DEF CallOK, Statted
    <2>4. QED
      BY <1>3, <1>6, <2>1, <2>2, <2>3 DEF CallOK, PinAllows
  <1>15. QED
    BY <1>7, <1>9, <1>10, <1>12, <1>13, <1>14 DEF IInv

LEMMA DeleteStep ==
  ASSUME IInv, NEW p \in Path, Delete(p)
  PROVE  IInv'
  <1>1. /\ TypeOK /\ UNCHANGED <<link, clock, boot, entries, call, had>>
        /\ files'[p] = None /\ \A q \in Path : q # p => files'[q] = files[q]
    BY DEF IInv, TypeOK, Delete
  <1>2. TypeOK'
    BY DEF IInv, TypeOK, Delete
  <1>3. FilesApart'
    BY <1>1 DEF IInv, FilesApart
  <1>4. Pairs' = Pairs
    BY <1>1 DEF Pairs
  <1>5. PairsOK'
    BY <1>1, <1>4 DEF IInv, PairsOK
  <1>6. CallsAgree' /\ EntriesPinned'
    BY <1>1 DEF IInv, CallsAgree, EntriesPinned, Statted, PinAllows
  <1>7. \A c \in Caller : CallOK(c)'
    BY <1>1 DEF IInv, CallOK, Statted, PinAllows
  <1>8. QED
    BY <1>2, <1>3, <1>5, <1>6, <1>7 DEF IInv

\* The boot, and links that change, leave what the invariant speaks of alone.
LEMMA OthersStep ==
  ASSUME IInv, TypeOK', UNCHANGED <<files, clock, entries, call, had>>
  PROVE  IInv'
  BY DEF IInv, FilesApart, CallsAgree, PairsOK, Pairs, EntriesPinned, CallOK, Statted, PinAllows

LEMMA NextInv ==
  ASSUME ~Coarse
  PROVE  IInv /\ [Next]_vars => IInv'
  <1> SUFFICES ASSUME IInv, [Next]_vars PROVE IInv'
    OBVIOUS
  <1>1. ASSUME NEW n \in Name, VerifyPin(n) \/ Refuse(n) PROVE IInv'
    BY <1>1, OthersStep DEF IInv, TypeOK, VerifyPin, Refuse
  <1>2. CASE Built
    BY <1>2, OthersStep DEF IInv, TypeOK, Built
  <1>3. ASSUME NEW c \in Caller, StaticFile(c) PROVE IInv'
    BY <1>3, StatStep, HitStep, MissStep, ReadStep, InsertStep DEF StaticFile
  <1>4. ASSUME NEW c \in Caller, NEW n \in Name, Begin(c, n) PROVE IInv'
    BY <1>4, BeginStep
  <1>5. ASSUME NEW p \in Path, Delete(p) PROVE IInv'
    BY <1>5, DeleteStep
  <1>6. ASSUME NEW p \in Path, NEW content \in Content, Write(p, content) PROVE IInv'
    BY <1>6, WriteStep
  <1>7. ASSUME NEW n \in Name, NEW p \in Path \cup {Outside, None}, Relink(n, p) PROVE IInv'
    BY <1>7, OthersStep DEF IInv, TypeOK, Relink
  <1>8. CASE UNCHANGED vars
    BY <1>8, OthersStep DEF vars, IInv, TypeOK
  <1>9. QED
    BY <1>1, <1>2, <1>3, <1>4, <1>5, <1>6, <1>7, <1>8 DEF Next

-----------------------------------------------------------------------------

\* Entries, calls in progress and files agree on which content an mtime stands
\* for: the invariant the others follow from.
THEOREM InductiveInvariant == ASSUME ~Coarse PROVE Spec => []IInv
  <1>1. Init => IInv
    BY InitInv
  <1>2. IInv /\ [Next]_vars => IInv'
    BY NextInv
  <1>3. QED
    BY <1>1, <1>2, PTL DEF Spec

\* What static_file returns, the file had while the call was in progress,
\* however many calls and writes overlap.
THEOREM Current == ASSUME ~Coarse PROVE Spec => []ReadsAreCurrent
  <1>1. IInv => ReadsAreCurrent
    BY DEF IInv, CallOK, ReadsAreCurrent
  <1>2. Spec => []IInv
    BY InductiveInvariant
  <1>3. QED
    BY <1>1, <1>2, PTL

\* No race of static_file leaves an entry that is served although the file
\* has another content.
THEOREM NoneStale == ASSUME ~Coarse PROVE Spec => []NoEntryStaysStale
  <1>1. IInv => NoEntryStaysStale
    <2> SUFFICES ASSUME IInv, NEW n \in Name, NEW p \in Path,
                        entries[n] # None, files[p] # None, entries[n].mtime = files[p].mtime
                 PROVE  entries[n].bytes = files[p].content
      BY DEF NoEntryStaysStale
    <2>1. entries[n] \in Pairs
      BY DEF IInv, TypeOK, Pairs
    <2>2. QED
      BY <2>1 DEF IInv, PairsOK
  <1>2. Spec => []IInv
    BY InductiveInvariant
  <1>3. QED
    BY <1>1, <1>2, PTL

-----------------------------------------------------------------------------
(* Pins, for every clock.                                                    *)

LEMMA InitPin == Init => PinInv
  <1> SUFFICES ASSUME Init PROVE PinInv
    OBVIOUS
  <1>1. TypeOK
    BY InitInv DEF IInv
  <1>2. EntriesPinned
    BY DEF Init, EntriesPinned
  <1>3. \A c \in Caller : call[c].pc = "idle" /\ call[c].result = None
    BY NewCallIsACall DEF Init
  <1>4. QED
    BY <1>1, <1>2, <1>3, CacheAssumption DEF PinInv, CallPinned

\* The call of c becomes u.
LEMMA PinMoves ==
  ASSUME PinInv, NEW c \in Caller, NEW u \in CallState,
         call' = [call EXCEPT ![c] = u],
         UNCHANGED <<link, files, clock, boot>>,
         entries' \in [Name -> Entry \cup {None}], EntriesPinned',
         had' \in [Caller -> SUBSET Content],
         CallPinned(c)'
  PROVE  PinInv'
  <1>1. TypeOK'
    BY DEF PinInv, TypeOK
  <1>2. \A d \in Caller : d # c => call'[d] = call[d]
    BY DEF PinInv, TypeOK
  <1>3. \A d \in Caller : CallPinned(d)'
    BY <1>2 DEF PinInv, CallPinned, PinAllows
  <1>4. QED
    BY <1>1, <1>3 DEF PinInv

LEMMA PinReturns ==
  ASSUME PinInv, NEW c \in Caller, call[c].name \in Name,
         NEW r \in Content \cup {"missing", "unsafe", "mismatch"},
         r \in Content => PinAllows(call[c].name, r),
         Returns(c, r), had' = had,
         entries' \in [Name -> Entry \cup {None}], EntriesPinned'
  PROVE  PinInv'
  <1> DEFINE u == [NewCall EXCEPT !.result = r, !.name = call[c].name]
  <1>1. u \in CallState
    BY NewCallIsACall DEF CallState
  <1>2. u.pc = "idle" /\ u.result = r /\ u.name = call[c].name
    BY NewCallIsACall DEF CallState
  <1>3. call' = [call EXCEPT ![c] = u] /\ UNCHANGED <<link, files, clock, boot>>
    BY DEF Returns
  <1> HIDE DEF u
  <1>4. call'[c] = u
    BY <1>3 DEF PinInv, TypeOK
  <1>5. CallPinned(c)'
    BY <1>2, <1>4 DEF CallPinned, PinAllows
  <1>6. had' \in [Caller -> SUBSET Content]
    BY DEF PinInv, TypeOK
  <1>7. QED
    BY <1>1, <1>3, <1>5, <1>6, PinMoves

LEMMA PinBegin ==
  ASSUME PinInv, NEW c \in Caller, NEW n \in Name, Begin(c, n)
  PROVE  PinInv'
  <1>1. TypeOK /\ EntriesPinned' /\ entries' \in [Name -> Entry \cup {None}]
        /\ UNCHANGED <<link, files, clock, boot>> /\ call \in [Caller -> CallState]
    BY DEF PinInv, TypeOK, Begin, EntriesPinned
  <1>2. CASE Resolved(n) \in Path
    <2> DEFINE u == [NewCall EXCEPT !.pc = "stat", !.name = n, !.path = Resolved(n)]
    <2>1. u \in CallState
      BY <1>2, NewCallIsACall DEF CallState
    <2>2. u.pc = "stat" /\ u.name = n /\ u.path = Resolved(n) /\ u.result = None
      BY NewCallIsACall DEF CallState
    <2>3. call' = [call EXCEPT ![c] = u] /\ had' = [had EXCEPT ![c] = {files[Resolved(n)].content}]
      BY <1>2 DEF Begin
    <2> HIDE DEF u
    <2>4. files[Resolved(n)] # None /\ files[Resolved(n)] \in File
      BY <1>1, <1>2, ResolvedFile DEF TypeOK
    <2>5. files[Resolved(n)].content \in Content
      BY <2>4 DEF File
    <2>6. had' \in [Caller -> SUBSET Content] /\ call'[c] = u
      BY <1>1, <2>3, <2>5 DEF TypeOK
    <2>7. CallPinned(c)'
      BY <1>2, <2>2, <2>6, CacheAssumption DEF CallPinned
    <2>8. QED
      BY <1>1, <2>1, <2>3, <2>6, <2>7, PinMoves
  <1>3. CASE Resolved(n) \notin Path
    <2> DEFINE u == [NewCall EXCEPT !.name = n, !.result = Resolved(n)]
    <2>1. Resolved(n) \in {"missing", "unsafe"}
      BY <1>1, <1>3 DEF Resolved, TypeOK
    <2>2. u \in CallState
      BY <2>1, NewCallIsACall DEF CallState
    <2>3. u.pc = "idle" /\ u.result = Resolved(n)
      BY NewCallIsACall DEF CallState
    <2>4. call' = [call EXCEPT ![c] = u] /\ had' = [had EXCEPT ![c] = {}]
      BY <1>3 DEF Begin
    <2> HIDE DEF u
    <2>5. had' \in [Caller -> SUBSET Content] /\ call'[c] = u
      BY <1>1, <2>4 DEF TypeOK
    <2>6. CallPinned(c)'
      BY <2>1, <2>3, <2>5, CacheAssumption DEF CallPinned
    <2>7. QED
      BY <1>1, <2>2, <2>4, <2>5, <2>6, PinMoves
  <1>4. QED
    BY <1>2, <1>3

\* What a step of static_file changes is the call and, at the end, the entry.
LEMMA PinStatic ==
  ASSUME PinInv, NEW c \in Caller, StaticFile(c)
  PROVE  PinInv'
  <1> DEFINE name == call[c].name
             path == call[c].path
  <1>1. /\ TypeOK /\ EntriesPinned /\ entries \in [Name -> Entry \cup {None}]
        /\ had \in [Caller -> SUBSET Content] /\ call \in [Caller -> CallState]
        /\ CallPinned(c) /\ call[c].pc # "idle" /\ name \in Name /\ path \in Path
    BY DEF PinInv, TypeOK, CallPinned, StaticFile, Stat, Hit, Miss, Read, Insert
  <1>2. had' = had
    BY DEF StaticFile, Stat, Hit, Miss, Read, Insert
  <1>3. ASSUME entries' = entries PROVE EntriesPinned' /\ entries' \in [Name -> Entry \cup {None}]
    BY <1>1, <1>3 DEF EntriesPinned
  <1>4. ASSUME NEW u \in CallState, entries' = entries,
               call' = [call EXCEPT ![c] = u], UNCHANGED <<link, files, clock, boot>>,
               u.pc # "idle", u.name = name, u.path = path, u.result = call[c].result,
               u.pc = "insert" => u.bytes \in Content /\ PinAllows(name, u.bytes)
        PROVE  PinInv'
    <2>1. call'[c] = u
      BY <1>1, <1>4
    <2>2. CallPinned(c)'
      BY <1>1, <1>4, <2>1 DEF CallPinned, PinAllows
    <2>3. QED
      BY <1>1, <1>2, <1>3, <1>4, <2>2, PinMoves
  <1>5. CASE Stat(c)
    <2>1. CASE files[path] = None
      BY <1>1, <1>2, <1>3, <1>5, <2>1, CacheAssumption, PinReturns DEF Stat
    <2>2. CASE files[path] # None
      <3> DEFINE u == [call[c] EXCEPT !.pc = "lookup", !.mtime = files[path].mtime]
      <3>1. files[path].mtime \in Time
        BY <1>1, <2>2 DEF TypeOK, File
      <3>2. u \in CallState
        BY <1>1, <3>1 DEF CallState
      <3>3. u.pc = "lookup" /\ u.name = name /\ u.path = path /\ u.result = call[c].result
        BY <1>1 DEF CallState
      <3>4. /\ call' = [call EXCEPT ![c] = u] /\ entries' = entries
            /\ UNCHANGED <<link, files, clock, boot>>
        BY <1>1, <1>5, <2>2 DEF Stat
      <3> HIDE DEF u
      <3>5. QED
        BY <1>4, <3>2, <3>3, <3>4
    <2>3. QED
      BY <2>1, <2>2
  <1>6. CASE Hit(c)
    <2> DEFINE entry == entries[name]
    <2>1. entry # None /\ Returns(c, entry.bytes) /\ entries' = entries
      BY <1>6 DEF Hit
    <2>2. entry.bytes \in Content /\ PinAllows(name, entry.bytes)
      BY <1>1, <2>1 DEF EntriesPinned, Entry
    <2>3. QED
      BY <1>1, <1>2, <1>3, <2>1, <2>2, PinReturns
  <1>7. CASE Miss(c)
    <2> DEFINE u == [call[c] EXCEPT !.pc = "read"]
    <2>1. u \in CallState
      BY <1>1 DEF CallState
    <2>2. u.pc = "read" /\ u.name = name /\ u.path = path /\ u.result = call[c].result
      BY <1>1 DEF CallState
    <2>3. /\ call' = [call EXCEPT ![c] = u] /\ entries' = entries
          /\ UNCHANGED <<link, files, clock, boot>>
      BY <1>1, <1>7 DEF Miss
    <2> HIDE DEF u
    <2>4. QED
      BY <1>4, <2>1, <2>2, <2>3
  <1>8. CASE Read(c)
    <2> DEFINE bytes == Verified(name, path)
    <2>1. /\ bytes \in Content \cup {"missing", "mismatch"}
          /\ bytes \in Content => PinAllows(name, bytes)
      BY <1>1, VerifiedBytes
    <2>2. entries' = entries
      BY <1>8 DEF Read
    <2> HIDE DEF bytes
    <2>3. CASE bytes \notin Content
      <3>1. Returns(c, bytes)
        BY <1>8, <2>3 DEF Read, bytes
      <3>2. QED
        BY <1>1, <1>2, <1>3, <2>1, <2>2, <2>3, <3>1, PinReturns
    <2>4. CASE bytes \in Content
      <3> DEFINE u == [call[c] EXCEPT !.pc = "insert", !.bytes = bytes]
      <3>1. u \in CallState
        BY <1>1, <2>4 DEF CallState
      <3>2. /\ u.pc = "insert" /\ u.bytes = bytes /\ u.name = name /\ u.path = path
            /\ u.result = call[c].result
        BY <1>1 DEF CallState
      <3>3. call' = [call EXCEPT ![c] = u] /\ UNCHANGED <<link, files, clock, boot>>
        BY <1>1, <1>8, <2>4 DEF Read, bytes
      <3> HIDE DEF u
      <3>4. QED
        BY <1>4, <2>1, <2>2, <2>4, <3>1, <3>2, <3>3
    <2>5. QED
      BY <2>3, <2>4
  <1>9. CASE Insert(c)
    <2> DEFINE new == [mtime |-> call[c].mtime, bytes |-> call[c].bytes]
    <2>1. call[c].bytes \in Content /\ PinAllows(name, call[c].bytes) /\ Returns(c, call[c].bytes)
      BY <1>1, <1>9 DEF Insert, CallPinned
    <2>2. new \in Entry /\ new.bytes = call[c].bytes
      BY <1>1, <2>1 DEF Entry, CallState
    <2>3. entries' = [entries EXCEPT ![name] = new]
      BY <1>9 DEF Insert, Stamp
    <2> HIDE DEF new
    <2>4. entries' \in [Name -> Entry \cup {None}] /\ EntriesPinned'
      BY <1>1, <2>1, <2>2, <2>3 DEF EntriesPinned, PinAllows
    <2>5. QED
      BY <1>1, <1>2, <2>1, <2>4, PinReturns
  <1>10. QED
    BY <1>5, <1>6, <1>7, <1>8, <1>9 DEF StaticFile

\* No step of the boot or of whoever deploys touches a call or an entry.
LEMMA PinOthers ==
  ASSUME PinInv, TypeOK', UNCHANGED <<entries, call>>
  PROVE  PinInv'
  BY DEF PinInv, EntriesPinned, CallPinned, PinAllows

LEMMA PinWrite ==
  ASSUME PinInv, NEW p \in Path, NEW content \in Content, Write(p, content)
  PROVE  PinInv'
  <1>1. PICK t \in Time :
          files' = [files EXCEPT ![p] = [content |-> content, mtime |-> t]] /\ clock' = t
    BY DEF Write, Stamps
  <1>2. [content |-> content, mtime |-> t] \in File
    BY DEF File
  <1>3. had' \in [Caller -> SUBSET Content]
    BY DEF PinInv, TypeOK, Write
  <1>4. TypeOK'
    BY <1>1, <1>2, <1>3 DEF PinInv, TypeOK, Write
  <1>5. QED
    BY <1>4, PinOthers DEF Write

LEMMA NextPin == PinInv /\ [Next]_vars => PinInv'
  <1> SUFFICES ASSUME PinInv, [Next]_vars PROVE PinInv'
    OBVIOUS
  <1>1. ASSUME NEW n \in Name, VerifyPin(n) \/ Refuse(n) PROVE PinInv'
    BY <1>1, PinOthers DEF PinInv, TypeOK, VerifyPin, Refuse
  <1>2. CASE Built
    BY <1>2, PinOthers DEF PinInv, TypeOK, Built
  <1>3. ASSUME NEW c \in Caller, StaticFile(c) PROVE PinInv'
    BY <1>3, PinStatic
  <1>4. ASSUME NEW c \in Caller, NEW n \in Name, Begin(c, n) PROVE PinInv'
    BY <1>4, PinBegin
  <1>5. ASSUME NEW p \in Path, Delete(p) PROVE PinInv'
    BY <1>5, PinOthers DEF PinInv, TypeOK, Delete
  <1>6. ASSUME NEW p \in Path, NEW content \in Content, Write(p, content) PROVE PinInv'
    BY <1>6, PinWrite
  <1>7. ASSUME NEW n \in Name, NEW p \in Path \cup {Outside, None}, Relink(n, p) PROVE PinInv'
    BY <1>7, PinOthers DEF PinInv, TypeOK, Relink
  <1>8. CASE UNCHANGED vars
    BY <1>8, PinOthers DEF vars, PinInv, TypeOK
  <1>9. QED
    BY <1>1, <1>2, <1>3, <1>4, <1>5, <1>6, <1>7, <1>8 DEF Next

\* A pinned name is answered with the pinned content or an error, whatever the
\* cache holds and however files change, mtimes that repeat included.
THEOREM Pins == Spec => []PinnedOrRefused
  <1>1. Init => PinInv
    BY InitPin
  <1>2. PinInv /\ [Next]_vars => PinInv'
    BY NextPin
  <1>3. PinInv => PinnedOrRefused
    BY DEF PinInv, CallPinned, PinAllows, PinnedOrRefused
  <1>4. QED
    BY <1>1, <1>2, <1>3, PTL DEF Spec
=============================================================================
