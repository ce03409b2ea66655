--------------------------- MODULE NameSyncProofs ---------------------------
(* The synchronisation keeps up with the renames for any users, any number of *)
(* renames and any overlap that is not shorter than the feed's lag, as long   *)
(* as no name is given to somebody else.                                      *)
EXTENDS NameSync, TLAPS, FiniteSetTheorems, WellFoundedInduction

People == Cardinality(User)

-----------------------------------------------------------------------------
(* What a batch of renames makes of a row.                                    *)

LEMMA LeastOf ==
  ASSUME NEW T \in SUBSET Nat, T # {}
  PROVE  \E n \in T : \A m \in T : n <= m
  <1>0. IsWellFoundedOn(OpToRel(<, Nat), Nat)
    BY ONLY NatLessThanWellFounded, ZenonT(60)
  <1>1. PICK x \in T : \A y \in T : ~ (<<y, x>> \in OpToRel(<, Nat))
    <2>1. T \subseteq Nat /\ T # {}
      OBVIOUS
    <2> QED
      BY ONLY <1>0, <2>1, WFMin, ZenonT(60)
  <1>2. \A y \in T : ~ (y < x)
    <2> TAKE y \in T
    <2>1. <<y, x>> \in Nat \X Nat /\ <<y, x>>[1] = y /\ <<y, x>>[2] = x
      OBVIOUS
    <2>2. y < x => <<y, x>> \in OpToRel(<, Nat)
      BY <2>1, ZenonT(60) DEF OpToRel
    <2> QED
      BY <1>1, <2>2
  <1> QED
    BY <1>2

\* Induction, over the set of the numbers that satisfy what is to be shown.
LEMMA InductionOverNat ==
  ASSUME NEW T \in SUBSET Nat, 0 \in T, \A n \in T : n + 1 \in T
  PROVE  T = Nat
  <1> SUFFICES ASSUME T # Nat PROVE FALSE
    OBVIOUS
  <1>1. PICK n \in Nat \ T : \A m \in Nat \ T : n <= m
    <2>1. Nat \ T \in SUBSET Nat /\ Nat \ T # {}
      OBVIOUS
    <2> QED
      BY <2>1, LeastOf
  <1>2. n # 0 /\ n - 1 \in T
    BY <1>1
  <1> QED
    BY <1>1, <1>2

\* The body of RenamedUpTo.
RenamedNext(renamed, name, deltas, k) ==
  IF k = 0 THEN name
  ELSE IF k \in deltas /\ renamed[k-1] = log[k].old THEN log[k].current
  ELSE renamed[k-1]

LEMMA RenamedUnfold ==
  ASSUME NEW name, NEW deltas, Len(log) \in Nat
  PROVE  RenamedUpTo(name, deltas)
           = [k \in 0..Len(log) |-> RenamedNext(RenamedUpTo(name, deltas), name, deltas, k)]
  <1> DEFINE T == {n \in Nat : \E f : f = [k \in 0..n |-> RenamedNext(f, name, deltas, k)]}
  <1>1. 0 \in T
    <2> DEFINE f == [k \in 0..0 |-> name]
    <2>1. f = [k \in 0..0 |-> RenamedNext(f, name, deltas, k)]
      BY DEF RenamedNext
    <2> QED
      BY <2>1
  <1>2. ASSUME NEW n \in T PROVE n + 1 \in T
    <2>1. PICK f : f = [k \in 0..n |-> RenamedNext(f, name, deltas, k)]
      OBVIOUS
    <2> DEFINE g == [k \in 0..n+1 |-> IF k = n + 1 THEN RenamedNext(f, name, deltas, k) ELSE f[k]]
    <2>2. \A k \in 0..n+1 : k # 0 => g[k-1] = f[k-1]
      <3>1. \A k \in 0..n+1 : k # 0 => k - 1 \in 0..n+1 /\ k - 1 # n + 1
        OBVIOUS
      <3> QED
        BY <3>1
    <2>3. \A k \in 0..n+1 : RenamedNext(g, name, deltas, k) = RenamedNext(f, name, deltas, k)
      <3> HIDE DEF g
      <3> QED
        BY <2>2 DEF RenamedNext
    <2>4. \A k \in 0..n+1 : g[k] = RenamedNext(g, name, deltas, k)
      <3> TAKE k \in 0..n+1
      <3>1. g[k] = IF k = n + 1 THEN RenamedNext(f, name, deltas, k) ELSE f[k]
        OBVIOUS
      <3>2. k # n + 1 => f[k] = RenamedNext(f, name, deltas, k)
        BY <2>1
      <3> HIDE DEF g
      <3> QED
        BY <2>3, <3>1, <3>2
    <2>5. g = [k \in 0..n+1 |-> RenamedNext(g, name, deltas, k)]
      BY <2>4
    <2> QED
      BY <2>5
  <1>3. Len(log) \in T
    <2> HIDE DEF T
    <2>1. T = Nat
      <3>1. T \in SUBSET Nat
        BY DEF T
      <3> QED
        BY <1>1, <1>2, <3>1, InductionOverNat
    <2> QED
      BY <2>1
  <1>4. PICK f : f = [k \in 0..Len(log) |-> RenamedNext(f, name, deltas, k)]
    BY <1>3
  <1> DEFINE R == CHOOSE r : r = [k \in 0..Len(log) |-> RenamedNext(r, name, deltas, k)]
  <1>5. R = [k \in 0..Len(log) |-> RenamedNext(R, name, deltas, k)]
    BY <1>4
  <1>6. RenamedUpTo(name, deltas) = R
    BY DEF RenamedUpTo, RenamedNext
  <1> QED
    BY <1>5, <1>6

\* Renames that are in order, each giving a name that is new: the ones of the
\* log, when no name is given again.
Fresh(k) == /\ log[k].current = People + k
            /\ log[k].old \in 1..People+k-1

\* After a batch a row has none of the names the batch replaces, and the name it
\* has is its own or one the batch gives. Without one that replaces its name it
\* stays as it is.
LEMMA RenamedIs ==
  ASSUME Len(log) \in Nat, People \in Nat, \A k \in 1..Len(log) : Fresh(k),
         NEW name, NEW deltas
  PROVE  LET new == Renamed(name, deltas) IN
         /\ \A k \in 1..Len(log) : k \in deltas => new # log[k].old
         /\ new = name \/ \E k \in 1..Len(log) : k \in deltas /\ new = log[k].current
         /\ (\A k \in 1..Len(log) : k \in deltas => name # log[k].old) => new = name
  <1> DEFINE R == RenamedUpTo(name, deltas)
             Gone(n) == \A k \in 1..n : k \in deltas => R[n] # log[k].old
             Came(n) == R[n] = name \/ \E k \in 1..n : k \in deltas /\ R[n] = log[k].current
             Same(n) == (\A k \in 1..n : k \in deltas => name # log[k].old) => R[n] = name
             T == {n \in Nat : n <= Len(log) => Gone(n) /\ Came(n) /\ Same(n)}
  <1>1. \A n \in 0..Len(log) :
          R[n] = IF n = 0 THEN name
                 ELSE IF n \in deltas /\ R[n-1] = log[n].old THEN log[n].current
                 ELSE R[n-1]
    BY RenamedUnfold DEF RenamedNext
  <1> HIDE DEF R
  <1>2. 0 \in T
    BY <1>1
  <1>3. ASSUME NEW n \in T PROVE n + 1 \in T
    <2> SUFFICES ASSUME n + 1 <= Len(log) PROVE Gone(n + 1) /\ Came(n + 1) /\ Same(n + 1)
      OBVIOUS
    <2>1. n \in Nat /\ Gone(n) /\ Came(n) /\ Same(n) /\ n + 1 \in 1..Len(log)
      OBVIOUS
    <2>2. R[n+1] = IF n + 1 \in deltas /\ R[n] = log[n+1].old THEN log[n+1].current ELSE R[n]
      BY <1>1, <2>1
    <2>3. \A k \in 1..n+1 : k \in 1..n \/ k = n + 1
      BY <2>1
    <2>4. \A k \in 1..n+1 : log[k].old \in 1..People+k-1 /\ log[k].current = People + k
      BY <2>1 DEF Fresh
    <2>5. CASE n + 1 \in deltas /\ R[n] = log[n+1].old
      <3>1. R[n+1] = People + (n + 1) /\ n + 1 \in 1..n+1
        BY <2>1, <2>2, <2>4, <2>5
      <3>2. Gone(n + 1)
        BY <2>1, <2>4, <3>1
      <3>3. Came(n + 1)
        BY <2>2, <2>5, <3>1
      <3>4. Same(n + 1)
        BY <2>1, <2>3, <2>5, <3>1
      <3> QED
        BY <3>2, <3>3, <3>4
    <2>6. CASE ~(n + 1 \in deltas /\ R[n] = log[n+1].old)
      <3>1. R[n+1] = R[n] /\ 1..n \subseteq 1..n+1
        BY <2>1, <2>2, <2>6
      <3> QED
        BY <2>1, <2>3, <2>6, <3>1
    <2> QED
      BY <2>5, <2>6
  <1>4. T = Nat
    <2>1. T \in SUBSET Nat
      OBVIOUS
    <2> HIDE DEF T
    <2> QED
      BY <1>2, <1>3, <2>1, InductionOverNat
  <1>5. Gone(Len(log)) /\ Came(Len(log)) /\ Same(Len(log))
    <2>1. Len(log) \in T
      BY <1>4
    <2> QED
      BY <2>1
  <1>6. Renamed(name, deltas) = R[Len(log)]
    BY DEF Renamed, R
  <1> QED
    BY <1>5, <1>6

\* Of its type, too.
LEMMA RenamedType ==
  ASSUME Len(log) \in Nat, People \in Nat, \A k \in 1..Len(log) : Fresh(k),
         NEW name \in Name \cup {None}, NEW deltas
  PROVE  Renamed(name, deltas) \in Name \cup {None}
  <1>1. CASE Renamed(name, deltas) = name
    BY <1>1
  <1>2. CASE \E k \in 1..Len(log) : Renamed(name, deltas) = log[k].current
    BY <1>2 DEF Fresh, Name
  <1> QED
    BY <1>1, <1>2, RenamedIs

-----------------------------------------------------------------------------
(* The invariant.                                                             *)

\* Renames are in the order of their instants, each to the next name, and are
\* shown in time.
LogOK ==
  \A i \in DOMAIN log :
    /\ Fresh(i)
    /\ log[i].at <= clock
    /\ ~log[i].visible => clock <= log[i].at + Lag
    /\ \A j \in DOMAIN log : j <= i => log[j].at <= log[i].at

\* A name that was given up is nobody's.
NamesOK ==
  /\ \A u \in User : names[u] \in 1..People+Len(log)
  /\ \A u, v \in User : names[u] = names[v] => u = v
  /\ \A u \in User, i \in DOMAIN log : names[u] # log[i].old

CursorOK ==
  /\ cursor # None => cursor <= clock
  /\ cycle.pc # "sleep" => cycle.since = IF cursor = None THEN 0 ELSE Since(cursor)

\* What the feed answered: all it was asked for that had to be visible, and all
\* that earlier cycles had brought.
BatchOK ==
  cycle.pc = "commit" =>
    /\ cycle.now <= clock
    /\ cycle.deltas \subseteq DOMAIN log
    /\ \A i \in DOMAIN log :
         /\ i \in cycle.deltas => log[i].visible /\ log[i].at >= cycle.since
         /\ log[i].at >= cycle.since /\ (i \in applied \/ log[i].at < cycle.now - Lag) =>
              i \in cycle.deltas

\* A name that a committed cycle replaced is in no row.
AppliedOK ==
  /\ applied \subseteq DOMAIN log
  /\ \A i \in applied : log[i].visible /\ \A u \in User : stored[u] # log[i].old

\* NoRenameSkipped, whoever the row is about.
NoneBehind ==
  \A u \in User, i \in DOMAIN log :
    stored[u] = log[i].old /\ cursor # None => log[i].at >= Since(cursor)

IInv == TypeOK /\ LogOK /\ NamesOK /\ CursorOK /\ BatchOK /\ AppliedOK /\ NoneBehind

LEMMA Numbers ==
  /\ People \in Nat /\ User = 1..People
  /\ Overlap \in Nat /\ Lag \in Nat /\ Lag <= Overlap /\ MaxRenames \in Nat /\ None \notin Int
  BY SyncAssumption, FS_CardinalityType DEF People

\* What TypeOK says of the log.
LEMMA LogType ==
  ASSUME TypeOK
  PROVE  /\ Len(log) \in Nat /\ DOMAIN log = 1..Len(log)
         /\ \A i \in DOMAIN log : log[i] \in Event
  BY DEF TypeOK

LEMMA InitInv == Init => IInv
  <1> SUFFICES ASSUME Init PROVE IInv
    OBVIOUS
  <1> USE Numbers DEF Init
  <1>1. TypeOK
    BY SyncAssumption DEF TypeOK, Time, Name, Cycle, Asleep
  <1> QED
    BY <1>1 DEF IInv, LogOK, NamesOK, CursorOK, BatchOK, AppliedOK, NoneBehind, Asleep

\* The names given so far are the numbers up to the last one given.
LEMMA NextName ==
  ASSUME TypeOK, LogOK, ~Reuse, NEW u, NEW n, Available(u, n)
  PROVE  n = People + Len(log) + 1
  <1>1. Given = 1..People+Len(log)
    <2>1. ASSUME NEW n1 \in Given PROVE n1 \in 1..People+Len(log)
      BY <2>1, Numbers, LogType DEF Given, LogOK, Fresh
    <2>2. ASSUME NEW n1 \in 1..People+Len(log) PROVE n1 \in Given
      <3>1. CASE n1 <= People
        BY <3>1, Numbers, LogType DEF Given
      <3>2. CASE ~(n1 <= People)
        <4>1. n1 - People \in DOMAIN log /\ People + (n1 - People) = n1
          BY <3>2, Numbers, LogType
        <4>2. log[n1 - People].current = n1
          BY <4>1 DEF LogOK, Fresh
        <4> QED
          BY <4>1, <4>2 DEF Given
      <3> QED
        BY <3>1, <3>2
    <2> QED
      BY <2>1, <2>2
  <1>2. Cardinality(Given) = People + Len(log)
    <2>1. Cardinality(1..People+Len(log)) = People + Len(log)
      BY Numbers, LogType, FS_Interval
    <2> QED
      BY <1>1, <2>1
  <1> QED
    BY <1>2, Numbers, LogType DEF Available

LEMMA RenameStep ==
  ASSUME IInv, ~Reuse, NEW u \in User, RenameUser(u)
  PROVE  IInv'
  <1> USE Numbers
  <1> DEFINE n == People + Len(log) + 1
             event == [user |-> u, old |-> names[u], current |-> n, at |-> clock, visible |-> FALSE]
  <1>0. TypeOK /\ LogOK /\ NamesOK /\ CursorOK /\ BatchOK /\ AppliedOK /\ NoneBehind
    BY DEF IInv
  <1>1. /\ names' = [names EXCEPT ![u] = n] /\ log' = Append(log, event)
        /\ Len(log) < MaxRenames /\ UNCHANGED <<clock, stored, cursor, cycle, applied, faults>>
    BY <1>0, NextName DEF RenameUser
  <1>2. names[u] \in 1..People+Len(log) /\ names \in [User -> Name] /\ clock \in Time
    BY <1>0 DEF NamesOK, TypeOK
  <1>3. event \in Event
    BY <1>2, LogType, <1>0 DEF Event, Name
  <1>4. /\ Len(log') = Len(log) + 1 /\ Len(log) \in Nat
        /\ DOMAIN log' = 1..Len(log)+1 /\ DOMAIN log = 1..Len(log)
        /\ \A i \in DOMAIN log : log'[i] = log[i] /\ log[i] \in Event
        /\ log'[Len(log)+1] = event /\ log' \in Seq(Event)
    BY <1>0, <1>1, <1>3 DEF TypeOK
  <1>5. \A i \in DOMAIN log' : i \in DOMAIN log \/ i = Len(log) + 1
    BY <1>4
  <1>6. TypeOK'
    <2>1. Len(log') <= MaxRenames /\ applied' \in SUBSET (1..MaxRenames)
      BY <1>0, <1>1, <1>4 DEF TypeOK
    <2>2. names' \in [User -> Name]
      BY <1>1, <1>2 DEF Name
    <2> QED
      BY <1>0, <1>1, <1>4, <2>1, <2>2 DEF TypeOK
  <1>7. event.current = n /\ event.old = names[u] /\ event.at = clock /\ event.visible = FALSE
    OBVIOUS
  <1> HIDE DEF event
  <1>8. LogOK'
    <2>1. \A i \in DOMAIN log : Fresh(i)'
      BY <1>0, <1>4 DEF LogOK, Fresh
    <2>2. ASSUME NEW i, i = Len(log) + 1 PROVE Fresh(i)'
      BY <1>2, <1>4, <1>7, <2>2 DEF Fresh
    <2>3. clock' = clock /\ clock \in Nat /\ \A i \in DOMAIN log : log[i].at \in Nat
      BY <1>0, <1>1, <1>4, SyncAssumption DEF TypeOK, Time, Event
    <2>4. \A i \in DOMAIN log' : Fresh(i)'
      BY <1>5, <2>1, <2>2
    <2>5. \A i \in DOMAIN log' :
            log'[i].at <= clock' /\ (~log'[i].visible => clock' <= log'[i].at + Lag)
      BY <1>0, <1>4, <1>5, <1>7, <2>3 DEF LogOK
    <2>6. \A i, j \in DOMAIN log' : j <= i => log'[j].at <= log'[i].at
      <3> TAKE i, j \in DOMAIN log'
      <3>1. CASE i \in DOMAIN log
        BY <1>0, <1>4, <1>5, <3>1 DEF LogOK
      <3>2. CASE i = Len(log) + 1
        BY <1>0, <1>4, <1>5, <1>7, <2>3, <3>2 DEF LogOK
      <3> QED
        BY <1>5, <3>1, <3>2
    <2> QED
      BY <2>4, <2>5, <2>6 DEF LogOK
  <1>9. NamesOK'
    <2>1. \A v \in User : names'[v] = IF v = u THEN n ELSE names[v]
      BY <1>1, <1>2
    <2>2. \A v \in User : names[v] \in 1..People+Len(log) /\ names[v] # n
      BY <1>0, <1>4 DEF NamesOK
    <2>3. \A v \in User : names'[v] \in 1..People+Len(log')
      BY <1>4, <2>1, <2>2
    <2>4. \A v, w \in User : names'[v] = names'[w] => v = w
      BY <1>0, <2>1, <2>2 DEF NamesOK
    <2>5. \A i \in DOMAIN log : log'[i].old # n
      BY <1>0, <1>4 DEF LogOK, Fresh
    <2>6. \A v \in User, i \in DOMAIN log : names'[v] # log'[i].old
      BY <1>0, <1>4, <2>1, <2>5 DEF NamesOK
    <2>7. \A v \in User, i \in DOMAIN log' : i = Len(log) + 1 => names'[v] # log'[i].old
      BY <1>0, <1>2, <1>4, <1>7, <2>1, <2>2 DEF NamesOK
    <2>8. \A v \in User, i \in DOMAIN log' : names'[v] # log'[i].old
      BY <1>5, <2>6, <2>7
    <2> HIDE DEF n
    <2> QED
      BY <2>3, <2>4, <2>8 DEF NamesOK
  <1>10. CursorOK'
    BY <1>0, <1>1 DEF CursorOK
  <1>11. BatchOK'
    <2>1. cycle.now \in Nat /\ clock \in Nat
      BY <1>0, SyncAssumption DEF TypeOK, Cycle, Time
    <2>2. \A i \in DOMAIN log' :
            i = Len(log) + 1 => i \notin applied /\ (cycle.pc = "commit" =>
              i \notin cycle.deltas /\ ~(log'[i].at < cycle.now - Lag))
      BY <1>0, <1>4, <1>7, <2>1 DEF AppliedOK, BatchOK
    <2> QED
      BY <1>0, <1>1, <1>4, <1>5, <2>2 DEF BatchOK
  <1>12. AppliedOK'
    BY <1>0, <1>1, <1>4 DEF AppliedOK
  <1>13. NoneBehind'
    BY <1>0, <1>1, <1>4, <1>5, <1>7, SyncAssumption
       DEF NoneBehind, CursorOK, TypeOK, Time, Since
  <1> QED
    BY <1>6, <1>8, <1>9, <1>10, <1>11, <1>12, <1>13 DEF IInv

LEMMA PublishStep ==
  ASSUME IInv, NEW i \in DOMAIN log, Publish(i)
  PROVE  IInv'
  <1> USE Numbers
  <1>0. TypeOK /\ LogOK /\ NamesOK /\ CursorOK /\ BatchOK /\ AppliedOK /\ NoneBehind
    BY DEF IInv
  <1>1. /\ log' = [log EXCEPT ![i].visible = TRUE]
        /\ UNCHANGED <<names, clock, stored, cursor, cycle, applied, faults>>
    BY DEF Publish
  <1>2. /\ Len(log') = Len(log) /\ Len(log) \in Nat
        /\ DOMAIN log' = DOMAIN log /\ DOMAIN log = 1..Len(log)
        /\ \A j \in DOMAIN log :
             /\ log'[j].old = log[j].old /\ log'[j].current = log[j].current
             /\ log'[j].at = log[j].at
             /\ log[j].visible => log'[j].visible
             /\ log'[j].visible = (log[j].visible \/ j = i)
        /\ log' \in Seq(Event)
    <2>1. DOMAIN log = 1..Len(log) /\ Len(log) \in Nat /\ \A j \in DOMAIN log : log[j] \in Event
      BY <1>0, LogType
    <2>2. log' = [j \in DOMAIN log |-> IF j = i THEN [log[j] EXCEPT !.visible = TRUE] ELSE log[j]]
      BY <1>1
    <2>3. \A j \in DOMAIN log : log'[j] \in Event
      BY <2>1, <2>2 DEF Event
    <2>4. Len(log') = Len(log) /\ log' \in Seq(Event)
      BY <2>1, <2>2, <2>3
    <2> QED
      BY <2>1, <2>2, <2>4 DEF Event
  <1>3. TypeOK'
    BY <1>0, <1>1, <1>2 DEF TypeOK
  <1>4. LogOK'
    <2>1. /\ clock' = clock /\ DOMAIN log' = DOMAIN log
          /\ \A j \in DOMAIN log :
               /\ log'[j].old = log[j].old /\ log'[j].current = log[j].current
               /\ log'[j].at = log[j].at /\ (log[j].visible => log'[j].visible)
      BY <1>1, <1>2
    <2>2. \A j \in DOMAIN log : Fresh(j)'
      BY <1>0, <2>1 DEF LogOK, Fresh
    <2>3. \A j \in DOMAIN log :
            /\ log'[j].at <= clock' /\ (~log'[j].visible => clock' <= log'[j].at + Lag)
            /\ \A k \in DOMAIN log : k <= j => log'[k].at <= log'[j].at
      BY <1>0, <2>1 DEF LogOK
    <2> QED
      BY <2>1, <2>2, <2>3 DEF LogOK
  <1>5. NamesOK' /\ CursorOK' /\ NoneBehind' /\ AppliedOK'
    BY <1>0, <1>1, <1>2 DEF NamesOK, CursorOK, NoneBehind, AppliedOK, Since
  <1>6. BatchOK'
    BY <1>0, <1>1, <1>2 DEF BatchOK
  <1> QED
    BY <1>3, <1>4, <1>5, <1>6 DEF IInv

LEMMA TickStep == ASSUME IInv, Tick PROVE IInv'
  <1> USE Numbers
  <1>0. TypeOK /\ LogOK /\ NamesOK /\ CursorOK /\ BatchOK /\ AppliedOK /\ NoneBehind
    BY DEF IInv
  <1>1. /\ clock' = clock + 1 /\ clock < MaxClock
        /\ \A i \in DOMAIN log : ~log[i].visible => clock < log[i].at + Lag
        /\ UNCHANGED <<names, log, stored, cursor, cycle, applied, faults>>
    BY DEF Tick
  <1>2. TypeOK'
    BY <1>0, <1>1, SyncAssumption DEF TypeOK, Time
  <1>3. clock \in Nat /\ (cursor # None => cursor \in Nat) /\ cycle.now \in Nat
        /\ \A i \in DOMAIN log : log[i].at \in Nat
    <2>1. clock \in Nat /\ (cursor # None => cursor \in Nat)
      BY <1>0, SyncAssumption DEF TypeOK, Time
    <2>2. cycle.now \in Nat
      BY <1>0, SyncAssumption DEF TypeOK, Time, Cycle
    <2>3. \A i \in DOMAIN log : log[i].at \in Nat
      BY <1>0, LogType, SyncAssumption DEF Time, Event
    <2> QED
      BY <2>1, <2>2, <2>3
  <1>4. LogOK'
    BY <1>0, <1>1, <1>3 DEF LogOK, Fresh
  <1>5. NamesOK' /\ AppliedOK' /\ NoneBehind'
    BY <1>0, <1>1 DEF NamesOK, AppliedOK, NoneBehind, Since
  <1>6. CursorOK' /\ BatchOK'
    BY <1>0, <1>1, <1>3 DEF CursorOK, BatchOK, Since
  <1> QED
    BY <1>2, <1>4, <1>5, <1>6 DEF IInv

LEMMA WriteStep == ASSUME IInv, NEW u \in User, WriteRow(u) PROVE IInv'
  <1>0. TypeOK /\ LogOK /\ NamesOK /\ CursorOK /\ BatchOK /\ AppliedOK /\ NoneBehind
    BY DEF IInv
  <1>1. /\ stored' = [stored EXCEPT ![u] = names[u]]
        /\ UNCHANGED <<names, log, clock, cursor, cycle, applied, faults>>
    BY DEF WriteRow
  <1>2. TypeOK'
    BY <1>0, <1>1 DEF TypeOK
  <1>3. \A v \in User, i \in DOMAIN log : stored'[v] = log[i].old => stored[v] = log[i].old
    BY <1>0, <1>1 DEF TypeOK, NamesOK
  <1>4. LogOK' /\ NamesOK' /\ CursorOK' /\ BatchOK'
    BY <1>0, <1>1 DEF LogOK, Fresh, NamesOK, CursorOK, BatchOK, Since
  <1>5. AppliedOK' /\ NoneBehind'
    BY <1>0, <1>1, <1>3 DEF AppliedOK, NoneBehind, Since
  <1> QED
    BY <1>2, <1>4, <1>5 DEF IInv

LEMMA BeginStep == ASSUME IInv, BeginCycle PROVE IInv'
  <1>0. TypeOK /\ LogOK /\ NamesOK /\ CursorOK /\ BatchOK /\ AppliedOK /\ NoneBehind
    BY DEF IInv
  <1> DEFINE since == IF cursor = None THEN 0 ELSE Since(cursor)
  <1>1. /\ cycle' = [pc |-> "fetch", since |-> since, now |-> 0, deltas |-> {}]
        /\ UNCHANGED <<names, log, clock, stored, cursor, applied, faults>>
    BY DEF BeginCycle, Asleep
  <1>2. since \in Int
    BY <1>0, Numbers, SyncAssumption DEF TypeOK, Time, Since
  <1>3. cycle'.pc = "fetch" /\ cycle'.since = since
    BY <1>1
  <1>4. TypeOK'
    <2>1. cycle' \in Cycle
      BY <1>1, <1>2, SyncAssumption DEF Cycle, Time
    <2> QED
      BY <1>0, <1>1, <2>1 DEF TypeOK
  <1>5. CursorOK' /\ BatchOK'
    BY <1>0, <1>1, <1>3 DEF CursorOK, BatchOK, Since
  <1>6. LogOK' /\ NamesOK' /\ AppliedOK' /\ NoneBehind'
    BY <1>0, <1>1 DEF LogOK, Fresh, NamesOK, AppliedOK, NoneBehind, Since
  <1> QED
    BY <1>4, <1>5, <1>6 DEF IInv

\* A rename not visible now was made at most Lag ago.
LEMMA AnswerStep == ASSUME IInv, FeedAnswers PROVE IInv'
  <1> USE Numbers
  <1>0. TypeOK /\ LogOK /\ NamesOK /\ CursorOK /\ BatchOK /\ AppliedOK /\ NoneBehind
    BY DEF IInv
  <1>1. /\ cycle.pc = "fetch"
        /\ cycle' = [cycle EXCEPT !.pc = "commit", !.now = clock, !.deltas = Visible(cycle.since)]
        /\ UNCHANGED <<names, log, clock, stored, cursor, applied, faults>>
    BY DEF FeedAnswers
  <1>2. Visible(cycle.since) \subseteq DOMAIN log
    BY DEF Visible
  <1>3. /\ cycle' \in Cycle /\ cycle'.pc = "commit" /\ cycle'.now = clock
        /\ cycle'.since = cycle.since /\ cycle'.deltas = Visible(cycle.since)
    <2>1. Visible(cycle.since) \subseteq 1..MaxRenames
      BY <1>0, <1>2, LogType DEF TypeOK
    <2> QED
      BY <1>0, <1>1, <2>1 DEF TypeOK, Cycle
  <1>4. TypeOK'
    BY <1>0, <1>1, <1>3 DEF TypeOK
  <1>5. CursorOK'
    BY <1>0, <1>1, <1>3 DEF CursorOK, Since
  <1>6. clock \in Nat /\ \A i \in DOMAIN log : log[i].at \in Nat
    BY <1>0, LogType, SyncAssumption DEF TypeOK, Time, Event
  <1>7. BatchOK'
    <2>1. ASSUME NEW i \in DOMAIN log, i \in applied \/ log[i].at < clock - Lag
          PROVE  log[i].visible
      BY <1>0, <1>6, <2>1 DEF LogOK, AppliedOK
    <2> QED
      BY <1>1, <1>2, <1>3, <1>6, <2>1 DEF BatchOK, Visible
  <1>8. LogOK' /\ NamesOK' /\ AppliedOK' /\ NoneBehind'
    BY <1>0, <1>1 DEF LogOK, Fresh, NamesOK, AppliedOK, NoneBehind, Since
  <1> QED
    BY <1>4, <1>5, <1>7, <1>8 DEF IInv

LEMMA FailStep == ASSUME IInv, CycleFails PROVE IInv'
  <1>0. TypeOK /\ LogOK /\ NamesOK /\ CursorOK /\ BatchOK /\ AppliedOK /\ NoneBehind
    BY DEF IInv
  <1>1. /\ cycle' = Asleep /\ faults' = faults + 1 /\ faults < MaxFaults
        /\ UNCHANGED <<names, log, clock, stored, cursor, applied>>
    BY DEF CycleFails
  <1>2. TypeOK'
    BY <1>0, <1>1, SyncAssumption DEF TypeOK, Asleep, Cycle, Time
  <1> QED
    BY <1>0, <1>1, <1>2 DEF IInv, LogOK, Fresh, NamesOK, CursorOK, BatchOK, AppliedOK,
                            NoneBehind, Since, Asleep

\* A commit brings every rename its new cursor's overlap leaves behind: those it
\* has not asked for, the earlier cursor had left behind.
LEMMA CommitStep == ASSUME IInv, CommitCycle PROVE IInv'
  <1> USE Numbers
  <1>0. TypeOK /\ LogOK /\ NamesOK /\ CursorOK /\ BatchOK /\ AppliedOK /\ NoneBehind
    BY DEF IInv
  <1>1. /\ cycle.pc = "commit"
        /\ stored' = [u \in User |-> Renamed(stored[u], cycle.deltas)]
        /\ cursor' = cycle.now /\ applied' = applied \cup cycle.deltas
        /\ cycle' = Asleep /\ UNCHANGED <<names, log, clock, faults>>
    BY DEF CommitCycle, Commit
  <1>2. Len(log) \in Nat /\ DOMAIN log = 1..Len(log) /\ \A k \in 1..Len(log) : Fresh(k)
    BY <1>0, LogType DEF LogOK
  <1>3. /\ cycle.now \in Time /\ cycle.since \in Int
        /\ cursor # None => cursor \in Int
        /\ \A i \in DOMAIN log : log[i].at \in Nat
    <2>1. cycle.now \in Time /\ cycle.since \in Int
      BY <1>0 DEF TypeOK, Cycle
    <2>2. cursor # None => cursor \in Int
      BY <1>0, SyncAssumption DEF TypeOK, Time
    <2>3. \A i \in DOMAIN log : log[i].at \in Nat
      BY <1>0, LogType, SyncAssumption DEF Time, Event
    <2> QED
      BY <2>1, <2>2, <2>3
  <1>4. \A u \in User : stored[u] \in Name \cup {None} /\ stored'[u] = Renamed(stored[u], cycle.deltas)
    BY <1>0, <1>1 DEF TypeOK
  <1>5. ASSUME NEW u \in User, NEW i \in DOMAIN log, stored'[u] = log[i].old
        PROVE  i \notin cycle.deltas
    BY <1>2, <1>4, <1>5, RenamedIs
  \* An old rename's name comes from a row that had it, or from a rename before it.
  <1>6. ASSUME NEW u \in User, NEW i \in DOMAIN log, stored'[u] = log[i].old
        PROVE  stored[u] = log[i].old \/ log[i].at >= cycle.since
    <2>1. CASE stored'[u] = stored[u]
      BY <1>6, <2>1
    <2>2. CASE \E k \in DOMAIN log : k \in cycle.deltas /\ stored'[u] = log[k].current
      <3>1. PICK k \in DOMAIN log : k \in cycle.deltas /\ stored'[u] = log[k].current
        BY <2>2
      <3>2. k < i
        <4>1. Fresh(k) /\ Fresh(i) /\ k \in Nat /\ i \in Nat
          BY <1>2
        <4>2. log[i].old = People + k /\ log[i].old \in 1..People+i-1
          BY <1>6, <3>1, <4>1 DEF Fresh
        <4> QED
          BY <4>1, <4>2
      <3>3. log[k].at <= log[i].at /\ log[k].at >= cycle.since
        BY <1>0, <1>1, <1>2, <3>1, <3>2 DEF LogOK, BatchOK
      <3> QED
        BY <1>3, <3>3
    <2> QED
      BY <1>2, <1>4, <2>1, <2>2, RenamedIs
  <1>7. cycle.since = IF cursor = None THEN 0 ELSE Since(cursor)
    BY <1>0, <1>1 DEF CursorOK
  <1>8. TypeOK'
    <2>1. stored' \in [User -> Name \cup {None}]
      BY <1>1, <1>2, <1>4, RenamedType
    <2>2. applied' \subseteq 1..MaxRenames
      BY <1>0, <1>1 DEF TypeOK, Cycle
    <2>3. cycle' \in Cycle
      BY <1>1, SyncAssumption DEF Cycle, Asleep, Time
    <2> QED
      BY <1>0, <1>1, <1>3, <2>1, <2>2, <2>3 DEF TypeOK
  <1>9. LogOK' /\ NamesOK'
    BY <1>0, <1>1 DEF LogOK, Fresh, NamesOK
  <1>10. CursorOK' /\ BatchOK'
    BY <1>0, <1>1 DEF CursorOK, BatchOK, Asleep
  <1>11. AppliedOK'
    <2>1. ASSUME NEW i \in applied', NEW u \in User, stored'[u] = log[i].old
          PROVE  FALSE
      <3>1. i \in DOMAIN log
        BY <1>0, <1>1 DEF AppliedOK, BatchOK
      <3>2. i \in applied /\ i \notin cycle.deltas
        BY <1>1, <1>5, <2>1, <3>1
      <3>3. log[i].at >= cycle.since
        BY <1>0, <1>6, <2>1, <3>1, <3>2 DEF AppliedOK
      <3> QED
        BY <1>0, <1>1, <3>1, <3>2, <3>3 DEF BatchOK
    <2>2. applied' \subseteq DOMAIN log /\ \A i \in applied' : log[i].visible
      BY <1>0, <1>1 DEF AppliedOK, BatchOK
    <2> QED
      BY <1>1, <2>1, <2>2 DEF AppliedOK
  <1>12. NoneBehind'
    <2>1. ASSUME NEW u \in User, NEW i \in DOMAIN log, stored'[u] = log[i].old,
                 log[i].at < cycle.now - Overlap
          PROVE  FALSE
      <3>1. log[i].at < cycle.now - Lag
        BY <1>3, <2>1, SyncAssumption DEF Time
      <3>2. i \notin cycle.deltas
        BY <1>5, <2>1
      <3>3. log[i].at < cycle.since
        BY <1>0, <1>1, <1>3, <3>1, <3>2 DEF BatchOK
      <3>4. stored[u] = log[i].old
        BY <1>3, <1>6, <2>1, <3>3
      <3>5. cursor # None /\ log[i].at < Since(cursor)
        BY <1>3, <1>7, <3>3
      <3> QED
        BY <1>0, <1>3, <3>4, <3>5 DEF NoneBehind, Since
    <2>2. cycle.now - Overlap \in Int
      BY <1>3, SyncAssumption DEF Time
    <2> QED
      BY <1>1, <1>3, <2>1, <2>2 DEF NoneBehind, Since
  <1> QED
    BY <1>8, <1>9, <1>10, <1>11, <1>12 DEF IInv

LEMMA StepInv == ~Reuse /\ IInv /\ [Next]_vars => IInv'
  <1> SUFFICES ASSUME ~Reuse, IInv, [Next]_vars PROVE IInv'
    OBVIOUS
  <1>1. ASSUME NEW u \in User, RenameUser(u) \/ WriteRow(u) PROVE IInv'
    BY <1>1, RenameStep, WriteStep
  <1>2. ASSUME NEW i \in DOMAIN log, Publish(i) PROVE IInv'
    BY <1>2, PublishStep
  <1>3. CASE Tick
    BY <1>3, TickStep
  <1>4. CASE BeginCycle \/ FeedAnswers \/ CommitCycle \/ CycleFails
    BY <1>4, BeginStep, AnswerStep, CommitStep, FailStep
  <1>5. CASE UNCHANGED vars
    BY <1>5 DEF vars, IInv, TypeOK, LogOK, Fresh, NamesOK, CursorOK, BatchOK, AppliedOK,
                NoneBehind, Since
  <1> QED
    BY <1>1, <1>2, <1>3, <1>4, <1>5 DEF Next

-----------------------------------------------------------------------------
(* What follows.                                                              *)

\* The log, the rows, the cursor and the batch under way fit together.
THEOREM InductiveInvariant == ~Reuse => (Spec => []IInv)
  <1> SUFFICES ASSUME ~Reuse PROVE Spec => []IInv
    OBVIOUS
  <1>1. IInv /\ [Next]_vars => IInv'
    BY StepInv
  <1> QED
    BY <1>1, InitInv, PTL DEF Spec

\* "A crash leaves both or neither" (sync.rs:1-2), and the overlap is enough:
\* no rename that a row still needs is behind the cursor, whatever fails and
\* however late within its lag the feed shows it.
THEOREM NoneSkipped == ~Reuse => (Spec => []NoRenameSkipped)
  <1>1. IInv => NoRenameSkipped
    BY DEF IInv, NoneBehind, NoRenameSkipped
  <1> QED
    BY <1>1, InductiveInvariant, PTL

\* "Applying a rename twice is a no-op" (sync.rs:20-21): a batch of renames that
\* were applied before leaves every row as it is.
THEOREM RepeatsAreNoOps == ~Reuse => (Spec => []RepeatIsNoOp)
  <1>1. ASSUME IInv PROVE RepeatIsNoOp
    <2> SUFFICES ASSUME cycle.deltas \subseteq applied, NEW u \in User
                 PROVE  Renamed(stored[u], cycle.deltas) = stored[u]
      BY DEF RepeatIsNoOp
    <2>1. Len(log) \in Nat /\ DOMAIN log = 1..Len(log) /\ \A k \in 1..Len(log) : Fresh(k)
      BY <1>1, LogType DEF IInv, LogOK
    <2>2. \A k \in 1..Len(log) : k \in cycle.deltas => stored[u] # log[k].old
      BY <1>1 DEF IInv, AppliedOK
    <2> QED
      BY <2>1, <2>2, Numbers, RenamedIs
  <1> QED
    BY <1>1, InductiveInvariant, PTL

\* A name that a committed cycle replaced never stands in a row again.
THEOREM ReplacedForGood == ~Reuse => (Spec => []AppliedOK)
  BY InductiveInvariant, PTL DEF IInv
=============================================================================
