--------------------------- MODULE ExpiringStore ---------------------------
(* The in-memory store of store.rs as concurrent callers use it. Each call   *)
(* holds the RwLock only while it touches the map, so it is one step, except *)
(* `put`: it reads the clock first and takes the write lock afterwards, and  *)
(* anything may happen between the two.                                      *)
EXTENDS Expiring

CONSTANTS Client,      \* concurrent callers
          Id,          \* session or flow ids
          Value,       \* the opaque part of an entry
          MaxWall      \* bound: the highest instant the wall clock reaches

ASSUME StoreAssumption ==
  /\ MaxAge \in Nat
  /\ MaxWall \in Nat
  /\ None \notin [val : Value, created : 0..MaxWall]

VARIABLES entries,     \* the HashMap
          wall,        \* SystemTime::now()
          pending,     \* pending[c]: a put that read the clock, waiting for the lock
          answer,      \* answer[c]: what c's last get returned
          written,     \* history: the last entry put under an id and not removed
          highest      \* history: the highest value the clock has had

storeVars == <<entries, wall, pending, answer, written, highest>>

Entry == [val : Value, created : 0..MaxWall]

PendingPut == [id : Id, entry : Entry, now : 0..MaxWall]

StoreTypeOK ==
  /\ entries \in [Id -> Entry \cup {None}]
  /\ wall \in 0..MaxWall
  /\ pending \in [Client -> SUBSET PendingPut]
  /\ answer \in [Client -> Entry \cup {None}]
  /\ written \in [Id -> Entry \cup {None}]
  /\ highest \in 0..MaxWall

StoreInit ==
  /\ entries = [i \in Id |-> None]
  /\ wall \in 0..MaxWall
  /\ pending = [c \in Client |-> {}]
  /\ answer = [c \in Client |-> None]
  /\ written = [i \in Id |-> None]
  /\ highest = wall

\* `let now = SystemTime::now()`, before the lock. The entry was built from an
\* earlier clock reading: a new session's own, or the first login's when a
\* refreshed session is stored again.
PutReadsClock(c, i, e) ==
  /\ pending[c] = {}
  /\ e.created <= highest
  /\ pending' = [pending EXCEPT ![c] = {[id |-> i, entry |-> e, now |-> wall]}]
  /\ UNCHANGED <<entries, wall, answer, written, highest>>

\* The write lock is held: sweep with the earlier reading, insert, unlock.
PutLocked(c) ==
  /\ \E p \in pending[c] :
       /\ entries' = Inserted(entries, p.id, p.entry, p.now)
       /\ written' = [written EXCEPT ![p.id] = p.entry]
  /\ pending' = [pending EXCEPT ![c] = {}]
  /\ UNCHANGED <<wall, answer, highest>>

\* The clock is read under the read lock.
Get(c, i) ==
  /\ pending[c] = {}
  /\ answer' = [answer EXCEPT ![c] = Lookup(entries, i, wall)]
  /\ UNCHANGED <<entries, wall, pending, written, highest>>

Remove(c, i) ==
  /\ pending[c] = {}
  /\ entries' = Removed(entries, i)
  /\ written' = [written EXCEPT ![i] = None]
  /\ UNCHANGED <<wall, pending, answer, highest>>

\* SystemTime is not monotonic: it advances, and it may be set back.
SetClock(t) ==
  /\ wall' = t
  /\ highest' = IF t > highest THEN t ELSE highest
  /\ UNCHANGED <<entries, pending, answer, written>>

StoreNext ==
  \/ \E c \in Client, i \in Id, e \in Entry : PutReadsClock(c, i, e)
  \/ \E c \in Client : PutLocked(c)
  \/ \E c \in Client, i \in Id : Get(c, i)
  \/ \E c \in Client, i \in Id : Remove(c, i)
  \/ \E t \in 0..MaxWall : SetClock(t)

StoreSpec == StoreInit /\ [][StoreNext]_storeVars

-----------------------------------------------------------------------------

\* The map and the history agree: what the map holds is what was last put
\* under that id, and what it no longer holds had aged out by some reading of
\* the clock. This is what the sweep of one caller's put may do to the entries
\* of every other caller, whichever instant it read before it got the lock.
MapMatchesHistory ==
  \A i \in Id :
    /\ entries[i] # None => entries[i] = written[i]
    /\ entries[i] = None /\ written[i] # None =>
         /\ highest >= written[i].created
         /\ highest - written[i].created >= MaxAge

\* The clock, and the readings puts in progress hold, never exceed the highest.
ReadingsBelowHighest ==
  /\ wall <= highest
  /\ \A c \in Client : \A p \in pending[c] : p.now <= highest

StoreInv == StoreTypeOK /\ ReadingsBelowHighest /\ MapMatchesHistory

Abstract == INSTANCE SessionRegistry WITH contents <- written, clock <- wall, Time <- 0..MaxWall

\* store.rs get/put/remove implement the registry: no entry is returned once
\* it is removed, replaced or aged out, and none is lost while it is young.
ImplementsRegistry == Abstract!Spec
=============================================================================
