------------------------------ MODULE NameSync ------------------------------
(* The name synchronisation of common-names (sync.rs, feed.rs, apply.rs): a   *)
(* service stores user names in its own tables and keeps them current from a  *)
(* feed of renames. One task polls; the cursor and the rewritten rows are in  *)
(* one database and change in one transaction.                                *)
(*                                                                            *)
(* The feed is external. A rename carries the instant it was made, and is     *)
(* visible in the feed up to Lag later; the feed returns, in order, what is   *)
(* visible and not older than `since`, with its own clock as the next cursor. *)
(* Names are numbers: user u begins with the name u, and new names are given  *)
(* in order.                                                                  *)
EXTENDS Integers, FiniteSets, Sequences

CONSTANTS User,        \* numbers from 1
          Reuse,       \* whether a name somebody gave up can be given to another
          Overlap,     \* sync.rs OVERLAP
          Lag,         \* bound: how long a rename stays invisible
          MaxRenames,  \* bound
          MaxFaults,   \* bound: failed or interrupted cycles
          MaxClock,    \* bound: the instants of the model
          None

ASSUME SyncAssumption ==
  /\ IsFiniteSet(User) /\ User = 1..Cardinality(User)
  /\ Reuse \in BOOLEAN
  /\ Overlap \in Nat /\ Lag \in 0..Overlap
  /\ MaxRenames \in Nat /\ MaxFaults \in Nat /\ MaxClock \in Nat
  /\ None \notin Int

VARIABLES names,    \* the IdP: everyone's name
          log,      \* the IdP: every rename, in order
          clock,    \* the feed's clock
          stored,   \* the service's table: a row of each user, or None
          cursor,   \* its table name_sync_cursor
          cycle,    \* the cycle in progress
          applied,  \* history: the renames of committed cycles
          faults

vars == <<names, log, clock, stored, cursor, cycle, applied, faults>>

Time == 0..MaxClock
Name == Nat \ {0}
Event == [user : User, old : Name, current : Name, at : Time, visible : BOOLEAN]

\* pc: sleeps till the next tick; awaits the feed; has the deltas to commit,
\* which are renames of the log, by their place in it and in that order.
Cycle ==
  [pc : {"sleep", "fetch", "commit"}, since : Int, now : Time,
   deltas : SUBSET (1..MaxRenames)]

Asleep == [pc |-> "sleep", since |-> 0, now |-> 0, deltas |-> {}]

TypeOK ==
  /\ names \in [User -> Name]
  /\ log \in Seq(Event) /\ Len(log) <= MaxRenames
  /\ clock \in Time
  /\ stored \in [User -> Name \cup {None}]
  /\ cursor \in Time \cup {None}
  /\ cycle \in Cycle
  /\ applied \subseteq 1..MaxRenames
  /\ faults \in 0..MaxFaults

Init ==
  /\ names = [u \in User |-> u]
  /\ log = <<>>
  /\ clock = 0
  /\ stored = [u \in User |-> None]
  /\ cursor = None
  /\ cycle = Asleep
  /\ applied = {}
  /\ faults = 0

-----------------------------------------------------------------------------
(* The IdP and its feed, and the service's own writes.                       *)

Given == {u : u \in User} \cup {log[i].current : i \in DOMAIN log}
Held == {names[u] : u \in User}

Former(u) == {log[i].old : i \in {j \in DOMAIN log : log[j].user = u}}

\* A new name, or one that somebody else gave up.
Available(u, n) ==
  \/ n = Cardinality(Given) + 1
  \/ Reuse /\ n \in Given \ (Held \cup Former(u))

RenameUser(u) ==
  /\ Len(log) < MaxRenames
  /\ \E n \in 1..(Cardinality(User) + MaxRenames) :
       /\ Available(u, n)
       /\ names' = [names EXCEPT ![u] = n]
       /\ log' = Append(log, [user |-> u, old |-> names[u], current |-> n,
                              at |-> clock, visible |-> FALSE])
  /\ UNCHANGED <<clock, stored, cursor, cycle, applied, faults>>

Publish(i) ==
  /\ ~log[i].visible
  /\ log' = [log EXCEPT ![i].visible = TRUE]
  /\ UNCHANGED <<names, clock, stored, cursor, cycle, applied, faults>>

Tick ==
  /\ clock < MaxClock
  /\ \A i \in DOMAIN log : ~log[i].visible => clock < log[i].at + Lag
  /\ clock' = clock + 1
  /\ UNCHANGED <<names, log, stored, cursor, cycle, applied, faults>>

\* The service writes a row under the user's name of the moment.
WriteRow(u) ==
  /\ stored' = [stored EXCEPT ![u] = names[u]]
  /\ UNCHANGED <<names, log, clock, cursor, cycle, applied, faults>>

-----------------------------------------------------------------------------
(* sync.rs `run_cycle`.                                                      *)

\* Mutant: the cursor is sent as it is stored.
SinceWithoutOverlap(c) == c

\* `overlapped`. No cursor asks for the whole feed.
Since(c) == c - Overlap

\* The tick: the cursor is read and the feed asked.
BeginCycle ==
  /\ cycle.pc = "sleep"
  /\ cycle' = [Asleep EXCEPT !.pc = "fetch", !.since = IF cursor = None THEN 0 ELSE Since(cursor)]
  /\ UNCHANGED <<names, log, clock, stored, cursor, applied, faults>>

Visible(since) == {i \in DOMAIN log : log[i].visible /\ log[i].at >= since}

FeedAnswers ==
  /\ cycle.pc = "fetch"
  /\ cycle' = [cycle EXCEPT !.pc = "commit", !.now = clock, !.deltas = Visible(cycle.since)]
  /\ UNCHANGED <<names, log, clock, stored, cursor, applied, faults>>

\* Mutant: the renames are applied last to first.
RenamedBackwards(name, deltas) ==
  LET renamed[k \in 1..Len(log)+1] ==
        IF k > Len(log) THEN name
        ELSE IF k \in deltas /\ renamed[k+1] = log[k].old THEN log[k].current
        ELSE renamed[k+1]
  IN  renamed[1]

\* apply.rs: one UPDATE after the other, each over the rows of that name; what
\* the deltas among the first k renames make of a row.
RenamedUpTo(name, deltas) ==
  LET renamed[k \in 0..Len(log)] ==
        IF k = 0 THEN name
        ELSE IF k \in deltas /\ renamed[k-1] = log[k].old THEN log[k].current
        ELSE renamed[k-1]
  IN  renamed

Renamed(name, deltas) == RenamedUpTo(name, deltas)[Len(log)]

\* The transaction: the rows and the cursor.
Commit(at) ==
  /\ cycle.pc = "commit"
  /\ stored' = [u \in User |-> Renamed(stored[u], cycle.deltas)]
  /\ cursor' = at
  /\ applied' = applied \cup cycle.deltas
  /\ cycle' = Asleep
  /\ UNCHANGED <<names, log, clock, faults>>

\* Mutant: the cursor stored is the clock at the end of the cycle.
CommitCycleNow == Commit(clock)

\* commit_cycle stores the feed's `now`, which came with the deltas.
CommitCycle == Commit(cycle.now)

\* Mutant: the cursor is stored outside the transaction.
CycleFailsCursorKept ==
  /\ cycle.pc # "sleep" /\ faults < MaxFaults
  /\ cursor' = IF cycle.pc = "commit" THEN cycle.now ELSE cursor
  /\ cycle' = Asleep
  /\ faults' = faults + 1
  /\ UNCHANGED <<names, log, clock, stored, applied>>

\* The feed cannot be reached or makes no sense, the consumer's apply fails, or
\* the process stops and starts again: the transaction leaves nothing, and the
\* next cycle begins from the stored cursor.
CycleFails ==
  /\ cycle.pc # "sleep" /\ faults < MaxFaults
  /\ cycle' = Asleep
  /\ faults' = faults + 1
  /\ UNCHANGED <<names, log, clock, stored, cursor, applied>>

Next ==
  \/ \E u \in User : RenameUser(u) \/ WriteRow(u)
  \/ \E i \in DOMAIN log : Publish(i)
  \/ Tick
  \/ BeginCycle
  \/ FeedAnswers
  \/ CommitCycle
  \/ CycleFails

Spec == Init /\ [][Next]_vars

\* The loop never exits; the feed is reachable again and shows every rename.
FairSpec ==
  /\ Spec
  /\ WF_vars(BeginCycle) /\ WF_vars(FeedAnswers) /\ WF_vars(CommitCycle)
  /\ \A i \in 1..MaxRenames : WF_vars(i \in DOMAIN log /\ Publish(i))

-----------------------------------------------------------------------------

\* "A crash leaves both or neither" (sync.rs), and the overlap is enough: a
\* rename that still has to be applied to a row is one the next cycle asks for
\* again. None is ever behind the cursor.
NoRenameSkipped ==
  \A u \in User, i \in DOMAIN log :
    log[i].user = u /\ stored[u] = log[i].old /\ cursor # None =>
      log[i].at >= Since(cursor)

\* "Applying a rename twice is a no-op" (sync.rs): a cycle that brings only
\* renames applied before changes no row, whatever was renamed and written in
\* between. It holds as long as no name is given to somebody else.
RepeatIsNoOp ==
  cycle.pc = "commit" /\ cycle.deltas \subseteq applied =>
    \A u \in User : Renamed(stored[u], cycle.deltas) = stored[u]

\* When users stop being renamed and cycles stop failing, the rows become
\* current and stay so.
RowsBecomeCurrent == <>[](\A u \in User : stored[u] \in {names[u], None})
=============================================================================
