-------------------------- MODULE SessionRegistry --------------------------
(* What the expiring stores promise their callers, with no map, no sweep and *)
(* no lock: the last value put under an id is what a read returns until      *)
(*   - it is removed or replaced (then it is never returned again), or       *)
(*   - the clock says that it reached MaxAge (then it is not returned); and  *)
(*     once ANY clock reading said so, it may be gone for good.              *)
(* The clock is the wall clock: it may step back.                            *)
EXTENDS Naturals

CONSTANTS Client, Id, Value, MaxAge, None,
          Time        \* the instants of the wall clock, a set of naturals

VARIABLES contents,   \* contents[i]: the last entry put under i, or None
          clock,      \* the wall clock
          highest,    \* the highest value the clock has had
          answer      \* answer[c]: what c's last read returned

vars == <<contents, clock, highest, answer>>

Entry == [val : Value, created : Time]

AgedOut(e, now) == now >= e.created /\ now - e.created >= MaxAge

\* A read must not return an entry the clock calls aged out; it must return
\* the entry when no clock reading ever called it aged out.
MayRead(i, v) ==
  \/ v = contents[i] /\ v # None /\ ~AgedOut(v, clock)
  \/ v = None /\ (contents[i] = None \/ AgedOut(contents[i], highest))

Init ==
  /\ contents = [i \in Id |-> None]
  /\ clock \in Time
  /\ highest = clock
  /\ answer = [c \in Client |-> None]

Put(i, e) ==
  /\ contents' = [contents EXCEPT ![i] = e]
  /\ UNCHANGED <<clock, highest, answer>>

Remove(i) ==
  /\ contents' = [contents EXCEPT ![i] = None]
  /\ UNCHANGED <<clock, highest, answer>>

Get(c, i) ==
  /\ \E v \in {contents[i], None} :
       /\ MayRead(i, v)
       /\ answer' = [answer EXCEPT ![c] = v]
  /\ UNCHANGED <<contents, clock, highest>>

SetClock(t) ==
  /\ clock' = t
  /\ highest' = IF t > highest THEN t ELSE highest
  /\ UNCHANGED <<contents, answer>>

Next ==
  \/ \E i \in Id, e \in Entry : Put(i, e)
  \/ \E i \in Id : Remove(i)
  \/ \E c \in Client, i \in Id : Get(c, i)
  \/ \E t \in Time : SetClock(t)

Spec == Init /\ [][Next]_vars
=============================================================================
