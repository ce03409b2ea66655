------------------------ MODULE SecretClientProofs ------------------------
(* Safety of the secrets client for any number of tasks and tokens, any      *)
(* leases, and any skew that covers the delays.                              *)
EXTENDS SecretClient, TLAPS, SequenceTheorems

LEMMA NoneIsNoToken == NewTask \in TaskState /\ TaskOK(NewTask)
  BY ClientAssumption DEF NewTask, TaskState, TaskOK, Time

LEMMA InitInv == Init => IInv
  <1> SUFFICES ASSUME Init PROVE IInv
    OBVIOUS
  <1>1. Typed
    BY NoneIsNoToken, ClientAssumption DEF Init, Typed, Time
  <1>2. CacheOK
    BY DEF Init, CacheOK
  <1>3. QED
    BY <1>1, <1>2, NoneIsNoToken DEF Init, IInv

\* One task moves to u.
LEMMA TaskMoves ==
  ASSUME IInv, NEW t \in Task, NEW u \in TaskState, TaskOK(u),
         task' = [task EXCEPT ![t] = u],
         UNCHANGED clock,
         cache' \in [value : Token, expiresAt : Nat] \cup {None}, CacheOK'
  PROVE  IInv'
  <1>1. Typed'
    BY DEF IInv, Typed
  <1>2. \A v \in Task : TaskOK(task'[v])
    BY DEF IInv, Typed
  <1>3. \A v \in Task : TaskOK(task[v])'
    BY <1>2 DEF TaskOK
  <1>4. QED
    BY <1>1, <1>3 DEF IInv

\* The same when the cache stays, or is emptied.
LEMMA TaskMovesAlone ==
  ASSUME IInv, NEW t \in Task, NEW u \in TaskState, TaskOK(u),
         task' = [task EXCEPT ![t] = u],
         UNCHANGED clock, cache' \in {cache, None}
  PROVE  IInv'
  <1>1. CacheOK'
    BY DEF IInv, CacheOK
  <1>2. QED
    BY <1>1, TaskMoves DEF IInv, Typed

\* A task that has no request in progress sends one with a token that is good
\* for as long as the request takes.
LEMMA CallingTask ==
  ASSUME IInv, NEW t \in Task, NEW token \in Token, task[t].pc # "call",
         task[t].attempt = 2 => token.id # task[t].rejected,
         token.lease > LeaseSkew => clock + MaxDelay < token.ends,
         Calling(t, token),
         UNCHANGED clock,
         cache' \in [value : Token, expiresAt : Nat] \cup {None}, CacheOK'
  PROVE  IInv'
  <1> DEFINE u == [task[t] EXCEPT !.pc = "call", !.token = token, !.issued = None,
                                  !.sent = clock, !.answer = "none"]
  <1>1. task[t] \in TaskState /\ TaskOK(task[t]) /\ clock \in Time
    BY DEF IInv, Typed
  <1>2. u \in TaskState
    BY <1>1 DEF TaskState
  <1>3. /\ u.pc = "call" /\ u.token = token /\ u.issued = None /\ u.sent = clock
        /\ u.answer = "none" /\ u.applied = task[t].applied /\ u.attempt = task[t].attempt
        /\ u.rejected = task[t].rejected
    BY <1>1 DEF TaskState
  <1>4. u.applied = 0
    BY <1>1, <1>3 DEF TaskOK, TaskState
  <1>5. task' = [task EXCEPT ![t] = u]
    BY DEF Calling, IInv, Typed
  <1> HIDE DEF u
  <1>6. TaskOK(u)
    BY <1>1, <1>3, <1>4, ClientAssumption DEF TaskOK, Time
  <1>7. QED
    BY <1>2, <1>5, <1>6, TaskMoves

-----------------------------------------------------------------------------

LEMMA StartStep ==
  ASSUME IInv, NEW t \in Task, Start(t)
  PROVE  IInv'
  <1> DEFINE u == [task[t] EXCEPT !.pc = "token"]
  <1>1. task[t] \in TaskState /\ TaskOK(task[t]) /\ task[t].pc = "idle"
    BY DEF IInv, Typed, Start
  <1>2. u \in TaskState
    BY <1>1 DEF TaskState
  <1>3. /\ u.pc = "token" /\ u.attempt = task[t].attempt /\ u.applied = task[t].applied
        /\ u.issued = task[t].issued
    BY <1>1 DEF TaskState
  <1>4. task' = [task EXCEPT ![t] = u]
    BY DEF Start, IInv, Typed
  <1> HIDE DEF u
  <1>5. TaskOK(u)
    BY <1>1, <1>2, <1>3 DEF TaskOK, TaskState
  <1>6. QED
    BY <1>2, <1>4, <1>5, TaskMovesAlone DEF Start

\* An entry used before it counts as spent leaves a delay and more of the lease.
LEMMA CacheHitStep ==
  ASSUME IInv, NEW t \in Task, CacheHit(t)
  PROVE  IInv'
  <1>1. /\ task[t] \in TaskState /\ TaskOK(task[t]) /\ task[t].pc = "token"
        /\ cache \in [value : Token, expiresAt : Nat] /\ clock \in Time
        /\ clock < cache.expiresAt
    BY DEF IInv, Typed, CacheHit, Usable
  <1>2. /\ cache.value \in Token /\ cache.expiresAt \in Nat /\ cache.value.ends \in Nat
        /\ cache # None
    BY <1>1 DEF Token, CacheHit, Usable
  <1>3. cache.value.lease > LeaseSkew => clock + MaxDelay < cache.value.ends
    <2> SUFFICES ASSUME cache.value.lease > LeaseSkew
                 PROVE  clock + MaxDelay < cache.value.ends
      OBVIOUS
    <2>1. cache.expiresAt + LeaseSkew <= cache.value.ends + MaxDelay
      BY <1>2 DEF IInv, CacheOK
    <2>2. QED
      BY <2>1, <1>1, <1>2, ClientAssumption DEF Time
  <1>4. task[t].attempt = 1
    BY <1>1 DEF TaskOK
  <1>5. CacheOK'
    BY DEF CacheHit, IInv, CacheOK
  <1>6. QED
    BY <1>1, <1>2, <1>3, <1>4, <1>5, CallingTask DEF CacheHit

\* A task that waits for the lock goes on to log in.
LEMMA LoginStarts ==
  ASSUME IInv, NEW t \in Task, task[t].pc \in {"token", "reauth"},
         task' = [task EXCEPT ![t].pc = "jwt"],
         UNCHANGED clock, cache' \in {cache, None}
  PROVE  IInv'
  <1> DEFINE u == [task[t] EXCEPT !.pc = "jwt"]
  <1>1. task[t] \in TaskState /\ TaskOK(task[t])
    BY DEF IInv, Typed
  <1>2. u \in TaskState
    BY <1>1 DEF TaskState
  <1>3. u.pc = "jwt" /\ u.applied = task[t].applied /\ u.issued = task[t].issued
    BY <1>1 DEF TaskState
  <1>4. task' = [task EXCEPT ![t] = u]
    BY DEF IInv, Typed
  <1> HIDE DEF u
  <1>5. TaskOK(u)
    BY <1>1, <1>2, <1>3 DEF TaskOK, TaskState
  <1>6. QED
    BY <1>2, <1>4, <1>5, TaskMovesAlone

LEMMA JwtReceivedStep ==
  ASSUME IInv, NEW t \in Task, JwtReceived(t)
  PROVE  IInv'
  <1> DEFINE u == [task[t] EXCEPT !.pc = "login"]
  <1>1. task[t] \in TaskState /\ TaskOK(task[t]) /\ task[t].pc = "jwt"
    BY DEF IInv, Typed, JwtReceived
  <1>2. u \in TaskState
    BY <1>1 DEF TaskState
  <1>3. u.pc = "login" /\ u.applied = task[t].applied /\ u.issued = task[t].issued
    BY <1>1 DEF TaskState
  <1>4. task' = [task EXCEPT ![t] = u]
    BY DEF JwtReceived, IInv, Typed
  <1> HIDE DEF u
  <1>5. TaskOK(u)
    BY <1>1, <1>2, <1>3 DEF TaskOK, TaskState
  <1>6. QED
    BY <1>2, <1>4, <1>5, TaskMovesAlone DEF JwtReceived

\* The vault issues a token nobody has, so not the one it rejected.
LEMMA IssueStep ==
  ASSUME IInv, NEW t \in Task, Issue(t)
  PROVE  IInv'
  <1> DEFINE id == CHOOSE k \in Id : Unused(k)
  <1>1. task[t] \in TaskState /\ TaskOK(task[t]) /\ task[t].pc = "login" /\ clock \in Time
    BY DEF IInv, Typed, Issue
  <1>2. id \in Id /\ task[t].rejected # id
    BY DEF Issue, Unused
  <1> HIDE DEF id
  <1>3. PICK lease \in Leases :
          task' = [task EXCEPT ![t].issued = [id |-> id, lease |-> lease, ends |-> clock + lease],
                               ![t].sent = clock]
    BY DEF Issue, id
  <1> DEFINE token == [id |-> id, lease |-> lease, ends |-> clock + lease]
             u == [task[t] EXCEPT !.issued = token, !.sent = clock]
  <1>4. token \in Token /\ lease \in Nat /\ clock \in Nat /\ clock + lease \in Nat
    BY <1>1, <1>2, ClientAssumption DEF Token, Time
  <1>5. token.id = id /\ token.lease = lease /\ token.ends = clock + lease
    OBVIOUS
  <1>6. task' = [task EXCEPT ![t] = [task[t] EXCEPT !.issued = token, !.sent = clock]]
    BY <1>3 DEF IInv, Typed
  <1> HIDE DEF token
  <1>7. u \in TaskState
    BY <1>1, <1>4 DEF TaskState
  <1>8. /\ u.pc = "login" /\ u.applied = task[t].applied /\ u.issued = token
        /\ u.sent = clock /\ u.rejected = task[t].rejected
    BY <1>1 DEF TaskState
  <1>9. task' = [task EXCEPT ![t] = u]
    BY <1>6
  <1> HIDE DEF u
  <1>10. TaskOK(u)
    BY <1>1, <1>2, <1>4, <1>5, <1>7, <1>8, ClientAssumption DEF TaskOK, TaskState, Time
  <1>11. QED
    BY <1>7, <1>9, <1>10, TaskMovesAlone DEF Issue

LEMMA LoggedInStep ==
  ASSUME IInv, NEW t \in Task, LoggedIn(t)
  PROVE  IInv'
  <1> DEFINE token == task[t].issued
  <1>1. task[t] \in TaskState /\ TaskOK(task[t]) /\ task[t].pc = "login" /\ clock \in Nat
    BY DEF IInv, Typed, LoggedIn, Time
  <1>2. token \in Token /\ token # None /\ task[t].sent \in Nat
    BY <1>1 DEF LoggedIn, TaskState, Time
  <1>3. token.lease \in Nat /\ token.ends \in Nat
    BY <1>2, ClientAssumption DEF Token
  <1>4. /\ token.id # task[t].rejected /\ token.ends = task[t].sent + token.lease
        /\ clock <= task[t].sent + MaxDelay /\ task[t].sent <= clock
    BY <1>1, <1>2 DEF TaskOK
  <1>5. cache' = [value |-> token, expiresAt |-> clock + TimeToLive(token.lease)]
    BY DEF LoggedIn
  <1> HIDE DEF token
  <1>6. TimeToLive(token.lease) \in Nat
    BY <1>3, ClientAssumption DEF TimeToLive
  <1>7. cache' \in [value : Token, expiresAt : Nat]
    BY <1>1, <1>2, <1>5, <1>6
  <1>8. CacheOK'
    <2> SUFFICES ASSUME token.lease > LeaseSkew
                 PROVE  clock + TimeToLive(token.lease) + LeaseSkew <= token.ends + MaxDelay
      BY <1>5 DEF CacheOK
    <2>1. QED
      BY <1>1, <1>2, <1>3, <1>4, ClientAssumption DEF TimeToLive
  <1>9. token.lease > LeaseSkew => clock + MaxDelay < token.ends
    BY <1>1, <1>2, <1>3, <1>4, ClientAssumption
  <1>10. Calling(t, token) /\ UNCHANGED clock
    BY DEF LoggedIn, token
  <1>11. QED
    BY <1>1, <1>2, <1>4, <1>7, <1>8, <1>9, <1>10, CallingTask

\* The operation ends, one way or another.
LEMMA EndedStep ==
  ASSUME IInv, NEW t \in Task, Ended(t), UNCHANGED <<cache, clock>>
  PROVE  IInv'
  BY NoneIsNoToken, TaskMovesAlone DEF Ended

\* The kv request is answered; only what was carried out counts.
LEMMA AnsweredRequest ==
  ASSUME IInv, NEW t \in Task, NEW answer \in {"ok", "rejected", "failed"}, NEW n \in 0..1,
         n = 1 => answer \in {"ok", "failed"},
         task[t].pc = "call",
         task' = [task EXCEPT ![t] = [task[t] EXCEPT !.answer = answer, !.sent = 0,
                                                     !.applied = n]],
         UNCHANGED <<cache, clock>>
  PROVE  IInv'
  <1> DEFINE u == [task[t] EXCEPT !.answer = answer, !.sent = 0, !.applied = n]
  <1>1. task[t] \in TaskState /\ TaskOK(task[t])
    BY DEF IInv, Typed
  <1>2. 0 \in Time /\ n \in 0..2
    BY ClientAssumption DEF Time
  <1>3. u \in TaskState
    BY <1>1, <1>2 DEF TaskState
  <1>4. /\ u.pc = "call" /\ u.answer = answer /\ u.applied = n /\ u.token = task[t].token
        /\ u.attempt = task[t].attempt /\ u.rejected = task[t].rejected
        /\ u.issued = task[t].issued
    BY <1>1 DEF TaskState
  <1>5. task' = [task EXCEPT ![t] = u]
    OBVIOUS
  <1> HIDE DEF u
  <1>6. TaskOK(u)
    BY <1>1, <1>4 DEF TaskOK
  <1>7. QED
    BY <1>3, <1>5, <1>6, TaskMovesAlone

\* A request not answered has not been carried out.
LEMMA NotYetApplied ==
  ASSUME IInv, NEW t \in Task, task[t].answer \in {"none", "rejected"}
  PROVE  task[t].applied = 0
  BY DEF IInv, Typed, TaskState, TaskOK

LEMMA CarriedStep ==
  ASSUME IInv, NEW t \in Task, Carried(t)
  PROVE  IInv'
  <1>1. PICK answer \in {"ok", "failed"} :
          task' = [task EXCEPT ![t].answer = answer, ![t].sent = 0, ![t].applied = @ + 1]
    BY DEF Carried
  <1>2. task[t].applied + 1 = 1
    BY NotYetApplied DEF Carried
  <1>3. task' = [task EXCEPT ![t] = [task[t] EXCEPT !.answer = answer, !.sent = 0,
                                                    !.applied = 1]]
    BY <1>1, <1>2
  <1>4. 1 \in 0..1 /\ answer \in {"ok", "rejected", "failed"}
    OBVIOUS
  <1>5. task[t].pc = "call" /\ UNCHANGED <<cache, clock>>
    BY DEF Carried
  <1>6. QED
    BY <1>1, <1>3, <1>4, <1>5, AnsweredRequest

LEMMA NotCarriedStep ==
  ASSUME IInv, NEW t \in Task, NEW answer \in {"rejected", "failed"},
         task[t].pc = "call", task[t].answer = "none",
         task' = [task EXCEPT ![t].answer = answer, ![t].sent = 0],
         UNCHANGED <<cache, clock>>
  PROVE  IInv'
  <1>1. task[t] \in TaskState /\ task[t].applied = 0
    BY NotYetApplied DEF IInv, Typed
  <1>2. [task[t] EXCEPT !.answer = answer, !.sent = 0]
          = [task[t] EXCEPT !.answer = answer, !.sent = 0, !.applied = 0]
    BY <1>1 DEF TaskState
  <1>3. task' = [task EXCEPT ![t] = [task[t] EXCEPT !.answer = answer, !.sent = 0]]
    BY DEF IInv, Typed
  <1>4. task' = [task EXCEPT ![t] = [task[t] EXCEPT !.answer = answer, !.sent = 0,
                                                    !.applied = 0]]
    BY <1>2, <1>3
  <1>5. 0 \in 0..1 /\ 0 # 1 /\ answer \in {"ok", "rejected", "failed"}
    OBVIOUS
  <1>6. QED
    BY <1>4, <1>5, AnsweredRequest

\* Only a rejected request is sent again, so nothing was carried out.
LEMMA RetryStep ==
  ASSUME IInv, NEW t \in Task, Retry(t)
  PROVE  IInv'
  <1> DEFINE u == [task[t] EXCEPT !.pc = "reauth", !.attempt = 2, !.answer = "none",
                                  !.rejected = task[t].token.id, !.token = None]
  <1>1. task[t] \in TaskState /\ TaskOK(task[t]) /\ task[t].pc = "call"
    BY DEF IInv, Typed, Retry
  <1>2. task[t].applied = 0 /\ task[t].token.id \in Id
    BY <1>1 DEF Retry, Retries, TaskOK, TaskState, Token
  <1>3. u \in TaskState
    <2>1. 2 \in 1..2
      OBVIOUS
    <2>2. QED
      BY <1>1, <1>2, <2>1, Zenon DEF TaskState
  <1>4. u.pc = "reauth" /\ u.applied = 0 /\ u.issued = task[t].issued
    BY <1>1, <1>2 DEF TaskState
  <1>5. task' = [task EXCEPT ![t] = u]
    BY DEF Retry, IInv, Typed
  <1> HIDE DEF u
  <1>6. TaskOK(u)
    BY <1>1, <1>4 DEF TaskOK
  <1>7. QED
    BY <1>3, <1>5, <1>6, TaskMovesAlone DEF Retry

\* Time passes only while everything in flight may still take longer.
LEMMA TickStep ==
  ASSUME IInv, Tick
  PROVE  IInv'
  <1>1. Typed'
    BY ClientAssumption DEF IInv, Typed, Tick, Time
  <1>2. CacheOK'
    BY DEF IInv, CacheOK, Tick
  <1>3. \A t \in Task : TaskOK(task[t])'
    <2> TAKE t \in Task
    <2>1. task[t] \in TaskState /\ TaskOK(task[t]) /\ clock \in Nat /\ clock' = clock + 1
      BY DEF IInv, Typed, Tick, Time
    <2>2. InFlight(t) => clock < task[t].sent + MaxDelay
      BY DEF Tick
    <2>3. task[t].sent \in Nat
      BY <2>1 DEF TaskState, Time
    <2>4. task'[t] = task[t]
      BY DEF Tick
    <2>5. QED
      BY <2>1, <2>2, <2>3, <2>4, ClientAssumption DEF TaskOK, InFlight
  <1>4. QED
    BY <1>1, <1>2, <1>3 DEF IInv

LEMMA NextInv == IInv /\ [Next]_vars => IInv'
  <1> SUFFICES ASSUME IInv, [Next]_vars PROVE IInv'
    OBVIOUS
  <1>1. ASSUME NEW t \in Task, Start(t) PROVE IInv'
    BY <1>1, StartStep
  <1>2. ASSUME NEW t \in Task, Step(t) PROVE IInv'
    <2>1. CASE CacheHit(t)
      BY <2>1, CacheHitStep
    <2>2. CASE CacheMiss(t)
      BY <2>2, LoginStarts DEF CacheMiss
    <2>3. CASE Reauthenticate(t)
      BY <2>3, LoginStarts DEF Reauthenticate
    <2>4. CASE Retry(t)
      BY <2>4, RetryStep
    <2>5. CASE Return(t)
      BY <2>5, EndedStep DEF Return
    <2>6. QED
      BY <1>2, <2>1, <2>2, <2>3, <2>4, <2>5 DEF Step
  <1>3. ASSUME NEW t \in Task, Answered(t) PROVE IInv'
    <2>1. CASE JwtReceived(t)
      BY <2>1, JwtReceivedStep
    <2>2. CASE Issue(t)
      BY <2>2, IssueStep
    <2>3. CASE LoggedIn(t)
      BY <2>3, LoggedInStep
    <2>4. CASE LoginFails(t)
      BY <2>4, EndedStep DEF LoginFails
    <2>5. CASE Carried(t)
      BY <2>5, CarriedStep
    <2>6. CASE Refused(t)
      BY <2>6, NotCarriedStep DEF Refused
    <2>7. CASE NotCarried(t)
      BY <2>7, NotCarriedStep DEF NotCarried
    <2>8. QED
      BY <1>3, <2>1, <2>2, <2>3, <2>4, <2>5, <2>6, <2>7 DEF Answered
  <1>4. ASSUME NEW t \in Task, Cancel(t) PROVE IInv'
    BY <1>4, EndedStep DEF Cancel, Ended
  <1>5. CASE Tick
    BY <1>5, TickStep
  <1>6. CASE UNCHANGED vars
    BY <1>6 DEF vars, IInv, Typed, CacheOK, TaskOK
  <1>7. QED
    BY <1>1, <1>2, <1>3, <1>4, <1>5, <1>6 DEF Next

-----------------------------------------------------------------------------

\* A cached token is dropped in time, and every operation holds a token that is
\* not the one it was refused with: the invariant the others follow from.
THEOREM InductiveInvariant == Spec => []IInv
  BY InitInv, NextInv, PTL DEF Spec

\* A request in flight has a token whose lease has not ended, whatever the
\* leases, if the skew covers the login's reply and the request.
THEOREM InTime == Spec => []NeverRacesExpiry
  <1>1. IInv => NeverRacesExpiry
    <2> SUFFICES ASSUME IInv, NEW t \in Task, task[t].pc = "call", task[t].answer = "none",
                        task[t].token.lease > LeaseSkew
                 PROVE  clock < task[t].token.ends
      BY DEF NeverRacesExpiry
    <2>1. TaskOK(task[t]) /\ task[t] \in TaskState /\ clock \in Nat
      BY DEF IInv, Typed, Time
    <2>2. task[t].token.ends \in Nat /\ task[t].sent \in Nat
      BY <2>1 DEF TaskOK, Token, TaskState, Time
    <2>3. QED
      BY <2>1, <2>2, ClientAssumption DEF TaskOK
  <1>2. QED
    BY <1>1, InductiveInvariant, PTL

\* However often it is tried, an operation is carried out at most once.
THEOREM AppliedOnce == Spec => []AppliedAtMostOnce
  <1>1. IInv => AppliedAtMostOnce
    BY DEF IInv, Typed, TaskState, TaskOK, AppliedAtMostOnce
  <1>2. QED
    BY <1>1, InductiveInvariant, PTL

\* The retry presents a token other than the rejected one, whatever the other
\* tasks do to the cache.
THEOREM AnotherToken == Spec => []RetryHasAnotherToken
  <1>1. IInv => RetryHasAnotherToken
    BY DEF IInv, TaskOK, RetryHasAnotherToken
  <1>2. QED
    BY <1>1, InductiveInvariant, PTL

-----------------------------------------------------------------------------
(* The mutex.                                                                *)

\* The queue has the tasks that wait for the lock or log in under it, each once,
\* and only its head is not waiting.
QueueOK ==
  /\ queue \in Seq(Task) /\ IsInjective(queue)
  /\ \A t \in Task : Queued(t) <=> task[t].pc \in {"token", "reauth", "jwt", "login"}
  /\ \A i \in DOMAIN queue : i # 1 => Waits(queue[i])

\* Only t goes on, to pc.
Goes(t, pc) == \A u \in Task : task'[u].pc = IF u = t THEN pc ELSE task[u].pc

\* r is q without the element at i.
Removed(q, r, i) ==
  /\ Len(r) = Len(q) - 1
  /\ \A j \in 1..Len(r) : r[j] = IF j < i THEN q[j] ELSE q[j + 1]

LEMMA TailRemoves ==
  ASSUME NEW S, NEW q \in Seq(S), q # <<>>
  PROVE  Tail(q) \in Seq(S) /\ Removed(q, Tail(q), 1) /\ 1 \in 1..Len(q) /\ Head(q) = q[1]
  BY DEF Removed

LEMMA RemoveAtRemoves ==
  ASSUME NEW S, NEW q \in Seq(S), NEW i \in 1..Len(q)
  PROVE  RemoveAt(q, i) \in Seq(S) /\ Removed(q, RemoveAt(q, i), i)
  <1> DEFINE a == SubSeq(q, 1, i - 1)
             b == SubSeq(q, i + 1, Len(q))
  <1>1. a \in Seq(S) /\ Len(a) = i - 1 /\ \A j \in 1..i-1 : a[j] = q[j]
    OBVIOUS
  <1>2. b \in Seq(S) /\ Len(b) = Len(q) - i /\ \A j \in 1..Len(q)-i : b[j] = q[j + i]
    OBVIOUS
  <1> HIDE DEF a, b
  <1>3. RemoveAt(q, i) = a \o b
    BY DEF RemoveAt, a, b
  <1>4. a \o b \in Seq(S) /\ Len(a \o b) = Len(q) - 1
    <2>1. a \o b \in Seq(S) /\ Len(a \o b) = Len(a) + Len(b)
      BY <1>1, <1>2, ConcatProperties
    <2>2. (i - 1) + (Len(q) - i) = Len(q) - 1
      OBVIOUS
    <2> QED
      BY <1>1, <1>2, <2>1, <2>2
  <1>5. ASSUME NEW j \in 1..Len(q)-1
        PROVE  (a \o b)[j] = IF j < i THEN q[j] ELSE q[j + 1]
    <2>1. CASE j < i
      BY <1>1, <1>2, <2>1
    <2>2. CASE ~(j < i)
      <3>1. (a \o b)[j] = b[j - (i - 1)]
        BY <1>1, <1>2, <2>2
      <3>2. j - (i - 1) \in 1..Len(q)-i /\ j - (i - 1) + i = j + 1
        BY <2>2
      <3> QED
        BY <1>2, <2>2, <3>1, <3>2
    <2> QED
      BY <2>1, <2>2
  <1> QED
    BY <1>3, <1>4, <1>5 DEF Removed

LEMMA QueueFacts ==
  ASSUME QueueOK
  PROVE  /\ queue \in Seq(Task) /\ DOMAIN queue = 1..Len(queue) /\ Len(queue) \in Nat
         /\ \A i, j \in 1..Len(queue) : queue[i] = queue[j] => i = j
         /\ \A i \in 1..Len(queue) : queue[i] \in Task
  BY DEF QueueOK, IsInjective

\* Under the lock is the head.
LEMMA HeadLogsIn ==
  ASSUME QueueOK, NEW t \in Task, task[t].pc \in {"jwt", "login"}
  PROVE  queue # <<>> /\ Head(queue) = t
  <1>1. PICK i \in DOMAIN queue : queue[i] = t
    BY DEF QueueOK, Queued
  <1>2. i = 1
    BY <1>1 DEF QueueOK, Waits
  <1> QED
    BY <1>1, <1>2, QueueFacts

\* A task that is not in the queue goes to its end.
LEMMA Enqueues ==
  ASSUME QueueOK, NEW t \in Task, task[t].pc \in {"idle", "call"},
         NEW pc \in {"token", "reauth"}, Goes(t, pc), queue' = Append(queue, t)
  PROVE  QueueOK'
  <1> DEFINE n == Len(queue)
  <1>1. \A i \in 1..n : queue[i] # t
    BY QueueFacts DEF QueueOK, Queued
  <1>2. /\ queue' \in Seq(Task) /\ DOMAIN queue' = 1..n+1 /\ n \in Nat
        /\ queue'[n + 1] = t /\ \A i \in 1..n : queue'[i] = queue[i]
    BY QueueFacts
  <1>3. \A i \in 1..n+1 : i \in 1..n \/ i = n + 1
    BY <1>2
  <1>4. IsInjective(queue)'
    BY <1>1, <1>2, <1>3, QueueFacts DEF IsInjective
  <1>5. \A u \in Task : Queued(u)' <=> u = t \/ Queued(u)
    <2> TAKE u \in Task
    <2>1. n + 1 \in 1..n+1 /\ \A i \in 1..n : i \in 1..n+1
      BY <1>2
    <2> QED
      BY <1>2, <1>3, <2>1, QueueFacts DEF Queued
  <1>6. \A u \in Task : Queued(u)' <=> task'[u].pc \in {"token", "reauth", "jwt", "login"}
    BY <1>5 DEF QueueOK, Goes
  <1>7. \A i \in DOMAIN queue' : i # 1 => Waits(queue[i])'
    <2> TAKE i \in DOMAIN queue'
    <2> HAVE i # 1
    <2>1. CASE i = n + 1
      BY <1>2, <2>1 DEF Goes, Waits
    <2>2. CASE i \in 1..n
      <3>1. queue'[i] = queue[i] /\ queue[i] # t /\ queue[i] \in Task /\ Waits(queue[i])
        BY <1>1, <1>2, <2>2, QueueFacts DEF QueueOK
      <3> QED
        BY <3>1 DEF Goes, Waits
    <2> QED
      BY <1>2, <1>3, <2>1, <2>2
  <1> QED
    BY <1>2, <1>4, <1>6, <1>7 DEF QueueOK

\* A task of the queue leaves it.
LEMMA Dequeues ==
  ASSUME QueueOK, NEW i \in 1..Len(queue), NEW t \in Task, queue[i] = t,
         queue' \in Seq(Task), Removed(queue, queue', i),
         NEW pc \in {"idle", "call"}, Goes(t, pc)
  PROVE  QueueOK'
  <1> DEFINE n == Len(queue)
             Old(j) == IF j < i THEN j ELSE j + 1
  <1>1. DOMAIN queue' = 1..n-1 /\ n \in Nat
    BY QueueFacts DEF Removed
  <1>2. \A j \in 1..n-1 : Old(j) \in 1..n /\ Old(j) # i /\ queue'[j] = queue[Old(j)]
    BY <1>1, QueueFacts DEF Removed
  <1>3. \A j, k \in 1..n-1 : Old(j) = Old(k) => j = k
    BY <1>1
  <1>4. \A j \in 1..n-1 : j # 1 => Old(j) # 1
    BY <1>1
  <1>5. \A k \in 1..n : k # i => \E j \in 1..n-1 : Old(j) = k
    <2> TAKE k \in 1..n
    <2> HAVE k # i
    <2> DEFINE j == IF k < i THEN k ELSE k - 1
    <2>1. j \in 1..n-1 /\ Old(j) = k
      BY <1>1
    <2> QED
      BY <2>1
  <1> HIDE DEF Old
  <1>6. IsInjective(queue)'
    BY <1>1, <1>2, <1>3, QueueFacts DEF IsInjective
  <1>7. \A u \in Task : Queued(u)' <=> u # t /\ Queued(u)
    <2> TAKE u \in Task
    <2>1. ASSUME Queued(u)' PROVE u # t /\ Queued(u)
      BY <1>1, <1>2, <2>1, QueueFacts DEF Queued
    <2>2. ASSUME u # t, Queued(u) PROVE Queued(u)'
      <3>1. PICK k \in 1..n : queue[k] = u
        BY <2>2, QueueFacts DEF Queued
      <3>2. PICK j \in 1..n-1 : Old(j) = k
        BY <1>5, <2>2, <3>1
      <3> QED
        BY <1>1, <1>2, <3>1, <3>2 DEF Queued
    <2> QED
      BY <2>1, <2>2
  <1>8. \A u \in Task : Queued(u)' <=> task'[u].pc \in {"token", "reauth", "jwt", "login"}
    BY <1>7 DEF QueueOK, Goes
  <1>9. \A j \in DOMAIN queue' : j # 1 => Waits(queue[j])'
    <2> TAKE j \in DOMAIN queue'
    <2> HAVE j # 1
    <2>1. queue'[j] = queue[Old(j)] /\ Old(j) \in 1..n /\ Old(j) # 1 /\ Old(j) # i
      BY <1>1, <1>2, <1>4
    <2>2. queue'[j] # t /\ queue'[j] \in Task /\ Waits(queue'[j])
      BY <2>1, QueueFacts DEF QueueOK
    <2> QED
      BY <2>2 DEF Goes, Waits
  <1> QED
    BY <1>6, <1>8, <1>9 DEF QueueOK

\* The head goes on under the lock.
LEMMA HeadGoesOn ==
  ASSUME QueueOK, NEW t \in Task, queue # <<>>, Head(queue) = t, UNCHANGED queue,
         NEW pc \in {"jwt", "login"}, Goes(t, pc)
  PROVE  QueueOK'
  <1>1. 1 \in DOMAIN queue /\ queue[1] = t
    BY QueueFacts
  <1>2. Queued(t) /\ \A u \in Task : Queued(u)' <=> Queued(u)
    BY <1>1 DEF Queued
  <1>3. \A i \in DOMAIN queue : i # 1 => queue[i] # t /\ queue[i] \in Task
    BY <1>1, QueueFacts
  <1>4. \A i \in DOMAIN queue' : i # 1 => Waits(queue[i])'
    BY <1>3 DEF QueueOK, Goes, Waits
  <1>5. \A u \in Task : Queued(u)' <=> task'[u].pc \in {"token", "reauth", "jwt", "login"}
    BY <1>2 DEF QueueOK, Goes
  <1> QED
    BY <1>4, <1>5 DEF QueueOK, IsInjective

\* What goes on outside the lock.
LEMMA NobodyMoves ==
  ASSUME QueueOK, UNCHANGED queue, NEW t \in Task, task[t].pc \in {"idle", "call"},
         NEW pc \in {"idle", "call"}, Goes(t, pc)
  PROVE  QueueOK'
  <1>1. \A u \in Task : Queued(u)' <=> Queued(u)
    BY DEF Queued
  <1>2. \A u \in Task : Queued(u)' <=> task'[u].pc \in {"token", "reauth", "jwt", "login"}
    BY <1>1 DEF QueueOK, Goes
  <1>3. \A i \in DOMAIN queue : queue[i] \in Task /\ Queued(queue[i])
    BY QueueFacts DEF Queued
  <1>4. \A i \in DOMAIN queue : queue[i] # t
    BY <1>3 DEF QueueOK
  <1>5. \A i \in DOMAIN queue' : i # 1 => Waits(queue[i])'
    BY <1>3, <1>4 DEF QueueOK, Goes, Waits
  <1> QED
    BY <1>2, <1>5 DEF QueueOK, IsInjective

LEMMA CallingGoes ==
  ASSUME IInv, NEW t \in Task, NEW token, Calling(t, token)
  PROVE  Goes(t, "call")
  BY DEF Calling, IInv, Typed, TaskState, Goes

LEMMA EndedGoes ==
  ASSUME IInv, NEW t \in Task, Ended(t)
  PROVE  Goes(t, "idle")
  BY DEF Ended, NewTask, IInv, Typed, Goes

LEMMA QueueStep ==
  ASSUME IInv, QueueOK, NEW t \in Task, Start(t) \/ Step(t) \/ Answered(t) \/ Cancel(t)
  PROVE  QueueOK'
  <1>0. task \in [Task -> TaskState]
    BY DEF IInv, Typed
  <1>1. ASSUME Holds(t) PROVE queue # <<>> /\ Head(queue) = t
    BY <1>1 DEF Holds
  <1>2. ASSUME queue # <<>>, Head(queue) = t, queue' = Tail(queue),
               NEW pc \in {"idle", "call"}, Goes(t, pc)
        PROVE  QueueOK'
    <2>1. /\ Tail(queue) \in Seq(Task) /\ Removed(queue, Tail(queue), 1)
          /\ 1 \in 1..Len(queue) /\ queue[1] = t
      BY <1>2, QueueFacts, TailRemoves
    <2> QED
      BY <1>2, <2>1, Dequeues
  <1>3. CASE Start(t)
    <2>1. Goes(t, "token")
      BY <1>0, <1>3 DEF Start, TaskState, Goes
    <2> QED
      BY <1>3, <2>1, Enqueues DEF Start
  <1>4. CASE CacheHit(t)
    <2>1. Goes(t, "call")
      BY <1>4, CallingGoes DEF CacheHit
    <2> QED
      BY <1>1, <1>2, <1>4, <2>1 DEF CacheHit
  <1>5. CASE CacheMiss(t) \/ Reauthenticate(t)
    <2>1. Goes(t, "jwt")
      BY <1>0, <1>5 DEF CacheMiss, Reauthenticate, TaskState, Goes
    <2> QED
      BY <1>1, <1>5, <2>1, HeadGoesOn DEF CacheMiss, Reauthenticate
  <1>6. CASE Retry(t)
    <2>1. Goes(t, "reauth")
      BY <1>0, <1>6 DEF Retry, TaskState, Goes
    <2> QED
      BY <1>6, <2>1, Enqueues DEF Retry
  <1>7. CASE Return(t)
    <2>1. Goes(t, "idle")
      BY <1>7, EndedGoes DEF Return
    <2> QED
      BY <1>7, <2>1, NobodyMoves DEF Return
  <1>8. CASE JwtReceived(t) \/ Issue(t)
    <2>1. Goes(t, "login")
      BY <1>0, <1>8 DEF JwtReceived, Issue, TaskState, Goes
    <2>2. queue # <<>> /\ Head(queue) = t
      BY <1>8, HeadLogsIn DEF JwtReceived, Issue
    <2> QED
      BY <1>8, <2>1, <2>2, HeadGoesOn DEF JwtReceived, Issue
  <1>9. CASE LoggedIn(t) \/ LoginFails(t)
    <2>1. Goes(t, "call") \/ Goes(t, "idle")
      BY <1>9, CallingGoes, EndedGoes DEF LoggedIn, LoginFails
    <2>2. queue # <<>> /\ Head(queue) = t /\ queue' = Tail(queue)
      BY <1>9, HeadLogsIn DEF LoggedIn, LoginFails
    <2> QED
      BY <1>2, <2>1, <2>2
  <1>10. CASE Carried(t) \/ Refused(t) \/ NotCarried(t)
    <2>1. Goes(t, "call")
      BY <1>0, <1>10 DEF Carried, Refused, NotCarried, TaskState, Goes
    <2> QED
      BY <1>10, <2>1, NobodyMoves DEF Carried, Refused, NotCarried
  <1>11. CASE Cancel(t)
    <2>1. Goes(t, "idle")
      BY <1>11, EndedGoes DEF Cancel, Ended
    <2>2. CASE \E i \in DOMAIN queue : queue[i] = t /\ queue' = RemoveAt(queue, i)
      <3>1. PICK i \in 1..Len(queue) : queue[i] = t /\ queue' = RemoveAt(queue, i)
        BY <2>2, QueueFacts
      <3>2. queue' \in Seq(Task) /\ Removed(queue, queue', i)
        BY <3>1, QueueFacts, RemoveAtRemoves
      <3> QED
        BY <2>1, <3>1, <3>2, Dequeues
    <2>3. CASE ~Queued(t) /\ UNCHANGED queue
      <3>1. task[t].pc \in {"idle", "call"}
        BY <1>0, <2>3 DEF QueueOK, TaskState
      <3> QED
        BY <2>1, <2>3, <3>1, NobodyMoves
    <2> QED
      BY <1>11, <2>2, <2>3 DEF Cancel
  <1> QED
    BY <1>3, <1>4, <1>5, <1>6, <1>7, <1>8, <1>9, <1>10, <1>11 DEF Step, Answered

\* Who waits for the lock, and who has it, at every moment.
THEOREM QueueInductive == Spec => [](IInv /\ QueueOK)
  <1>1. Init => QueueOK
    BY DEF Init, QueueOK, IsInjective, Queued, NewTask
  <1>2. IInv /\ QueueOK /\ [Next]_vars => QueueOK'
    <2> SUFFICES ASSUME IInv, QueueOK, [Next]_vars PROVE QueueOK'
      OBVIOUS
    <2>1. CASE Tick \/ UNCHANGED vars
      BY <2>1 DEF Tick, vars, QueueOK, Queued, Waits, IsInjective
    <2> QED
      BY <2>1, QueueStep DEF Next
  <1> QED
    BY <1>1, <1>2, InductiveInvariant, PTL DEF Spec

\* For any number of tasks, none waits for the lock twice.
THEOREM WellTyped == Spec => []TypeOK
  <1>1. IInv /\ QueueOK => TypeOK
    BY DEF IInv, QueueOK, TypeOK
  <1> QED
    BY <1>1, QueueInductive, PTL

\* One task at a time is in the login: no two race for what is cached, nor ask
\* for a token each where one would do.
OneLogin ==
  \A t, u \in Task : task[t].pc \in {"jwt", "login"} /\ task[u].pc \in {"jwt", "login"} => t = u

\* The login runs under the lock, whatever tasks are dropped in its course.
THEOREM LoginsExclude == Spec => []OneLogin
  <1>1. QueueOK => OneLogin
    BY HeadLogsIn DEF OneLogin
  <1> QED
    BY <1>1, QueueInductive, PTL
=============================================================================
