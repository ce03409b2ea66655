---------------------------- MODULE SecretClient ----------------------------
(* The OpenBao client of common-secrets (client.rs): the cached vault token  *)
(* behind a mutex, the two-stage login that fills it, and `with_reauth`, the *)
(* wrapper every read, write and delete runs through.                        *)
(*                                                                           *)
(* A task is one call of fetch, read_doc, write_doc or delete_doc. tokio's   *)
(* Mutex is fair: `queue` holds its waiters in order and the head holds the  *)
(* lock, across the awaits of the login too. The vault decides a request in  *)
(* one step and the task sees the answer in a later one; a caller may drop   *)
(* the task at any await.                                                    *)
EXTENDS Integers, Sequences, SequencesExt

CONSTANTS Task,
          Id,         \* vault token values; enough that a new one is always free
          Leases,     \* the lease_duration a login may return; 0 is its default
          LeaseSkew,  \* client.rs LEASE_SKEW
          MaxDelay,   \* bound: a login's reply or a kv request takes this long at most
          MaxClock,   \* bound: the instants of the model
          None

Time == 0..MaxClock

ASSUME ClientAssumption ==
  /\ None \notin Id
  /\ Leases \subseteq Nat /\ LeaseSkew \in Nat /\ MaxDelay \in Nat /\ MaxClock \in Nat
  \* The skew covers the reply of a login and the request that follows it.
  /\ 2 * MaxDelay <= LeaseSkew

VARIABLES cache,   \* the cached token and the instant it counts as spent
          queue,   \* the mutex
          task,
          clock

vars == <<cache, queue, task, clock>>

\* A vault token, with what only the vault knows for sure: when its lease ends.
Token == [id : Id, lease : Leases, ends : Nat]

\* pc: waits for the lock to look at the cache, or to replace a rejected token;
\* awaits authentik's JWT, then the vault's login (`issued` is its reply); awaits
\* a kv request. `rejected` is history, the token of a rejected first attempt;
\* so is `applied`, the times the vault has carried the operation out.
TaskState ==
  [pc : {"idle", "token", "reauth", "jwt", "login", "call"},
   attempt : 1..2,
   token : Token \cup {None},
   rejected : Id \cup {None},
   issued : Token \cup {None},
   sent : Time,
   answer : {"none", "ok", "rejected", "failed"},
   applied : 0..2]

NewTask ==
  [pc |-> "idle", attempt |-> 1, token |-> None, rejected |-> None, issued |-> None,
   sent |-> 0, answer |-> "none", applied |-> 0]

Typed ==
  /\ cache \in [value : Token, expiresAt : Nat] \cup {None}
  /\ task \in [Task -> TaskState]
  /\ clock \in Time

TypeOK == Typed /\ queue \in Seq(Task) /\ IsInjective(queue)

Init ==
  /\ cache = None
  /\ queue = <<>>
  /\ task = [t \in Task |-> NewTask]
  /\ clock = 0

-----------------------------------------------------------------------------

Holds(t) == queue # <<>> /\ Head(queue) = t

Waits(t) == task[t].pc \in {"token", "reauth"}

Queued(t) == \E i \in DOMAIN queue : queue[i] = t

\* with_reauth begins: cached_token asks for the lock.
Start(t) ==
  /\ task[t].pc = "idle"
  /\ task' = [task EXCEPT ![t].pc = "token"]
  /\ queue' = Append(queue, t)
  /\ UNCHANGED <<cache, clock>>

\* The token is handed out and the lock released: the request is sent.
Calling(t, token) ==
  task' = [task EXCEPT ![t].pc = "call", ![t].token = token, ![t].issued = None,
                       ![t].sent = clock, ![t].answer = "none"]

\* Mutant: the cached token is used whatever its age.
UsableAlways == cache # None

\* cached_token: an entry whose expires_at is not reached.
Usable == cache # None /\ cache.expiresAt > clock

CacheHit(t) ==
  /\ Holds(t) /\ task[t].pc = "token" /\ Usable
  /\ Calling(t, cache.value)
  /\ queue' = Tail(queue)
  /\ UNCHANGED <<cache, clock>>

CacheMiss(t) ==
  /\ Holds(t) /\ task[t].pc = "token" /\ ~Usable
  /\ task' = [task EXCEPT ![t].pc = "jwt"]
  /\ UNCHANGED <<cache, queue, clock>>

\* Mutant: a token another task just cached is good enough.
ReauthenticateUnlessCached(t) ==
  /\ Holds(t) /\ task[t].pc = "reauth"
  /\ IF Usable THEN Calling(t, cache.value) /\ queue' = Tail(queue)
               ELSE task' = [task EXCEPT ![t].pc = "jwt"] /\ UNCHANGED queue
  /\ UNCHANGED <<cache, clock>>

\* reauthenticate: whatever is cached is dropped before the login.
Reauthenticate(t) ==
  /\ Holds(t) /\ task[t].pc = "reauth"
  /\ cache' = None
  /\ task' = [task EXCEPT ![t].pc = "jwt"]
  /\ UNCHANGED <<queue, clock>>

-----------------------------------------------------------------------------
(* login: authentik_token, then vault_login, under the lock.                 *)

JwtReceived(t) ==
  /\ task[t].pc = "jwt"
  /\ task' = [task EXCEPT ![t].pc = "login"]
  /\ UNCHANGED <<cache, queue, clock>>

\* Nobody has the token value.
Unused(k) ==
  /\ cache # None => cache.value.id # k
  /\ \A t \in Task :
       /\ task[t].rejected # k
       /\ \A token \in {task[t].token, task[t].issued} \ {None} : token.id # k

\* The vault accepts the JWT and issues a token; its lease runs from here.
Issue(t) ==
  /\ task[t].pc = "login" /\ task[t].issued = None
  /\ \E k \in Id : Unused(k)
  /\ \E lease \in Leases :
       task' = [task EXCEPT ![t].issued = [id |-> CHOOSE k \in Id : Unused(k),
                                           lease |-> lease, ends |-> clock + lease],
                            ![t].sent = clock]
  /\ UNCHANGED <<cache, queue, clock>>

\* Mutant: the lease is used to its end.
TimeToLiveWhole(lease) == lease

\* Mutant: a plain subtraction.
TimeToLiveUnsaturated(lease) == lease - LeaseSkew

\* saturating_sub
TimeToLive(lease) == IF lease > LeaseSkew THEN lease - LeaseSkew ELSE 0

\* The reply arrives: the token is cached, counted from now, and used.
LoggedIn(t) ==
  /\ task[t].pc = "login" /\ task[t].issued # None
  /\ cache' = [value |-> task[t].issued,
               expiresAt |-> clock + TimeToLive(task[t].issued.lease)]
  /\ Calling(t, task[t].issued)
  /\ queue' = Tail(queue)
  /\ UNCHANGED clock

\* The operation ends with an error or a result.
Ended(t) == task' = [task EXCEPT ![t] = NewTask]

\* authentik or the vault rejects the login, fails, or its reply is lost. The
\* cache stays as it is: empty after a rejection, with a spent token otherwise.
LoginFails(t) ==
  /\ task[t].pc \in {"jwt", "login"}
  /\ Ended(t)
  /\ queue' = Tail(queue)
  /\ UNCHANGED <<cache, clock>>

-----------------------------------------------------------------------------
(* The kv request: get, put or remove.                                       *)

Accepts(token) == clock < token.ends

\* The vault carries the operation out; then its answer is a success, or it is
\* lost or no use, a 5xx or a payload that does not parse.
Carried(t) ==
  /\ task[t].pc = "call" /\ task[t].answer = "none"
  /\ Accepts(task[t].token)
  /\ \E answer \in {"ok", "failed"} :
       task' = [task EXCEPT ![t].answer = answer, ![t].sent = 0, ![t].applied = @ + 1]
  /\ UNCHANGED <<cache, queue, clock>>

\* It refuses the token, expired or revoked, or the path for this role (403),
\* or answers 400.
Refused(t) ==
  /\ task[t].pc = "call" /\ task[t].answer = "none"
  /\ task' = [task EXCEPT ![t].answer = "rejected", ![t].sent = 0]
  /\ UNCHANGED <<cache, queue, clock>>

\* The request never gets there, or is answered 404 or 5xx without effect.
NotCarried(t) ==
  /\ task[t].pc = "call" /\ task[t].answer = "none"
  /\ task' = [task EXCEPT ![t].answer = "failed", ![t].sent = 0]
  /\ UNCHANGED <<cache, queue, clock>>

\* Mutant: any failure of the first attempt is tried again.
RetriesAnyFailure(t) == task[t].answer # "ok" /\ task[t].attempt = 1

\* Mutant: a rejected retry is retried.
RetriesForever(t) == task[t].answer = "rejected"

\* with_reauth: only a rejection of the first attempt leads to a second.
Retries(t) == task[t].answer = "rejected" /\ task[t].attempt = 1

Retry(t) ==
  /\ task[t].pc = "call" /\ task[t].answer # "none" /\ Retries(t)
  /\ task' = [task EXCEPT ![t].pc = "reauth", ![t].attempt = 2, ![t].answer = "none",
                          ![t].rejected = task[t].token.id, ![t].token = None]
  /\ queue' = Append(queue, t)
  /\ UNCHANGED <<cache, clock>>

Return(t) ==
  /\ task[t].pc = "call" /\ task[t].answer # "none" /\ ~Retries(t)
  /\ Ended(t)
  /\ UNCHANGED <<cache, queue, clock>>

\* The caller drops the future: its place in the queue or its lock goes with it.
Cancel(t) ==
  /\ task[t].pc # "idle"
  /\ task' = [task EXCEPT ![t] = NewTask]
  /\ \/ \E i \in DOMAIN queue : queue[i] = t /\ queue' = RemoveAt(queue, i)
     \/ ~Queued(t) /\ UNCHANGED queue
  /\ UNCHANGED <<cache, clock>>

-----------------------------------------------------------------------------
(* The environment.                                                          *)

\* A login's reply and a kv request are delivered within MaxDelay.
InFlight(t) ==
  \/ task[t].pc = "login" /\ task[t].issued # None
  \/ task[t].pc = "call" /\ task[t].answer = "none"

Tick ==
  /\ clock < MaxClock
  /\ \A t \in Task : InFlight(t) => clock < task[t].sent + MaxDelay
  /\ clock' = clock + 1
  /\ UNCHANGED <<cache, queue, task>>

Step(t) ==
  \/ CacheHit(t) \/ CacheMiss(t) \/ Reauthenticate(t) \/ Retry(t) \/ Return(t)

Answered(t) ==
  \/ JwtReceived(t) \/ Issue(t) \/ LoggedIn(t) \/ LoginFails(t)
  \/ Carried(t) \/ Refused(t) \/ NotCarried(t)

Next ==
  \/ \E t \in Task : Start(t) \/ Step(t) \/ Answered(t) \/ Cancel(t)
  \/ Tick

Spec == Init /\ [][Next]_vars

\* Tasks are polled, and authentik and the vault answer: the client has no
\* timeout of its own, so nothing ends without that.
FairSpec == Spec /\ \A t \in Task : WF_vars(Step(t) \/ Answered(t))

-----------------------------------------------------------------------------

\* "So a read never races the expiry it was authorised under" (client.rs): as
\* long as the skew covers the delays, a request in flight has a token whose
\* lease has not ended, unless the lease itself is no longer than the skew.
NeverRacesExpiry ==
  \A t \in Task :
    task[t].pc = "call" /\ task[t].answer = "none" /\ task[t].token.lease > LeaseSkew =>
      clock < task[t].token.ends

\* An operation is carried out at most once: a second attempt is made only when
\* the vault refused the first, never when an answer was lost.
AppliedAtMostOnce == \A t \in Task : task[t].applied <= 1

\* The second attempt never presents the token that was rejected, whatever
\* other tasks cached or dropped in the meantime.
RetryHasAnotherToken ==
  \A t \in Task : task[t].pc = "call" /\ task[t].attempt = 2 => task[t].token.id # task[t].rejected

\* Every operation ends when the servers answer, even if they reject everything
\* they are asked; and the lock is always released.
OperationsEnd == \A t \in Task : Waits(t) ~> task[t].pc = "idle"

-----------------------------------------------------------------------------
(* The inductive invariant behind the safety properties. The queue is not in *)
(* it: they do not depend on the order in which tasks get the lock.          *)

\* A cached token counts as spent early enough that a request sent before then
\* is delivered within the lease. A lease no longer than the skew is never used
\* from the cache.
CacheOK ==
  cache # None /\ cache.value.lease > LeaseSkew =>
    cache.expiresAt + LeaseSkew <= cache.value.ends + MaxDelay

\* Only a first attempt looks at the cache; what is carried out is answered by
\* the vault once; a token just issued is not the rejected one and is delivered
\* in time, and so is a request.
TaskOK(u) ==
  /\ u.pc \in {"idle", "token"} => u.attempt = 1
  /\ u.applied > 0 => u.applied = 1 /\ u.pc = "call" /\ u.answer \in {"ok", "failed"}
  /\ u.issued # None =>
       /\ u.pc = "login" /\ u.issued.id # u.rejected
       /\ u.issued.ends = u.sent + u.issued.lease
       /\ u.sent <= clock /\ clock <= u.sent + MaxDelay
  /\ u.pc = "call" =>
       /\ u.token \in Token
       /\ u.attempt = 2 => u.token.id # u.rejected
  /\ u.pc = "call" /\ u.answer = "none" =>
       /\ u.sent <= clock /\ clock <= u.sent + MaxDelay
       /\ u.token.lease > LeaseSkew => u.sent + MaxDelay < u.token.ends

IInv ==
  /\ Typed
  /\ CacheOK
  /\ \A t \in Task : TaskOK(task[t])
=============================================================================
