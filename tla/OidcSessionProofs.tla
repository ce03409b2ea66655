------------------------- MODULE OidcSessionProofs -------------------------
(* Safety of the session life cycle for any number of requests and sessions, *)
(* any lifetime, retry count and token history.                              *)
EXTENDS OidcSession, ExpiringStore, TLAPS

-----------------------------------------------------------------------------
(* The store that sessions and flows are kept in: it implements the registry *)
(* for every set of callers, ids and values, every max_age and every way the *)
(* clock moves.                                                              *)

\* What the store does to one key: the lookup is the entry or None, a sweep
\* replaces every key by its lookup, and an insert overrides one key of it.
LEMMA LookupCases ==
  ASSUME NEW m, NEW i, NEW now
  PROVE  /\ Lookup(m, i, now) \in {m[i], None}
         /\ Lookup(m, i, now) # None => Lookup(m, i, now) = m[i] /\ Live(m[i], now)
         /\ Lookup(m, i, now) = None => m[i] = None \/ ~Live(m[i], now)
  BY DEF Lookup

LEMMA InsertedAt ==
  ASSUME NEW m, NEW j, NEW e, NEW now
  PROVE  Inserted(m, j, e, now)
           = [i \in DOMAIN m |-> IF i = j THEN e ELSE Lookup(m, i, now)]
  BY DEF Inserted, Swept

\* The store's notion of a live entry is the registry's of one not aged out.
LEMMA LiveIffNotAgedOut ==
  ASSUME NEW e \in Entry, NEW now \in 0..MaxWall
  PROVE  Live(e, now) <=> ~Abstract!AgedOut(e, now)
  BY StoreAssumption DEF Live, Abstract!AgedOut, Entry

LEMMA NoneIsNoEntry == None \notin Entry
  BY StoreAssumption DEF Entry

LEMMA StoreStarts == StoreInit => StoreInv
  BY StoreAssumption DEF StoreInit, StoreInv, StoreTypeOK, ReadingsBelowHighest, MapMatchesHistory

\* Type correctness, step by step.
LEMMA StoreTypeStep == StoreTypeOK /\ [StoreNext]_storeVars => StoreTypeOK'
  <1> SUFFICES ASSUME StoreTypeOK, [StoreNext]_storeVars PROVE StoreTypeOK'
    OBVIOUS
  <1> USE DEF StoreTypeOK
  <1>1. ASSUME NEW c \in Client, NEW i \in Id, NEW e \in Entry, PutReadsClock(c, i, e)
        PROVE  StoreTypeOK'
    BY <1>1 DEF PutReadsClock, PendingPut
  <1>2. ASSUME NEW c \in Client, PutLocked(c) PROVE StoreTypeOK'
    <2>1. PICK p \in pending[c] :
            /\ entries' = Inserted(entries, p.id, p.entry, p.now)
            /\ written' = [written EXCEPT ![p.id] = p.entry]
      BY <1>2 DEF PutLocked
    <2>2. p.id \in Id /\ p.entry \in Entry
      BY DEF PendingPut
    <2>3. entries' \in [Id -> Entry \cup {None}]
      <3>1. entries' = [i \in Id |-> IF i = p.id THEN p.entry ELSE Lookup(entries, i, p.now)]
        BY <2>1, InsertedAt
      <3> QED
        BY <2>2, <3>1, LookupCases
    <2>4. QED
      BY <1>2, <2>1, <2>2, <2>3 DEF PutLocked
  <1>3. ASSUME NEW c \in Client, NEW i \in Id, Get(c, i) PROVE StoreTypeOK'
    BY <1>3, LookupCases DEF Get
  <1>4. ASSUME NEW c \in Client, NEW i \in Id, Remove(c, i) PROVE StoreTypeOK'
    BY <1>4 DEF Remove, Removed
  <1>5. ASSUME NEW t \in 0..MaxWall, SetClock(t) PROVE StoreTypeOK'
    BY <1>5 DEF SetClock
  <1>6. CASE UNCHANGED storeVars
    BY <1>6 DEF storeVars
  <1>7. QED
    BY <1>1, <1>2, <1>3, <1>4, <1>5, <1>6 DEF StoreNext

\* The one step with content is PutLocked: a sweep by an old clock reading
\* drops only entries that the highest reading calls aged out too.
LEMMA StoreStep == StoreInv /\ [StoreNext]_storeVars => StoreInv'
  <1> SUFFICES ASSUME StoreInv, [StoreNext]_storeVars PROVE StoreInv'
    OBVIOUS
  <1> USE DEF StoreInv
  <1>0. StoreTypeOK'
    BY StoreTypeStep
  <1>1. ASSUME NEW c \in Client, NEW i \in Id, NEW e \in Entry, PutReadsClock(c, i, e)
        PROVE  StoreInv'
    BY <1>0, <1>1 DEF PutReadsClock, StoreTypeOK, PendingPut, ReadingsBelowHighest,
                      MapMatchesHistory
  <1>2. ASSUME NEW c \in Client, PutLocked(c) PROVE StoreInv'
    <2>1. PICK p \in pending[c] :
            /\ entries' = Inserted(entries, p.id, p.entry, p.now)
            /\ written' = [written EXCEPT ![p.id] = p.entry]
      BY <1>2 DEF PutLocked
    <2>2. p.id \in Id /\ p.entry \in Entry /\ p.now \in 0..MaxWall /\ p.now <= highest
      BY DEF StoreTypeOK, PendingPut, ReadingsBelowHighest
    <2>3. ASSUME NEW i \in Id
          PROVE  entries'[i] = IF i = p.id THEN p.entry ELSE Lookup(entries, i, p.now)
      BY <2>1, <2>2, InsertedAt DEF StoreTypeOK
    <2>4. ReadingsBelowHighest'
      BY <1>2 DEF PutLocked, ReadingsBelowHighest, StoreTypeOK
    <2>5. ASSUME NEW i \in Id
          PROVE  /\ entries'[i] # None => entries'[i] = written'[i]
                 /\ entries'[i] = None /\ written'[i] # None =>
                      /\ highest' >= written'[i].created
                      /\ highest' - written'[i].created >= MaxAge
      <3>1. CASE i = p.id
        BY <2>1, <2>2, <2>3, <3>1, NoneIsNoEntry DEF StoreTypeOK
      <3>2. CASE i # p.id
        <4>1. written'[i] = written[i] /\ highest' = highest
          BY <1>2, <2>1, <2>2, <3>2 DEF PutLocked, StoreTypeOK
        <4>2. entries'[i] = Lookup(entries, i, p.now)
          BY <2>3, <3>2
        <4>3. CASE entries'[i] # None
          BY <4>1, <4>2, <4>3, LookupCases DEF MapMatchesHistory
        <4>4. CASE entries'[i] = None
          <5>1. CASE entries[i] = None
            BY <4>1, <4>4, <5>1 DEF MapMatchesHistory
          <5>2. CASE entries[i] # None
            <6>1. entries[i] \in Entry /\ written[i] = entries[i]
              BY <5>2 DEF StoreTypeOK, MapMatchesHistory
            <6>2. ~Live(entries[i], p.now)
              BY <4>2, <4>4, <5>2, LookupCases
            <6>3. QED
              BY <2>2, <4>1, <4>4, <6>1, <6>2, StoreAssumption DEF Live, Entry, StoreTypeOK
          <5>3. QED
            BY <5>1, <5>2
        <4>5. QED
          BY <4>3, <4>4
      <3>3. QED
        BY <3>1, <3>2
    <2>6. QED
      BY <1>0, <2>4, <2>5 DEF MapMatchesHistory
  <1>3. ASSUME NEW c \in Client, NEW i \in Id, Get(c, i) PROVE StoreInv'
    BY <1>0, <1>3 DEF Get, ReadingsBelowHighest, MapMatchesHistory
  <1>4. ASSUME NEW c \in Client, NEW i \in Id, Remove(c, i) PROVE StoreInv'
    BY <1>0, <1>4 DEF Remove, Removed, ReadingsBelowHighest, MapMatchesHistory, StoreTypeOK
  <1>5. ASSUME NEW t \in 0..MaxWall, SetClock(t) PROVE StoreInv'
    <2>1. highest' >= highest /\ wall' <= highest'
      BY <1>5 DEF SetClock, StoreTypeOK
    <2>2. ReadingsBelowHighest'
      BY <1>0, <1>5, <2>1 DEF SetClock, ReadingsBelowHighest, StoreTypeOK, PendingPut
    <2>3. ASSUME NEW i \in Id, entries[i] = None, written[i] # None
          PROVE  /\ highest' >= written[i].created
                 /\ highest' - written[i].created >= MaxAge
      BY <1>0, <2>1, <2>3, StoreAssumption DEF MapMatchesHistory, StoreTypeOK, Entry
    <2>4. QED
      BY <1>0, <1>5, <2>2, <2>3 DEF SetClock, MapMatchesHistory
  <1>6. CASE UNCHANGED storeVars
    BY <1>0, <1>6 DEF storeVars, ReadingsBelowHighest, MapMatchesHistory
  <1>7. QED
    BY <1>1, <1>2, <1>3, <1>4, <1>5, <1>6 DEF StoreNext

\* The variables of store.rs keep their types.
THEOREM StoreTyped == StoreSpec => []StoreTypeOK
  BY StoreStarts, StoreTypeStep, PTL DEF StoreSpec, StoreInv

THEOREM StoreInductive == StoreSpec => []StoreInv
  BY StoreStarts, StoreStep, PTL DEF StoreSpec

\* The map and the history agree, whatever sweeps and clock steps happened:
\* a put never drops another caller's young entry.
THEOREM MapCorrect == StoreSpec => []MapMatchesHistory
  BY StoreInductive, PTL DEF StoreInv

\* What a get returns is what the registry allows it to return.
LEMMA GetMayRead ==
  ASSUME StoreInv, NEW i \in Id
  PROVE  /\ Lookup(entries, i, wall) \in {written[i], None}
         /\ Abstract!MayRead(i, Lookup(entries, i, wall))
  <1> DEFINE v == Lookup(entries, i, wall)
  <1> USE DEF StoreInv
  <1>1. CASE v # None
    <2>1. v = entries[i] /\ Live(v, wall) /\ entries[i] = written[i]
      BY <1>1, LookupCases DEF MapMatchesHistory
    <2>2. v \in Entry
      BY <1>1, <2>1 DEF StoreTypeOK
    <2>3. QED
      BY <1>1, <2>1, <2>2, LiveIffNotAgedOut DEF Abstract!MayRead, StoreTypeOK
  <1>2. CASE v = None
    <2>1. CASE written[i] = None
      BY <1>2, <2>1 DEF Abstract!MayRead
    <2>2. CASE written[i] # None
      <3>1. written[i] \in Entry
        BY <2>2 DEF StoreTypeOK
      <3>2. Abstract!AgedOut(written[i], highest)
        <4>1. CASE entries[i] = None
          BY <2>2, <4>1 DEF MapMatchesHistory, Abstract!AgedOut
        <4>2. CASE entries[i] # None
          <5>1. entries[i] = written[i] /\ ~Live(entries[i], wall)
            BY <1>2, <4>2, LookupCases DEF MapMatchesHistory
          <5>2. QED
            BY <3>1, <5>1, StoreAssumption
               DEF Live, Abstract!AgedOut, Entry, StoreTypeOK, ReadingsBelowHighest
        <4>3. QED
          BY <4>1, <4>2
      <3>3. QED
        BY <1>2, <3>2 DEF Abstract!MayRead
    <2>3. QED
      BY <2>1, <2>2
  <1>3. QED
    BY <1>1, <1>2

\* Every step of the store is a step of the registry or leaves it alone: a put
\* takes effect when it holds the lock, and its sweep is invisible.
LEMMA RefinementStep == StoreInv /\ [StoreNext]_storeVars => [Abstract!Next]_(Abstract!vars)
  <1> SUFFICES ASSUME StoreInv, [StoreNext]_storeVars PROVE [Abstract!Next]_(Abstract!vars)
    OBVIOUS
  <1> USE DEF Abstract!vars
  <1>1. ASSUME NEW c \in Client, NEW i \in Id, NEW e \in Entry, PutReadsClock(c, i, e)
        PROVE  UNCHANGED Abstract!vars
    BY <1>1 DEF PutReadsClock
  <1>2. ASSUME NEW c \in Client, PutLocked(c) PROVE Abstract!Next
    <2>1. PICK p \in pending[c] : written' = [written EXCEPT ![p.id] = p.entry]
      BY <1>2 DEF PutLocked
    <2>2. p.id \in Id /\ p.entry \in Abstract!Entry
      BY DEF StoreInv, StoreTypeOK, PendingPut, Entry, Abstract!Entry
    <2>3. Abstract!Put(p.id, p.entry)
      BY <1>2, <2>1 DEF PutLocked, Abstract!Put
    <2>4. QED
      BY <2>2, <2>3 DEF Abstract!Next
  <1>3. ASSUME NEW c \in Client, NEW i \in Id, Get(c, i) PROVE Abstract!Next
    <2>1. Abstract!Get(c, i)
      BY <1>3, GetMayRead DEF Get, Abstract!Get
    <2>2. QED
      BY <2>1 DEF Abstract!Next
  <1>4. ASSUME NEW c \in Client, NEW i \in Id, Remove(c, i) PROVE Abstract!Next
    <2>1. Abstract!Remove(i)
      BY <1>4 DEF Remove, Abstract!Remove
    <2>2. QED
      BY <2>1 DEF Abstract!Next
  <1>5. ASSUME NEW t \in 0..MaxWall, SetClock(t) PROVE Abstract!Next
    <2>1. Abstract!SetClock(t)
      BY <1>5 DEF SetClock, Abstract!SetClock
    <2>2. QED
      BY <2>1 DEF Abstract!Next
  <1>6. CASE UNCHANGED storeVars
    BY <1>6 DEF storeVars
  <1>7. QED
    BY <1>1, <1>2, <1>3, <1>4, <1>5, <1>6 DEF StoreNext

\* The expiring store implements the registry.
THEOREM Implements == StoreSpec => ImplementsRegistry
  <1>1. StoreInit => Abstract!Init
    BY DEF StoreInit, Abstract!Init
  <1>2. QED
    BY <1>1, StoreInductive, RefinementStep, PTL
       DEF StoreSpec, ImplementsRegistry, Abstract!Spec

-----------------------------------------------------------------------------
(* The life of a session, in such a store.                                   *)

\* An insert sets its own key and leaves every other one as it is or absent.
LEMMA StoredAt ==
  ASSUME NEW m \in [Sid -> Session \cup {None}], NEW j \in Sid, NEW e \in Session, NEW now
  PROVE  /\ Inserted(m, j, e, now) \in [Sid -> Session \cup {None}]
         /\ Inserted(m, j, e, now)[j] = e
         /\ \A i \in Sid : i # j => Inserted(m, j, e, now)[i] \in {m[i], None}
  <1>1. Inserted(m, j, e, now) = [i \in Sid |-> IF i = j THEN e ELSE Lookup(m, i, now)]
    BY InsertedAt
  <1> QED
    BY <1>1, LookupCases

LEMMA RemovedAt ==
  ASSUME NEW m \in [Sid -> Session \cup {None}], NEW j \in Sid
  PROVE  /\ Removed(m, j) \in [Sid -> Session \cup {None}]
         /\ Removed(m, j)[j] = None
         /\ \A i \in Sid : i # j => Removed(m, j)[i] = m[i]
  BY DEF Removed

LEMMA NoneIsNobody == None \notin Sid /\ None \notin Session /\ None \notin TokenBundle /\ None \notin Gen
  BY SessionAssumption DEF Session, TokenBundle

LEMMA IdleIsATask == Idle \in Task /\ RequestOK(Idle)
  BY SessionAssumption DEF Idle, Task, Time, RequestOK, InProgress

LEMMA InitInv == Init => IInv
  <1> SUFFICES ASSUME Init PROVE IInv
    OBVIOUS
  <1>1. Unissued \in Grant /\ 0 \in Time
    BY SessionAssumption DEF Unissued, Grant, Time
  <1>2. TypeOK
    BY <1>1, IdleIsATask DEF Init, TypeOK
  <1>3. \A s \in Sid : SessionOK(s)
    BY DEF Init, SessionOK, Unissued
  <1>4. QED
    BY <1>2, <1>3, IdleIsATask DEF Init, IInv

-----------------------------------------------------------------------------
(* Frames: what a request needs to know of the rest of the state survives    *)
(* every step, and a step moves at most one request.                         *)

\* Issued ids stay issued, revocations stay, the kind and the instant of a
\* login do not change.
LoginsKept ==
  /\ idp' \in [Sid -> Grant]
  /\ loginAt' \in [Sid -> Time]
  /\ \A s \in Sid : idp[s].minted > 0 =>
       /\ idp'[s].minted > 0
       /\ idp[s].revoked => idp'[s].revoked
       /\ idp'[s].offline = idp[s].offline
       /\ loginAt'[s] = loginAt[s]

\* A request that did not move is as good as before.
LEMMA RequestKept ==
  ASSUME LoginsKept, NEW t, RequestOK(t),
         /\ idp' \in [Sid -> Grant] /\ loginAt' \in [Sid -> Time]
  PROVE  RequestOK(t)'
  <1>1. CASE InProgress(t) \/ t.outcome = "principal"
    <2>1. t.sid \in Sid /\ idp[t.sid].minted > 0
      BY <1>1 DEF RequestOK
    <2>2. /\ idp'[t.sid].minted > 0
          /\ idp[t.sid].revoked => idp'[t.sid].revoked
          /\ idp'[t.sid].offline = idp[t.sid].offline
          /\ loginAt'[t.sid] = loginAt[t.sid]
      BY <2>1 DEF LoginsKept
    <2>3. QED
      BY <2>1, <2>2 DEF RequestOK, InProgress
  <1>2. CASE ~(InProgress(t) \/ t.outcome = "principal")
    BY <1>2 DEF RequestOK, InProgress
  <1>3. QED
    BY <1>1, <1>2

\* Nothing of the logins changes.
LEMMA LoginsUnchanged == TypeOK /\ UNCHANGED <<idp, loginAt>> => LoginsKept
  BY DEF TypeOK, LoginsKept

\* One request moves to t; the sessions are known to be well formed after it.
LEMMA RequestMoves ==
  ASSUME IInv, LoginsKept, NEW r \in Request, NEW t, t \in Task, RequestOK(t)',
         req' = [req EXCEPT ![r] = t],
         sessions' \in [Sid -> Session \cup {None}], \A s \in Sid : SessionOK(s)',
         UNCHANGED <<clock, rotates, loggedOut>>, lostReply' \subseteq Sid
  PROVE  IInv'
  <1>1. TypeOK'
    BY DEF IInv, TypeOK, LoginsKept
  <1>2. \A q \in Request : RequestOK(req[q])'
    <2> TAKE q \in Request
    <2>1. CASE q = r
      <3>1. req'[q] = t
        BY <2>1 DEF IInv, TypeOK
      <3>2. QED
        BY <3>1 DEF RequestOK, InProgress
    <2>2. CASE q # r
      <3>1. req'[q] = req[q] /\ RequestOK(req[q])
        BY <2>2 DEF IInv, TypeOK
      <3>2. \A u : u = req[q] => RequestOK(u)'
        BY <3>1, RequestKept DEF LoginsKept
      <3>3. QED
        BY <3>1, <3>2 DEF RequestOK, InProgress
    <2>3. QED
      BY <2>1, <2>2
  <1>3. QED
    BY <1>1, <1>2 DEF IInv

\* The same when the sessions and the logins are left alone.
LEMMA RequestMovesAlone ==
  ASSUME IInv, NEW r \in Request, NEW t, t \in Task, RequestOK(t),
         req' = [req EXCEPT ![r] = t],
         UNCHANGED <<sessions, clock, idp, rotates, loginAt, loggedOut>>,
         lostReply' \subseteq Sid
  PROVE  IInv'
  <1>1. LoginsKept
    BY LoginsUnchanged DEF IInv
  <1>2. RequestOK(t)'
    BY <1>1, RequestKept DEF LoginsKept
  <1>3. \A s \in Sid : SessionOK(s)'
    BY DEF IInv, SessionOK
  <1>4. QED
    BY <1>1, <1>2, <1>3, RequestMoves DEF IInv, TypeOK

\* No request moves.
LEMMA RequestsStay ==
  ASSUME IInv, LoginsKept, UNCHANGED <<req, rotates>>,
         sessions' \in [Sid -> Session \cup {None}], \A s \in Sid : SessionOK(s)',
         clock' \in Time, loggedOut' \subseteq Sid, lostReply' \subseteq Sid
  PROVE  IInv'
  <1>1. TypeOK'
    BY DEF IInv, TypeOK, LoginsKept
  <1>2. \A q \in Request : RequestOK(req[q])'
    <2> TAKE q \in Request
    <2>1. RequestOK(req[q])
      BY DEF IInv
    <2>2. \A u : u = req[q] => RequestOK(u)'
      BY <2>1, RequestKept DEF LoginsKept
    <2>3. QED
      BY <2>2 DEF RequestOK, InProgress
  <1>3. QED
    BY <1>1, <1>2 DEF IInv

\* What a request in progress is known to hold.
LEMMA InProgressFacts ==
  ASSUME IInv, NEW r \in Request, Awaiting(r)
  PROVE  /\ req[r] \in Task /\ req[r].sid \in Sid /\ req[r].held \in Session
         /\ idp[req[r].sid] \in Grant /\ RequestOK(req[r]) /\ SessionOK(req[r].sid)
         /\ DOMAIN req = Request
  BY DEF IInv, TypeOK, Awaiting, RequestOK, Task

-----------------------------------------------------------------------------
(* The calls to the IdP.                                                     *)

LEMMA AnswerUserinfoStep ==
  ASSUME IInv, NEW r \in Request, AnswerUserinfo(r)
  PROVE  IInv'
  <1>1. Awaiting(r)
    BY DEF AnswerUserinfo, Awaiting, InProgress
  <1>2. req[r].begunRevoked => ~AccessLive(req[r])
    BY <1>1, InProgressFacts DEF RequestOK, Awaiting, SessionOK, AccessLive
  <1>3. PICK a \in {"ok", "rejected"} :
          /\ req' = [req EXCEPT ![r].answer = a]
          /\ a = "ok" => AccessLive(req[r])
    <2>1. CASE AccessLive(req[r])
      BY <2>1 DEF AnswerUserinfo
    <2>2. CASE ~AccessLive(req[r])
      BY <2>2 DEF AnswerUserinfo
    <2>3. QED
      BY <2>1, <2>2
  <1> DEFINE t == [req[r] EXCEPT !.answer = a]
  <1>4. t \in Task
    BY <1>1, InProgressFacts DEF Task
  <1>5. RequestOK(t)
    BY <1>1, <1>2, <1>3, InProgressFacts
       DEF RequestOK, Awaiting, InProgress, Task, AnswerUserinfo
  <1>6. req' = [req EXCEPT ![r] = t]
    BY <1>3
  <1> HIDE DEF t
  <1>7. QED
    BY <1>4, <1>5, <1>6, RequestMovesAlone DEF AnswerUserinfo, IInv, TypeOK

\* Minting changes one grant, never its revocation or its kind, and is
\* impossible for a revoked login.
LEMMA MintedGrant ==
  ASSUME IInv, NEW r \in Request, req[r].pc = "refresh", CanMint(req[r])
  PROVE  /\ Minted(req[r]) \in Grant
         /\ Minted(req[r]).minted > 0
         /\ Minted(req[r]).offline = idp[req[r].sid].offline
         /\ ~idp[req[r].sid].revoked /\ ~Minted(req[r]).revoked
         /\ Refreshed(req[r]) \in TokenBundle
  <1>1. Awaiting(r)
    BY DEF Awaiting, InProgress
  <1>2. req[r].sid \in Sid /\ idp[req[r].sid] \in Grant
    BY <1>1, InProgressFacts
  <1>3. idp[req[r].sid].minted + 1 \in Gen
    BY <1>2, SessionAssumption DEF CanMint, Grant, Gen
  <1>4. ~idp[req[r].sid].revoked
    BY <1>1, InProgressFacts DEF CanMint, RefreshLive, SessionOK
  <1>5. req[r].held.refresh \in Gen
    BY <1>2 DEF CanMint, RefreshLive, Grant
  <1> DEFINE g == idp[req[r].sid]
             n == g.minted + 1
             left == IF rotates THEN (g.refresh \ {req[r].held.refresh}) \cup {n} ELSE g.refresh
  <1>6. left \in SUBSET Gen
    BY <1>2, <1>3 DEF Grant
  <1>7. Minted(req[r]) = [minted |-> n, access |-> g.access \cup {n}, refresh |-> left,
                          offline |-> g.offline, revoked |-> g.revoked]
    <2>1. Minted(req[r]) = [g EXCEPT !.minted = n, !.access = g.access \cup {n}, !.refresh = left]
      BY Zenon DEF Minted
    <2>2. g \in Grant
      BY <1>2
    <2> HIDE DEF g, n, left
    <2>3. QED
      BY <2>1, <2>2 DEF Grant
  <1>8. Refreshed(req[r]) \in TokenBundle
    BY <1>3, <1>5 DEF Refreshed, TokenBundle
  <1> HIDE DEF left
  <1>9. n \in 0..MaxGen /\ n > 0 /\ g.access \cup {n} \in SUBSET Gen
    BY <1>2, <1>3, SessionAssumption DEF Gen, Grant
  <1>10. Minted(req[r]) \in Grant
    BY <1>2, <1>6, <1>7, <1>9 DEF Grant
  <1>11. QED
    BY <1>4, <1>7, <1>8, <1>9, <1>10

\* Minting leaves the logins and the stored sessions well formed.
LEMMA MintingKeeps ==
  ASSUME IInv, NEW r \in Request, req[r].pc = "refresh", CanMint(req[r]),
         idp' = [idp EXCEPT ![req[r].sid] = Minted(req[r])],
         UNCHANGED <<sessions, loginAt, loggedOut>>
  PROVE  LoginsKept /\ \A s \in Sid : SessionOK(s)'
  <1>1. Awaiting(r)
    BY DEF Awaiting, InProgress
  <1>2. /\ Minted(req[r]) \in Grant /\ Minted(req[r]).minted > 0
        /\ Minted(req[r]).offline = idp[req[r].sid].offline
        /\ ~idp[req[r].sid].revoked /\ ~Minted(req[r]).revoked
    BY MintedGrant
  <1>3. req[r].sid \in Sid /\ idp[req[r].sid].minted > 0
    BY <1>1, InProgressFacts DEF RequestOK, Awaiting
  <1>4. idp' \in [Sid -> Grant]
    BY <1>2, <1>3 DEF IInv, TypeOK
  <1>5. /\ idp'[req[r].sid] = Minted(req[r])
        /\ \A s \in Sid : s # req[r].sid => idp'[s] = idp[s]
    BY <1>3 DEF IInv, TypeOK
  <1>6. LoginsKept
    BY <1>2, <1>3, <1>4, <1>5 DEF IInv, TypeOK, LoginsKept
  <1>7. \A s \in Sid : SessionOK(s)'
    <2> TAKE s \in Sid
    <2>1. SessionOK(s)
      BY DEF IInv
    <2>2. CASE s = req[r].sid
      BY <1>2, <1>3, <1>5, <2>1, <2>2 DEF SessionOK
    <2>3. CASE s # req[r].sid
      BY <1>5, <2>1, <2>3 DEF SessionOK
    <2>4. QED
      BY <2>2, <2>3
  <1>8. QED
    BY <1>6, <1>7

LEMMA AnswerRefreshStep ==
  ASSUME IInv, NEW r \in Request, AnswerRefresh(r)
  PROVE  IInv'
  <1>1. /\ Awaiting(r) /\ req[r].pc = "refresh"
        /\ UNCHANGED <<sessions, clock, rotates, loginAt, loggedOut, lostReply>>
    BY DEF AnswerRefresh, Awaiting, InProgress
  <1>2. CASE /\ CanMint(req[r])
             /\ req' = [req EXCEPT ![r].answer = "ok", ![r].bundle = Refreshed(req[r])]
             /\ idp' = [idp EXCEPT ![req[r].sid] = Minted(req[r])]
    <2>1. LoginsKept /\ \A s \in Sid : SessionOK(s)'
      BY <1>1, <1>2, MintingKeeps
    <2>2. Refreshed(req[r]) \in TokenBundle /\ ~idp[req[r].sid].revoked
      BY <1>1, <1>2, MintedGrant
    <2> DEFINE b == Refreshed(req[r])
               t == [req[r] EXCEPT !.answer = "ok", !.bundle = b]
    <2> HIDE DEF b
    <2>3. b \in TokenBundle
      BY <2>2 DEF b
    <2>4. t \in Task
      BY <1>1, <2>3, InProgressFacts DEF Task
    <2>5. RequestOK(t)
      BY <1>1, <2>2, <2>3, InProgressFacts, NoneIsNobody
         DEF RequestOK, Awaiting, InProgress, Task
    <2>6. req' = [req EXCEPT ![r] = t]
      BY <1>1, <1>2, InProgressFacts DEF b
    <2> HIDE DEF t
    <2>7. PICK u : u = t
      OBVIOUS
    <2>8. RequestOK(u)'
      BY <2>1, <2>5, <2>7, RequestKept DEF LoginsKept
    <2>9. QED
      BY <1>1, <2>1, <2>4, <2>6, <2>7, <2>8, RequestMoves DEF IInv, TypeOK
  <1>3. CASE req' = [req EXCEPT ![r].answer = "rejected"] /\ UNCHANGED idp
    <2> DEFINE t == [req[r] EXCEPT !.answer = "rejected"]
    <2>1. t \in Task
      BY <1>1, InProgressFacts DEF Task
    <2>2. RequestOK(t)
      BY <1>1, InProgressFacts DEF RequestOK, Awaiting, InProgress, Task
    <2>3. req' = [req EXCEPT ![r] = t]
      BY <1>3
    <2> HIDE DEF t
    <2>4. QED
      BY <1>1, <1>3, <2>1, <2>2, <2>3, RequestMovesAlone DEF IInv, TypeOK
  <1>4. QED
    BY <1>2, <1>3 DEF AnswerRefresh

LEMMA AttemptFailsStep ==
  ASSUME IInv, NEW r \in Request, AttemptFails(r)
  PROVE  IInv'
  <1>1. /\ Awaiting(r) /\ req[r].answer = "none"
        /\ UNCHANGED <<sessions, clock, rotates, loginAt, loggedOut>>
    BY DEF AttemptFails
  <1>2. PICK u \in Task : req' = [req EXCEPT ![r] = u] /\ RequestOK(u)
    <2>1. CASE req[r].attempt < MaxAttempts /\ req' = [req EXCEPT ![r].attempt = @ + 1]
      <3> DEFINE t == [req[r] EXCEPT !.attempt = @ + 1]
      <3>1. t \in Task
        BY <1>1, <2>1, InProgressFacts, SessionAssumption DEF Task
      <3>2. RequestOK(t)
        BY <1>1, InProgressFacts DEF RequestOK, Awaiting, InProgress, Task
      <3>3. QED
        BY <2>1, <3>1, <3>2
    <2>2. CASE req' = [req EXCEPT ![r].answer = "unreachable"]
      <3> DEFINE t == [req[r] EXCEPT !.answer = "unreachable"]
      <3>1. t \in Task
        BY <1>1, InProgressFacts DEF Task
      <3>2. RequestOK(t)
        BY <1>1, InProgressFacts DEF RequestOK, Awaiting, InProgress, Task
      <3>3. QED
        BY <2>2, <3>1, <3>2
    <2>3. QED
      BY <2>1, <2>2 DEF AttemptFails
  <1>3. /\ LoginsKept /\ \A s \in Sid : SessionOK(s)'
        /\ lostReply' \subseteq Sid
    <2>1. CASE UNCHANGED <<idp, lostReply>>
      BY <1>1, <2>1, LoginsUnchanged DEF IInv, TypeOK, SessionOK
    <2>2. CASE /\ req[r].pc = "refresh" /\ CanMint(req[r])
               /\ idp' = [idp EXCEPT ![req[r].sid] = Minted(req[r])]
               /\ lostReply' = lostReply \cup {req[r].sid}
      BY <1>1, <2>2, MintingKeeps, InProgressFacts DEF IInv, TypeOK
    <2>3. QED
      BY <2>1, <2>2 DEF AttemptFails
  <1>4. RequestOK(u)'
    BY <1>2, <1>3, RequestKept DEF LoginsKept
  <1>5. QED
    BY <1>1, <1>2, <1>3, <1>4, RequestMoves DEF IInv, TypeOK

\* A token dies, or all of a login's: both leave the requests where they are.
LEMMA AccessExpiresStep ==
  ASSUME IInv, NEW s \in Sid, AccessExpires(s)
  PROVE  IInv'
  <1>1. PICK g \in idp[s].access : idp' = [idp EXCEPT ![s].access = @ \ {g}]
    BY DEF AccessExpires
  <1>2. idp' \in [Sid -> Grant] /\ \A i \in Sid : i # s => idp'[i] = idp[i]
    BY <1>1 DEF IInv, TypeOK, Grant
  <1>3. /\ idp'[s].access = idp[s].access \ {g}
        /\ idp'[s].minted = idp[s].minted /\ idp'[s].refresh = idp[s].refresh
        /\ idp'[s].offline = idp[s].offline /\ idp'[s].revoked = idp[s].revoked
    BY <1>1 DEF IInv, TypeOK, Grant
  <1>4. LoginsKept
    BY <1>2, <1>3 DEF AccessExpires, LoginsKept, IInv, TypeOK
  <1>5. \A i \in Sid : SessionOK(i)'
    BY <1>2, <1>3 DEF AccessExpires, IInv, SessionOK
  <1>6. QED
    BY <1>4, <1>5, RequestsStay DEF AccessExpires, IInv, TypeOK

LEMMA IdpRevokesStep ==
  ASSUME IInv, NEW s \in Sid, IdpRevokes(s)
  PROVE  IInv'
  <1>1. idp' \in [Sid -> Grant] /\ \A i \in Sid : i # s => idp'[i] = idp[i]
    BY DEF IdpRevokes, IInv, TypeOK, Grant
  <1>2. /\ idp'[s].access = {} /\ idp'[s].refresh = {} /\ idp'[s].revoked
        /\ idp'[s].minted = idp[s].minted /\ idp'[s].offline = idp[s].offline
    BY DEF IdpRevokes, IInv, TypeOK, Grant
  <1>3. LoginsKept
    BY <1>1, <1>2 DEF IdpRevokes, LoginsKept, IInv, TypeOK
  <1>4. \A i \in Sid : SessionOK(i)'
    BY <1>1, <1>2 DEF IdpRevokes, IInv, SessionOK
  <1>5. QED
    BY <1>3, <1>4, RequestsStay DEF IdpRevokes, IInv, TypeOK

-----------------------------------------------------------------------------
(* resolve_session.                                                          *)

\* Only an issued id has a live entry, and what was read is young enough.
LEMMA BeginStep ==
  ASSUME IInv, NEW r \in Request, NEW s \in Sid, Begin(r, s)
  PROVE  IInv'
  <1> DEFINE found == Lookup(sessions, s, clock)
  <1>1. /\ SessionOK(s) /\ sessions[s] \in Session \cup {None}
        /\ clock \in Time /\ loginAt[s] \in Time /\ idp[s] \in Grant
    BY DEF IInv, TypeOK
  <1>2. /\ req' = [req EXCEPT ![r] = Begun(s, found)]
        /\ UNCHANGED <<sessions, clock, idp, rotates, loginAt, loggedOut, lostReply>>
    BY DEF Begin
  <1>3. found \in {sessions[s], None} /\ (found # None => Live(found, clock))
    BY LookupCases
  <1>4. CASE found = None
    <2>1. Begun(s, found) \in Task
      BY <1>1, <1>4, SessionAssumption DEF Begun, Task, Grant
    <2>2. RequestOK(Begun(s, found))
      BY <1>4 DEF Begun, RequestOK, InProgress
    <2>3. QED
      BY <1>2, <2>1, <2>2, RequestMovesAlone DEF IInv, TypeOK
  <1>5. CASE found # None
    <2>1. sessions[s] # None /\ found = sessions[s] /\ Live(sessions[s], clock)
      BY <1>3, <1>5
    <2>2. clock - loginAt[s] < MaxAge
      BY <1>1, <2>1, SessionAssumption DEF SessionOK, Live, Time
    <2>3. idp[s].minted > 0
      BY <1>1, <2>1, SessionAssumption DEF SessionOK, Grant
    <2>4. Begun(s, found) \in Task
      BY <1>1, <2>1, SessionAssumption DEF Begun, Task, Grant
    <2>5. RequestOK(Begun(s, found))
      BY <1>1, <2>1, <2>2, <2>3 DEF Begun, RequestOK, InProgress, SessionOK
    <2>6. QED
      BY <1>2, <2>4, <2>5, RequestMovesAlone DEF IInv, TypeOK
  <1>6. QED
    BY <1>4, <1>5

\* An answered request keeps what it is: whose, since when.
LEMMA AnsweredTask ==
  ASSUME NEW t \in Task, NEW o \in {"principal", "anonymous"}
  PROVE  /\ Answered(t, o) \in Task
         /\ Answered(t, o).pc = "done" /\ Answered(t, o).outcome = o
         /\ Answered(t, o).sid = t.sid /\ Answered(t, o).begunAt = t.begunAt
         /\ Answered(t, o).begunRevoked = t.begunRevoked
  <1>1. PICK first \in 1..MaxAttempts : first = 1
    BY SessionAssumption
  <1> DEFINE u == [t EXCEPT !.pc = "done", !.outcome = o, !.held = None,
                            !.attempt = first, !.answer = "none", !.bundle = None]
  <1>2. Answered(t, o) = u
    BY <1>1, Zenon DEF Answered
  <1>3. u \in Task
    BY DEF Task
  <1>4. /\ u.pc = "done" /\ u.outcome = o /\ u.sid = t.sid
        /\ u.begunAt = t.begunAt /\ u.begunRevoked = t.begunRevoked
    BY DEF Task
  <1> HIDE DEF u
  <1>5. QED
    BY <1>2, <1>3, <1>4

LEMMA ReturnPrincipalStep ==
  ASSUME IInv, NEW r \in Request, ReturnPrincipal(r)
  PROVE  IInv'
  <1>1. /\ Awaiting(r) /\ req[r].answer = "ok"
        /\ req' = [req EXCEPT ![r] = Answered(req[r], "principal")]
    BY DEF ReturnPrincipal, Awaiting, InProgress
  <1>2. Answered(req[r], "principal") \in Task
    BY <1>1, InProgressFacts, AnsweredTask
  <1>3. RequestOK(Answered(req[r], "principal"))
    BY <1>1, InProgressFacts, AnsweredTask DEF RequestOK, InProgress, Awaiting
  <1>4. QED
    BY <1>1, <1>2, <1>3, RequestMovesAlone DEF ReturnPrincipal, IInv, TypeOK

\* Only a login with a refresh token gets this far.
LEMMA TryRefreshStep ==
  ASSUME IInv, NEW r \in Request, TryRefresh(r)
  PROVE  IInv'
  <1>1. Awaiting(r) /\ req[r].held.refresh # None
    BY DEF TryRefresh, Awaiting, InProgress
  <1> DEFINE t == [req[r] EXCEPT !.pc = "refresh", !.answer = "none", !.attempt = 1]
  <1>2. t \in Task
    <2>1. PICK first \in 1..MaxAttempts : first = 1
      BY SessionAssumption
    <2>2. t = [req[r] EXCEPT !.pc = "refresh", !.answer = "none", !.attempt = first]
      BY <2>1, Zenon
    <2> HIDE DEF t
    <2>3. QED
      BY <1>1, <2>2, InProgressFacts DEF Task
  <1>3. RequestOK(t)
    BY <1>1, InProgressFacts DEF RequestOK, InProgress, Awaiting, Task
  <1>4. req' = [req EXCEPT ![r] = t]
    BY <1>1, InProgressFacts DEF TryRefresh
  <1> HIDE DEF t
  <1>5. QED
    BY <1>2, <1>3, <1>4, RequestMovesAlone DEF TryRefresh, IInv, TypeOK

\* The refreshed session carries the `created` of the one it replaces, and the
\* login it belongs to had a refresh token.
LEMMA StoreRefreshedStep ==
  ASSUME IInv, NEW r \in Request, StoreRefreshed(r)
  PROVE  IInv'
  <1>1. Awaiting(r) /\ req[r].pc = "refresh" /\ req[r].answer = "ok"
    BY DEF StoreRefreshed, Awaiting, InProgress
  <1> DEFINE sid == req[r].sid
             fresh == RefreshedSession(req[r])
             t == [req[r] EXCEPT !.pc = "recheck", !.held = fresh, !.bundle = None,
                                 !.answer = "none", !.attempt = 1]
  <1>2. req[r].bundle \in TokenBundle
    BY <1>1, InProgressFacts DEF RequestOK, Task
  <1>3. fresh \in Session /\ fresh.created = req[r].held.created
    BY <1>1, <1>2, InProgressFacts DEF RefreshedSession, Session, TokenBundle
  <1>4. /\ sid \in Sid /\ idp[sid].minted > 0 /\ idp[sid].offline
        /\ fresh.created = loginAt[sid]
    BY <1>1, <1>3, InProgressFacts DEF RequestOK, Awaiting, InProgress, Grant
  <1>5. /\ sessions' = Inserted(sessions, sid, fresh, clock)
        /\ req' = [req EXCEPT ![r] = t]
        /\ UNCHANGED <<clock, idp, rotates, loginAt, loggedOut, lostReply>>
    BY <1>1, InProgressFacts DEF StoreRefreshed
  <1>6. /\ sessions' \in [Sid -> Session \cup {None}] /\ sessions'[sid] = fresh
        /\ \A s \in Sid : s # sid => sessions'[s] \in {sessions[s], None}
    BY <1>3, <1>4, <1>5, StoredAt DEF IInv, TypeOK
  <1>7. \A s \in Sid : SessionOK(s)'
    <2> TAKE s \in Sid
    <2>1. SessionOK(s)
      BY DEF IInv
    <2> HIDE DEF fresh, sid, t
    <2>2. CASE s = sid
      BY <1>4, <1>5, <1>6, <2>1, <2>2 DEF SessionOK
    <2>3. CASE s # sid
      BY <1>5, <1>6, <2>1, <2>3 DEF SessionOK
    <2>4. QED
      BY <2>2, <2>3
  <1> HIDE DEF fresh
  <1>8. t \in Task
    <2>1. PICK first \in 1..MaxAttempts : first = 1
      BY SessionAssumption
    <2>2. t = [req[r] EXCEPT !.pc = "recheck", !.held = fresh, !.bundle = None,
                             !.answer = "none", !.attempt = first]
      BY <2>1, Zenon
    <2>3. req[r] \in Task /\ fresh \in Session \cup {None}
      BY <1>1, <1>3, InProgressFacts
    <2>4. \A held \in Session \cup {None} :
            [req[r] EXCEPT !.pc = "recheck", !.held = held, !.bundle = None,
                           !.answer = "none", !.attempt = first] \in Task
      BY <2>3 DEF Task
    <2> HIDE DEF t
    <2>5. QED
      BY <2>2, <2>3, <2>4, Zenon
  <1>9. RequestOK(t)
    BY <1>1, <1>3, <1>4, InProgressFacts, NoneIsNobody
       DEF RequestOK, InProgress, Awaiting, Task
  <1> HIDE DEF t, sid
  <1>10. LoginsKept
    BY <1>5, LoginsUnchanged DEF IInv
  <1>11. PICK u : u = t
    OBVIOUS
  <1>12. RequestOK(u)'
    BY <1>9, <1>10, <1>11, RequestKept DEF LoginsKept
  <1>13. QED
    BY <1>5, <1>6, <1>7, <1>8, <1>10, <1>11, <1>12, RequestMoves DEF IInv, TypeOK

\* Removing a session cannot make one ill-formed.
LEMMA RemovalKeeps ==
  ASSUME IInv, NEW s \in Sid, sessions' = Removed(sessions, s),
         UNCHANGED <<idp, loginAt>>,
         loggedOut' = loggedOut \/ (idp[s].minted > 0 /\ loggedOut' = loggedOut \cup {s})
  PROVE  sessions' \in [Sid -> Session \cup {None}] /\ \A i \in Sid : SessionOK(i)'
  <1>1. /\ sessions' \in [Sid -> Session \cup {None}] /\ sessions'[s] = None
        /\ \A i \in Sid : i # s => sessions'[i] = sessions[i]
    BY RemovedAt DEF IInv, TypeOK
  <1>2. \A i \in Sid : SessionOK(i)'
    <2> TAKE i \in Sid
    <2>1. SessionOK(i) /\ idp[i] \in Grant
      BY DEF IInv, TypeOK
    <2>2. CASE i = s
      BY <1>1, <2>1, <2>2 DEF SessionOK, Grant
    <2>3. CASE i # s
      BY <1>1, <2>1, <2>3 DEF SessionOK
    <2>4. QED
      BY <2>2, <2>3
  <1>3. QED
    BY <1>1, <1>2

LEMMA GiveUpStep ==
  ASSUME IInv, NEW r \in Request, GiveUp(r)
  PROVE  IInv'
  <1>1. /\ Awaiting(r)
        /\ req' = [req EXCEPT ![r] = Answered(req[r], "anonymous")]
        /\ sessions' = Removed(sessions, req[r].sid)
        /\ UNCHANGED <<clock, idp, rotates, loginAt, loggedOut, lostReply>>
    BY DEF GiveUp, NothingLeftToTry, Awaiting, InProgress
  <1>2. sessions' \in [Sid -> Session \cup {None}] /\ \A i \in Sid : SessionOK(i)'
    BY <1>1, InProgressFacts, RemovalKeeps
  <1>3. PICK u : u = Answered(req[r], "anonymous")
    OBVIOUS
  <1>4. u \in Task
    BY <1>1, <1>3, InProgressFacts, AnsweredTask
  <1>5. RequestOK(u)
    BY <1>1, <1>3, InProgressFacts, AnsweredTask DEF RequestOK, InProgress, Awaiting
  <1>6. LoginsKept
    BY <1>1, LoginsUnchanged DEF IInv
  <1>7. RequestOK(u)'
    BY <1>5, <1>6, RequestKept DEF LoginsKept
  <1>8. QED
    BY <1>1, <1>2, <1>3, <1>4, <1>6, <1>7, RequestMoves DEF IInv, TypeOK

\* The task ends, of itself or dropped.
LEMMA FinishStep ==
  ASSUME IInv, NEW r \in Request, Finish(r)
  PROVE  IInv'
  BY IdleIsATask, RequestMovesAlone DEF Finish, IInv, TypeOK

LEMMA CancelStep ==
  ASSUME IInv, NEW r \in Request, Cancel(r)
  PROVE  IInv'
  <1>1. lostReply' \subseteq Sid
    BY InProgressFacts DEF Cancel, IInv, TypeOK
  <1>2. QED
    BY <1>1, IdleIsATask, RequestMovesAlone DEF Cancel

-----------------------------------------------------------------------------
(* The other users of the store, and the environment.                        *)

\* A login touches an id nobody has, so no request in progress notices.
LEMMA LoginCompletedStep ==
  ASSUME IInv, NEW s \in Sid, NEW offline \in BOOLEAN, LoginCompleted(s, offline)
  PROVE  IInv'
  <1> DEFINE refresh == IF offline THEN 1 ELSE None
             e == [access |-> 1, refresh |-> refresh, created |-> clock]
             g == [minted |-> 1, access |-> {1}, refresh |-> IF offline THEN {1} ELSE {},
                   offline |-> offline, revoked |-> FALSE]
  <1>1. /\ idp[s].minted = 0 /\ SessionOK(s)
        /\ idp' = [idp EXCEPT ![s] = g]
        /\ sessions' = Inserted(sessions, s, e, clock)
        /\ loginAt' = [loginAt EXCEPT ![s] = clock]
        /\ UNCHANGED <<clock, req, rotates, loggedOut, lostReply>>
    BY DEF LoginCompleted, IInv
  <1>2. 1 \in Gen /\ 1 \in 0..MaxGen /\ clock \in Time
    BY SessionAssumption DEF Gen, IInv, TypeOK
  <1>3. e \in Session /\ g \in Grant
    BY <1>2 DEF Session, Grant
  <1>4. g.minted = 1 /\ ~g.revoked /\ g.offline = offline
    OBVIOUS
  <1>5. e.created = clock /\ (~offline => e.refresh = None)
    OBVIOUS
  <1> HIDE DEF e, g, refresh
  <1>6. /\ sessions' \in [Sid -> Session \cup {None}] /\ sessions'[s] = e
        /\ \A i \in Sid : i # s => sessions'[i] \in {sessions[i], None}
    BY <1>1, <1>3, StoredAt DEF IInv, TypeOK
  <1>7. /\ idp' \in [Sid -> Grant] /\ idp'[s] = g /\ \A i \in Sid : i # s => idp'[i] = idp[i]
        /\ loginAt' \in [Sid -> Time] /\ loginAt'[s] = clock
        /\ \A i \in Sid : i # s => loginAt'[i] = loginAt[i]
    BY <1>1, <1>2, <1>3 DEF IInv, TypeOK
  <1>8. LoginsKept
    BY <1>1, <1>4, <1>7 DEF LoginsKept
  <1>9. \A i \in Sid : SessionOK(i)'
    <2> TAKE i \in Sid
    <2>1. SessionOK(i)
      BY DEF IInv
    <2>2. CASE i = s
      BY <1>1, <1>4, <1>5, <1>6, <1>7, <2>1, <2>2 DEF SessionOK
    <2>3. CASE i # s
      BY <1>1, <1>6, <1>7, <2>1, <2>3 DEF SessionOK
    <2>4. QED
      BY <2>2, <2>3
  <1>10. QED
    BY <1>1, <1>6, <1>8, <1>9, RequestsStay DEF IInv, TypeOK

LEMMA LogoutStep ==
  ASSUME IInv, NEW s \in Sid, Logout(s)
  PROVE  IInv'
  <1>1. /\ idp[s].minted > 0 /\ sessions' = Removed(sessions, s)
        /\ loggedOut' \in {loggedOut, loggedOut \cup {s}}
        /\ UNCHANGED <<clock, req, idp, rotates, loginAt, lostReply>>
    BY DEF Logout
  <1>2. sessions' \in [Sid -> Session \cup {None}] /\ \A i \in Sid : SessionOK(i)'
    BY <1>1, RemovalKeeps
  <1>3. LoginsKept
    BY <1>1, LoginsUnchanged DEF IInv
  <1>4. QED
    BY <1>1, <1>2, <1>3, RequestsStay DEF IInv, TypeOK

LEMMA RestartStep == IInv /\ Restart => IInv'
  <1> SUFFICES ASSUME IInv, Restart PROVE IInv'
    OBVIOUS
  <1>1. TypeOK'
    BY IdleIsATask DEF Restart, IInv, TypeOK
  <1>2. \A s \in Sid : SessionOK(s)'
    BY DEF Restart, IInv, SessionOK
  <1>3. \A r \in Request : RequestOK(req[r])'
    BY DEF Restart, RequestOK, InProgress, Idle
  <1>4. QED
    BY <1>1, <1>2, <1>3 DEF IInv

LEMMA TickStep == IInv /\ Tick => IInv'
  <1> SUFFICES ASSUME IInv, Tick PROVE IInv'
    OBVIOUS
  <1>1. clock' \in Time
    BY SessionAssumption DEF Tick, IInv, TypeOK, Time
  <1>2. \A s \in Sid : SessionOK(s)'
    BY DEF Tick, IInv, SessionOK
  <1>3. LoginsKept
    BY LoginsUnchanged DEF Tick, IInv
  <1>4. QED
    BY <1>1, <1>2, <1>3, RequestsStay DEF Tick, IInv, TypeOK

LEMMA StutterStep == IInv /\ UNCHANGED vars => IInv'
  BY DEF vars, IInv, TypeOK, SessionOK, RequestOK, InProgress

-----------------------------------------------------------------------------
(* The theorems.                                                             *)

LEMMA InvStep == IInv /\ [Next]_vars => IInv'
  <1> SUFFICES ASSUME IInv, [Next]_vars PROVE IInv'
    OBVIOUS
  <1>1. ASSUME NEW r \in Request, NEW s \in Sid, Begin(r, s) PROVE IInv'
    BY <1>1, BeginStep
  <1>2. ASSUME NEW r \in Request, Handler(r) PROVE IInv'
    BY <1>2, ReturnPrincipalStep, TryRefreshStep, StoreRefreshedStep, GiveUpStep, FinishStep
       DEF Handler
  <1>3. ASSUME NEW r \in Request, AnswerUserinfo(r) \/ AnswerRefresh(r) \/ AttemptFails(r)
        PROVE  IInv'
    BY <1>3, AnswerUserinfoStep, AnswerRefreshStep, AttemptFailsStep
  <1>4. ASSUME NEW r \in Request, Cancel(r) PROVE IInv'
    BY <1>4, CancelStep
  <1>5. ASSUME NEW s \in Sid, NEW offline \in BOOLEAN, LoginCompleted(s, offline) PROVE IInv'
    BY <1>5, LoginCompletedStep
  <1>6. ASSUME NEW s \in Sid, Logout(s) \/ AccessExpires(s) \/ IdpRevokes(s) PROVE IInv'
    BY <1>6, LogoutStep, AccessExpiresStep, IdpRevokesStep
  <1>7. CASE Restart \/ Tick
    BY <1>7, RestartStep, TickStep
  <1>8. CASE UNCHANGED vars
    BY <1>8, StutterStep
  <1>9. QED
    BY <1>1, <1>2, <1>3, <1>4, <1>5, <1>6, <1>7, <1>8 DEF Next

\* What holds of every session and every request, in every reachable state.
THEOREM InductiveInvariant == Spec => []IInv
  BY InitInv, InvStep, PTL DEF Spec

\* Type correctness.
THEOREM TypeCorrect == Spec => []TypeOK
  <1>1. IInv => TypeOK
    BY DEF IInv
  <1>2. QED
    BY <1>1, InductiveInvariant, PTL

\* No request that began a lifetime or more after the login ends with an
\* identity, however often the session was refreshed in between.
THEOREM AgeBounded == Spec => []NoIdentityPastMaxAge
  <1>1. IInv => NoIdentityPastMaxAge
    BY DEF IInv, RequestOK, NoIdentityPastMaxAge
  <1>2. QED
    BY <1>1, InductiveInvariant, PTL

\* No request that began after the IdP revoked the login ends with an identity.
THEOREM RevocationImmediate == Spec => []RevokedStopsImmediately
  <1>1. IInv => RevokedStopsImmediately
    BY DEF IInv, RequestOK, RevokedStopsImmediately
  <1>2. QED
    BY <1>1, InductiveInvariant, PTL

\* A login without a refresh token, once logged out, has no session again.
THEOREM LogoutFinal == Spec => []LogoutFinalWithoutRefresh
  <1>1. IInv => LogoutFinalWithoutRefresh
    BY DEF IInv, TypeOK, SessionOK, LogoutFinalWithoutRefresh
  <1>2. QED
    BY <1>1, InductiveInvariant, PTL

-----------------------------------------------------------------------------
(* The tokens: which of them are live at the IdP, which are stored, held and *)
(* under way.                                                                *)

\* A pair of tokens no newer than what the IdP has minted for the login.
Ours(pair, g) ==
  /\ pair.access <= g.minted
  /\ pair.refresh # None => pair.refresh <= g.minted

\* A token the IdP rejected is still dead; a refresh is tried with a dead access token.
TaskOK(t, g) ==
  InProgress(t) =>
    /\ Ours(t.held, g)
    /\ t.pc = "refresh" \/ t.answer = "rejected" => t.held.access \notin g.access
    /\ t.pc = "refresh" /\ t.answer = "rejected" => t.held.refresh \notin g.refresh
    /\ t.pc = "refresh" /\ t.answer = "ok" => Ours(t.bundle, g)

PairsOK ==
  /\ \A s \in Sid : sessions[s] # None => Ours(sessions[s], idp[s])
  /\ \A r \in Request : TaskOK(req[r], idp[req[r].sid])

Holds(t, s) == InProgress(t) /\ t.sid = s

\* The reply of a refresh is here and not yet stored.
Pending(t, s) == t.sid = s /\ t.pc = "refresh" /\ t.answer = "ok"

\* The IdP keeps one refresh token of a login at a time. While the reply with it
\* is under way nobody else has it, so no second one can be.
RotatedOK(s) ==
  LET last == idp[s].minted IN
  /\ idp[s].refresh \subseteq {last}
  /\ \A q \in Request : Pending(req[q], s) =>
       /\ req[q].bundle.refresh = last /\ last \in idp[s].refresh
       /\ sessions[s] # None => sessions[s].refresh # last
       /\ \A p \in Request : Holds(req[p], s) => req[p].held.refresh # last
       /\ \A p \in Request : Pending(req[p], s) => p = q
  /\ \/ sessions[s] = None
     \/ sessions[s].refresh \in idp[s].refresh \cup {None}
     \/ \E q \in Request : Pending(req[q], s)

\* The IdP keeps the refresh token of the login, and so does everyone here.
KeptOK(s) ==
  /\ sessions[s] # None => sessions[s].refresh \in idp[s].refresh \cup {None}
  /\ \A q \in Request : Holds(req[q], s) => req[q].held.refresh \in idp[s].refresh \cup {None}
  /\ \A q \in Request : Pending(req[q], s) => req[q].bundle.refresh \in idp[s].refresh

TokensOK(s) ==
  ~idp[s].revoked /\ s \notin lostReply => IF rotates THEN RotatedOK(s) ELSE KeptOK(s)

TokenInv == IInv /\ PairsOK /\ \A s \in Sid : TokensOK(s)

LEMMA TokenInit == Init => PairsOK /\ \A s \in Sid : TokensOK(s)
  BY DEF Init, PairsOK, TokensOK, RotatedOK, KeptOK, TaskOK, InProgress, Holds, Pending,
         Idle, Unissued

\* The IdP mints in order, and brings no token back.
Grows(g, h) ==
  /\ g.minted <= h.minted
  /\ \A k \in Gen : k <= g.minted =>
       /\ k \in h.access => k \in g.access
       /\ k \in h.refresh => k \in g.refresh

LEMMA PairKept ==
  ASSUME NEW pair, pair.access \in Gen, pair.refresh \in Gen \cup {None},
         NEW g \in Grant, NEW h \in Grant, Grows(g, h), Ours(pair, g)
  PROVE  Ours(pair, h)
  BY SessionAssumption DEF Ours, Grows, Gen, Grant

LEMMA TaskKept ==
  ASSUME NEW t \in Task, t.held \in Session, NEW g \in Grant, NEW h \in Grant, Grows(g, h),
         TaskOK(t, g), t.pc = "refresh" /\ t.answer = "ok" => t.bundle \in TokenBundle
  PROVE  TaskOK(t, h)
  <1> SUFFICES ASSUME InProgress(t) PROVE TaskOK(t, h)
    BY DEF TaskOK
  <1>1. Ours(t.held, h)
    BY PairKept DEF TaskOK, Session
  <1>2. t.pc = "refresh" /\ t.answer = "ok" => Ours(t.bundle, h)
    BY PairKept DEF TaskOK, TokenBundle
  <1>3. t.pc = "refresh" \/ t.answer = "rejected" => t.held.access \notin h.access
    BY DEF TaskOK, Ours, Grows, Session
  <1>4. t.pc = "refresh" /\ t.answer = "rejected" => t.held.refresh \notin h.refresh
    BY NoneIsNobody DEF TaskOK, Ours, Grows, Session, Grant
  <1> QED
    BY <1>1, <1>2, <1>3, <1>4 DEF TaskOK

\* One that has come to the refresh has a refresh token.
LEMMA RefreshHeld ==
  ASSUME IInv, NEW r \in Request, Awaiting(r)
  PROVE  req[r].pc = "refresh" /\ req[r].answer = "ok" => req[r].bundle \in TokenBundle
  BY InProgressFacts DEF RequestOK, Task

LEMMA PairsStep ==
  ASSUME IInv, PairsOK,
         idp' \in [Sid -> Grant], \A s \in Sid : Grows(idp[s], idp'[s]),
         \A s \in Sid : \/ sessions'[s] \in {sessions[s], None}
                        \/ Ours(sessions'[s], idp'[s]),
         \A q \in Request : req'[q] = req[q] \/ TaskOK(req'[q], idp'[req'[q].sid])
  PROVE  PairsOK'
  <1>1. ASSUME NEW s \in Sid, sessions'[s] # None
        PROVE  Ours(sessions'[s], idp'[s])
    <2>1. CASE sessions'[s] = sessions[s]
      <3>1. /\ sessions[s] \in Session /\ idp[s] \in Grant /\ idp'[s] \in Grant
            /\ Ours(sessions[s], idp[s])
        BY <1>1, <2>1 DEF IInv, TypeOK, PairsOK
      <3> QED
        BY <2>1, <3>1, PairKept DEF Session
    <2> QED
      BY <1>1, <2>1
  <1>2. ASSUME NEW q \in Request
        PROVE  TaskOK(req'[q], idp'[req'[q].sid])
    <2>1. CASE req'[q] = req[q] /\ Awaiting(q)
      <3>1. /\ req[q] \in Task /\ req[q].held \in Session /\ req[q].sid \in Sid
            /\ TaskOK(req[q], idp[req[q].sid])
        BY <2>1, InProgressFacts DEF PairsOK
      <3>2. idp[req[q].sid] \in Grant /\ idp'[req[q].sid] \in Grant
            /\ Grows(idp[req[q].sid], idp'[req[q].sid])
        BY <3>1 DEF IInv, TypeOK
      <3> QED
        BY <2>1, <3>1, <3>2, TaskKept, RefreshHeld
    <2>2. CASE req'[q] = req[q] /\ ~Awaiting(q)
      BY <2>2 DEF Awaiting, TaskOK
    <2> QED
      BY <1>2, <2>1, <2>2
  <1> QED
    BY <1>1, <1>2 DEF PairsOK

-----------------------------------------------------------------------------
(* Steps at which no token is minted or stored.                              *)

\* From task t to task u: it holds what it held, or what is in the store; a reply
\* is not made, changed or, unless it is lost, dropped.
QuietTask(t, u, s) ==
  /\ Holds(u, s) => \/ Holds(t, s) /\ u.held = t.held
                    \/ sessions[s] # None /\ u.held = sessions[s]
  /\ Pending(u, s) => Pending(t, s) /\ u.bundle = t.bundle
  /\ Pending(t, s) => Pending(u, s) \/ s \in lostReply' \/ sessions'[s] = None

LEMMA TokensKept ==
  ASSUME NEW s \in Sid, TokensOK(s), rotates' = rotates,
         /\ idp'[s].minted = idp[s].minted
         /\ idp'[s].revoked \/ (idp'[s].refresh = idp[s].refresh /\ ~idp[s].revoked),
         s \in lostReply => s \in lostReply',
         sessions'[s] \in {sessions[s], None},
         \A q \in Request : QuietTask(req[q], req'[q], s)
  PROVE  TokensOK(s)'
  <1> SUFFICES ASSUME ~idp'[s].revoked, s \notin lostReply'
               PROVE  IF rotates THEN RotatedOK(s)' ELSE KeptOK(s)'
    BY DEF TokensOK
  <1>1. /\ ~idp[s].revoked /\ s \notin lostReply
        /\ idp'[s].refresh = idp[s].refresh /\ idp'[s].minted = idp[s].minted
    OBVIOUS
  <1>2. ASSUME rotates PROVE RotatedOK(s)'
    <2>1. RotatedOK(s)
      BY <1>1, <1>2 DEF TokensOK
    <2>2. \A q \in Request :
            /\ Holds(req'[q], s) => \/ Holds(req[q], s) /\ req'[q].held = req[q].held
                                    \/ sessions[s] # None /\ req'[q].held = sessions[s]
            /\ Pending(req'[q], s) => Pending(req[q], s) /\ req'[q].bundle = req[q].bundle
            /\ Pending(req[q], s) => Pending(req'[q], s) \/ sessions'[s] = None
      BY DEF QuietTask
    <2> QED
      BY <1>1, <2>1, <2>2 DEF RotatedOK
  <1>3. ASSUME ~rotates PROVE KeptOK(s)'
    <2>1. KeptOK(s)
      BY <1>1, <1>3 DEF TokensOK
    <2> QED
      BY <1>1, <2>1 DEF KeptOK, QuietTask
  <1> QED
    BY <1>2, <1>3

\* The logins are as they were, and one request moves.
LEMMA QuietMove ==
  ASSUME TokenInv, UNCHANGED <<idp, rotates>>, NEW r \in Request, NEW t,
         req' = [req EXCEPT ![r] = t], lostReply \subseteq lostReply',
         \A s \in Sid : sessions'[s] \in {sessions[s], None},
         InProgress(t) => TaskOK(t, idp[t.sid]),
         \A s \in Sid : QuietTask(req[r], t, s)
  PROVE  PairsOK' /\ \A s \in Sid : TokensOK(s)'
  <1>1. \A q \in Request : req'[q] = IF q = r THEN t ELSE req[q]
    BY DEF TokenInv, IInv, TypeOK
  <1>2. PairsOK'
    <2>1. \A s \in Sid : Grows(idp[s], idp'[s])
      BY SessionAssumption DEF TokenInv, IInv, TypeOK, Grows, Grant
    <2>2. TaskOK(t, idp[t.sid])
      BY DEF TaskOK
    <2> QED
      BY <1>1, <2>1, <2>2, PairsStep DEF TokenInv, IInv, TypeOK
  <1>3. ASSUME NEW s \in Sid
        PROVE  TokensOK(s)'
    <2>1. \A q \in Request : QuietTask(req[q], req'[q], s)
      BY <1>1 DEF QuietTask
    <2>2. idp' = idp
      OBVIOUS
    <2>3. idp'[s].revoked \/ (idp'[s].refresh = idp[s].refresh /\ ~idp[s].revoked)
      BY <2>2, Zenon
    <2> QED
      BY <2>1, <2>2, <2>3, TokensKept DEF TokenInv
  <1> QED
    BY <1>2, <1>3

TokensNext == PairsOK' /\ \A s \in Sid : TokensOK(s)'

\* A request that ends takes nothing with it but its reply.
LEMMA QuietEnd ==
  ASSUME TokenInv, UNCHANGED <<idp, rotates>>, NEW r \in Request, NEW t, ~InProgress(t),
         req' = [req EXCEPT ![r] = t], lostReply \subseteq lostReply',
         \A s \in Sid : sessions'[s] \in {sessions[s], None},
         \A s \in Sid : Pending(req[r], s) => s \in lostReply'
  PROVE  TokensNext
  <1>1. \A s \in Sid : QuietTask(req[r], t, s)
    BY DEF QuietTask, Holds, Pending, InProgress
  <1> QED
    BY <1>1, QuietMove DEF TokensNext

LEMMA EndSteps ==
  ASSUME TokenInv, NEW r \in Request,
         ReturnPrincipal(r) \/ GiveUp(r) \/ Finish(r) \/ Cancel(r)
  PROVE  TokensNext
  <1>1. CASE ReturnPrincipal(r)
    <2>1. ~InProgress(Answered(req[r], "principal"))
      <3>1. Awaiting(r)
        BY <1>1 DEF ReturnPrincipal, Awaiting, InProgress
      <3> QED
        BY <3>1, InProgressFacts, AnsweredTask DEF TokenInv, InProgress
    <2>2. \A s \in Sid : ~Pending(req[r], s)
      BY <1>1 DEF ReturnPrincipal, Pending
    <2>3. /\ UNCHANGED <<sessions, idp, rotates, lostReply>>
          /\ req' = [req EXCEPT ![r] = Answered(req[r], "principal")]
      BY <1>1 DEF ReturnPrincipal
    <2> QED
      BY <2>1, <2>2, <2>3, QuietEnd
  <1>2. CASE GiveUp(r)
    <2>1. Awaiting(r) /\ \A s \in Sid : ~Pending(req[r], s)
      BY <1>2 DEF GiveUp, NothingLeftToTry, Awaiting, InProgress, Pending
    <2>2. ~InProgress(Answered(req[r], "anonymous"))
      BY <2>1, InProgressFacts, AnsweredTask DEF TokenInv, InProgress
    <2>3. /\ UNCHANGED <<idp, rotates, lostReply>>
          /\ req' = [req EXCEPT ![r] = Answered(req[r], "anonymous")]
          /\ sessions' = Removed(sessions, req[r].sid)
      BY <1>2 DEF GiveUp
    <2>4. \A s \in Sid : sessions'[s] \in {sessions[s], None}
      <3>1. req[r].sid \in Sid
        BY <2>1, InProgressFacts DEF TokenInv
      <3> QED
        BY <2>3, <3>1, RemovedAt DEF TokenInv, IInv, TypeOK
    <2> QED
      BY <2>1, <2>2, <2>3, <2>4, QuietEnd
  <1>3. CASE Finish(r)
    BY <1>3, QuietEnd DEF Finish, Pending, InProgress, Idle
  <1>4. CASE Cancel(r)
    BY <1>4, QuietEnd DEF Cancel, Pending, InProgress, Idle
  <1> QED
    BY <1>1, <1>2, <1>3, <1>4

\* The request reads a pair from the store.
LEMMA BeginTokens ==
  ASSUME TokenInv, NEW r \in Request, NEW s \in Sid, Begin(r, s)
  PROVE  TokensNext
  <1> DEFINE found == Lookup(sessions, s, clock)
             t == Begun(s, found)
  <1>1. /\ req' = [req EXCEPT ![r] = t] /\ req[r].pc = "idle"
        /\ UNCHANGED <<sessions, idp, rotates, lostReply>>
    BY DEF Begin
  <1>2. t.sid = s /\ t.held = found /\ t.answer = "none"
        /\ (InProgress(t) => t.pc = "userinfo" /\ found # None)
    BY DEF Begun, InProgress
  <1>3. found # None => found = sessions[s]
    BY LookupCases
  <1> HIDE DEF t, found
  <1>4. InProgress(t) => TaskOK(t, idp[t.sid])
    BY <1>2, <1>3 DEF TokenInv, PairsOK, TaskOK
  <1>5. \A i \in Sid : QuietTask(req[r], t, i)
    BY <1>1, <1>2, <1>3 DEF QuietTask, Holds, Pending
  <1> QED
    BY <1>1, <1>4, <1>5, QuietMove DEF TokensNext

\* What the IdP answers about the pair the request holds.
LEMMA AnswerTokens ==
  ASSUME TokenInv, NEW r \in Request,
         \/ AnswerUserinfo(r)
         \/ AnswerRefresh(r) /\ UNCHANGED idp /\ req' = [req EXCEPT ![r].answer = "rejected"]
                             /\ ~RefreshLive(req[r])
  PROVE  TokensNext
  <1>1. /\ Awaiting(r) /\ req[r].answer = "none"
        /\ UNCHANGED <<sessions, idp, rotates, lostReply>>
    BY DEF AnswerUserinfo, AnswerRefresh, Awaiting, InProgress
  <1>2. PICK a \in {"ok", "rejected"} :
          /\ req' = [req EXCEPT ![r].answer = a]
          /\ a = "ok" => req[r].pc # "refresh"
          /\ a = "rejected" => IF req[r].pc = "refresh" THEN ~RefreshLive(req[r])
                                                        ELSE ~AccessLive(req[r])
    <2>1. CASE AnswerUserinfo(r) /\ AccessLive(req[r])
      BY <2>1 DEF AnswerUserinfo
    <2>2. CASE AnswerUserinfo(r) /\ ~AccessLive(req[r])
      BY <2>2 DEF AnswerUserinfo
    <2> QED
      BY <2>1, <2>2 DEF AnswerRefresh
  <1> DEFINE t == [req[r] EXCEPT !.answer = a]
  <1>3. /\ req[r] \in Task /\ TaskOK(req[r], idp[req[r].sid])
    BY <1>1, InProgressFacts DEF TokenInv, PairsOK
  <1>4. /\ t.pc = req[r].pc /\ t.sid = req[r].sid /\ t.held = req[r].held
        /\ t.bundle = req[r].bundle /\ t.answer = a
        /\ req' = [req EXCEPT ![r] = t]
    BY <1>2, <1>3 DEF Task
  <1> HIDE DEF t
  <1>5. InProgress(t) => TaskOK(t, idp[t.sid])
    BY <1>1, <1>2, <1>3, <1>4 DEF TaskOK, InProgress, Awaiting, AccessLive, RefreshLive
  <1>6. \A i \in Sid : QuietTask(req[r], t, i)
    BY <1>1, <1>2, <1>4 DEF QuietTask, Holds, Pending, InProgress
  <1> QED
    BY <1>1, <1>4, <1>5, <1>6, QuietMove DEF TokensNext

LEMMA TryRefreshTokens ==
  ASSUME TokenInv, NEW r \in Request, TryRefresh(r)
  PROVE  TokensNext
  <1>1. /\ Awaiting(r) /\ req[r].pc = "userinfo" /\ req[r].answer = "rejected"
        /\ UNCHANGED <<sessions, idp, rotates, lostReply>>
    BY DEF TryRefresh, Awaiting, InProgress
  <1> DEFINE t == [req[r] EXCEPT !.pc = "refresh", !.answer = "none", !.attempt = 1]
  <1>2. /\ req[r] \in Task /\ TaskOK(req[r], idp[req[r].sid])
    BY <1>1, InProgressFacts DEF TokenInv, PairsOK
  <1>3. /\ t.pc = "refresh" /\ t.sid = req[r].sid /\ t.held = req[r].held
        /\ t.answer = "none" /\ req' = [req EXCEPT ![r] = t]
    BY <1>2 DEF Task, TryRefresh
  <1> HIDE DEF t
  <1>4. TaskOK(t, idp[t.sid])
    BY <1>1, <1>2, <1>3 DEF TaskOK, InProgress, Awaiting
  <1>5. \A i \in Sid : QuietTask(req[r], t, i)
    BY <1>1, <1>3 DEF QuietTask, Holds, Pending, InProgress
  <1> QED
    BY <1>1, <1>3, <1>4, <1>5, QuietMove DEF TokensNext

LEMMA FailTokens ==
  ASSUME TokenInv, NEW r \in Request, AttemptFails(r), UNCHANGED <<idp, lostReply>>
  PROVE  TokensNext
  <1>1. /\ Awaiting(r) /\ req[r].answer = "none"
        /\ UNCHANGED <<sessions, idp, rotates, lostReply>>
    BY DEF AttemptFails
  <1>2. /\ req[r] \in Task /\ TaskOK(req[r], idp[req[r].sid])
    BY <1>1, InProgressFacts DEF TokenInv, PairsOK
  <1>3. PICK t : /\ req' = [req EXCEPT ![r] = t]
                 /\ t.pc = req[r].pc /\ t.sid = req[r].sid /\ t.held = req[r].held
                 /\ t.answer \in {"none", "unreachable"}
    <2>1. CASE req' = [req EXCEPT ![r].attempt = @ + 1]
      <3> DEFINE t == [req[r] EXCEPT !.attempt = @ + 1]
      <3>1. t.pc = req[r].pc /\ t.sid = req[r].sid /\ t.held = req[r].held /\ t.answer = "none"
        BY <1>1, <1>2 DEF Task
      <3>2. req' = [req EXCEPT ![r] = t]
        BY <2>1
      <3> QED
        BY <3>1, <3>2
    <2>2. CASE req' = [req EXCEPT ![r].answer = "unreachable"]
      <3> DEFINE t == [req[r] EXCEPT !.answer = "unreachable"]
      <3>1. /\ t.pc = req[r].pc /\ t.sid = req[r].sid /\ t.held = req[r].held
            /\ t.answer = "unreachable"
        BY <1>1, <1>2 DEF Task
      <3>2. req' = [req EXCEPT ![r] = t]
        BY <2>2
      <3> QED
        BY <3>1, <3>2
    <2> QED
      BY <2>1, <2>2 DEF AttemptFails
  <1>4. InProgress(t) => TaskOK(t, idp[t.sid])
    BY <1>1, <1>2, <1>3 DEF TaskOK, InProgress
  <1>5. \A i \in Sid : QuietTask(req[r], t, i)
    BY <1>1, <1>3 DEF QuietTask, Holds, Pending, InProgress
  <1> QED
    BY <1>1, <1>3, <1>4, <1>5, QuietMove DEF TokensNext

\* Nobody moves, or everybody is gone with the store; the IdP may have ended a
\* token or a login.
LEMMA QuietWorld ==
  ASSUME TokenInv, rotates' = rotates, lostReply' = lostReply, idp' \in [Sid -> Grant],
         \A s \in Sid :
           /\ idp'[s].minted = idp[s].minted
           /\ idp'[s].access \subseteq idp[s].access /\ idp'[s].refresh \subseteq idp[s].refresh
           /\ idp'[s].revoked \/ (idp'[s].refresh = idp[s].refresh /\ ~idp[s].revoked)
           /\ sessions'[s] \in {sessions[s], None},
         \/ req' = req
         \/ req' = [r \in Request |-> Idle] /\ \A s \in Sid : sessions'[s] = None
  PROVE  TokensNext
  <1>1. \A s \in Sid : Grows(idp[s], idp'[s])
    BY SessionAssumption DEF TokenInv, IInv, TypeOK, Grows, Grant
  <1>2. \A q \in Request : req'[q] = req[q] \/ req'[q] = Idle
    OBVIOUS
  <1>3. \A g : TaskOK(Idle, g)
    BY DEF TaskOK, Idle, InProgress
  <1>4. PairsOK'
    BY <1>1, <1>2, <1>3, PairsStep DEF TokenInv
  <1>5. ASSUME NEW s \in Sid
        PROVE  TokensOK(s)'
    <2>1. \A q \in Request : QuietTask(req[q], req'[q], s)
      BY DEF QuietTask, Holds, Pending, Idle, InProgress
    <2> QED
      BY <2>1, TokensKept DEF TokenInv
  <1> QED
    BY <1>4, <1>5 DEF TokensNext

LEMMA WorldTokens ==
  ASSUME TokenInv,
         \/ \E s \in Sid : AccessExpires(s) \/ IdpRevokes(s) \/ Logout(s)
         \/ Restart \/ Tick \/ UNCHANGED vars
  PROVE  TokensNext
  <1> DEFINE Same(s) == /\ idp'[s].minted = idp[s].minted
                        /\ idp'[s].access \subseteq idp[s].access
                        /\ idp'[s].refresh \subseteq idp[s].refresh
                        /\ idp'[s].revoked \/ (idp'[s].refresh = idp[s].refresh /\ ~idp[s].revoked)
  <1>1. idp' = idp => idp' \in [Sid -> Grant] /\ \A s \in Sid : Same(s)
    BY Zenon DEF TokenInv, IInv, TypeOK
  <1>2. ASSUME NEW s \in Sid, AccessExpires(s)
        PROVE  TokensNext
    <2>1. PICK g \in idp[s].access : idp' = [idp EXCEPT ![s].access = @ \ {g}]
      BY <1>2 DEF AccessExpires
    <2>2. idp' \in [Sid -> Grant] /\ \A i \in Sid : i # s => idp'[i] = idp[i]
      BY <2>1 DEF TokenInv, IInv, TypeOK, Grant
    <2>3. /\ idp'[s].access = idp[s].access \ {g}
          /\ idp'[s].minted = idp[s].minted /\ idp'[s].refresh = idp[s].refresh
          /\ idp'[s].revoked = idp[s].revoked
      BY <2>1 DEF TokenInv, IInv, TypeOK, Grant
    <2>4. \A i \in Sid : Same(i)
      BY <2>2, <2>3
    <2> QED
      BY <1>2, <2>2, <2>4, QuietWorld DEF AccessExpires
  <1>3. ASSUME NEW s \in Sid, IdpRevokes(s)
        PROVE  TokensNext
    <2>1. idp \in [Sid -> Grant] /\ idp[s] \in Grant
      BY DEF TokenInv, IInv, TypeOK
    <2> DEFINE ended == [idp[s] EXCEPT !.access = {}, !.refresh = {}, !.revoked = TRUE]
    <2>2. ended \in Grant
      BY <2>1 DEF Grant
    <2>3. /\ ended.access = {} /\ ended.refresh = {}
          /\ ended.minted = idp[s].minted /\ ended.revoked
      BY <2>1 DEF Grant
    <2>4. idp' = [idp EXCEPT ![s] = ended]
      BY <1>3, <2>1 DEF IdpRevokes
    <2> HIDE DEF ended
    <2>5. /\ idp' \in [Sid -> Grant] /\ idp'[s] = ended
          /\ \A i \in Sid : i # s => idp'[i] = idp[i]
      BY <2>1, <2>2, <2>4
    <2>6. \A i \in Sid : Same(i)
      BY <2>3, <2>5
    <2> QED
      BY <1>3, <2>5, <2>6, QuietWorld DEF IdpRevokes
  <1>4. ASSUME NEW s \in Sid, Logout(s)
        PROVE  TokensNext
    <2>1. UNCHANGED <<req, idp, rotates, lostReply>> /\ sessions' = Removed(sessions, s)
      BY <1>4 DEF Logout
    <2>2. \A i \in Sid : sessions'[i] \in {sessions[i], None}
      BY <2>1, RemovedAt DEF TokenInv, IInv, TypeOK
    <2> QED
      BY <1>1, <2>1, <2>2, QuietWorld
  <1>5. CASE Restart \/ Tick \/ UNCHANGED vars
    <2>1. UNCHANGED <<idp, rotates, lostReply>>
      BY <1>5 DEF Restart, Tick, vars
    <2>2. \/ req' = req /\ sessions' = sessions
          \/ req' = [r \in Request |-> Idle] /\ sessions' = [s \in Sid |-> None]
      BY <1>5 DEF Restart, Tick, vars
    <2> QED
      BY <1>1, <2>1, <2>2, QuietWorld
  <1> QED
    BY <1>2, <1>3, <1>4, <1>5

-----------------------------------------------------------------------------
(* Minting a token, and storing it.                                          *)

LEMMA MintedIs ==
  ASSUME NEW t, idp[t.sid] \in Grant
  PROVE  LET g == idp[t.sid] IN
         /\ Minted(t).minted = g.minted + 1
         /\ Minted(t).access = g.access \cup {g.minted + 1}
         /\ Minted(t).refresh = IF rotates THEN (g.refresh \ {t.held.refresh}) \cup {g.minted + 1}
                                           ELSE g.refresh
         /\ Minted(t).revoked = g.revoked
  <1> DEFINE g == idp[t.sid]
             n == g.minted + 1
             left == IF rotates THEN (g.refresh \ {t.held.refresh}) \cup {n} ELSE g.refresh
  <1>1. Minted(t) = [g EXCEPT !.minted = n, !.access = g.access \cup {n}, !.refresh = left]
    BY Zenon DEF Minted
  <1>2. g \in Grant
    OBVIOUS
  <1> HIDE DEF g, n, left
  <1>3. /\ Minted(t).minted = n /\ Minted(t).access = g.access \cup {n}
        /\ Minted(t).refresh = left /\ Minted(t).revoked = g.revoked
    BY <1>1, <1>2 DEF Grant
  <1> QED
    BY <1>3, Zenon DEF g, n, left

\* The new pair is newer than every pair there is; it is under way to the store,
\* or lost.
LEMMA MintTokens ==
  ASSUME TokenInv, NEW r \in Request, req[r].pc = "refresh", req[r].answer = "none",
         CanMint(req[r]), idp' = [idp EXCEPT ![req[r].sid] = Minted(req[r])],
         UNCHANGED <<sessions, rotates>>,
         NEW t, req' = [req EXCEPT ![r] = t],
         t.pc = "refresh" /\ t.sid = req[r].sid /\ t.held = req[r].held,
         lostReply \subseteq lostReply',
         \/ t.answer = "ok" /\ t.bundle = Refreshed(req[r])
         \/ t.answer \in {"none", "unreachable"} /\ req[r].sid \in lostReply'
  PROVE  TokensNext
  <1>0. PICK sid \in Sid : sid = req[r].sid
    BY InProgressFacts DEF TokenInv, Awaiting, InProgress
  <1> DEFINE g == idp[sid]
             n == g.minted + 1
             h == Minted(req[r])
  <1>1. /\ Awaiting(r) /\ sid \in Sid /\ g \in Grant /\ h \in Grant
        /\ ~g.revoked /\ ~h.revoked /\ req[r].held \in Session
        /\ TaskOK(req[r], g)
    <2>1. Awaiting(r)
      BY DEF Awaiting, InProgress
    <2> QED
      BY <1>0, <2>1, InProgressFacts, MintedGrant DEF TokenInv, PairsOK
  <1>2. /\ h.minted = n /\ h.access = g.access \cup {n}
        /\ h.refresh = IF rotates THEN (g.refresh \ {req[r].held.refresh}) \cup {n}
                                  ELSE g.refresh
    BY <1>0, <1>1, MintedIs
  <1>3. /\ idp' \in [Sid -> Grant] /\ idp'[sid] = h
        /\ \A s \in Sid : s # sid => idp'[s] = idp[s]
    BY <1>0, <1>1 DEF TokenInv, IInv, TypeOK
  <1>4. /\ req[r].held.refresh \in g.refresh /\ req[r].held.refresh \in Gen
        /\ g.refresh \subseteq Gen /\ g.minted \in Nat
    <2>1. g.minted \in Nat /\ g.refresh \subseteq Gen
      BY <1>1, SessionAssumption DEF Grant
    <2> QED
      BY <1>0, <2>1 DEF CanMint, RefreshLive
  <1>5. /\ Refreshed(req[r]).access = n
        /\ Refreshed(req[r]).refresh = IF rotates THEN n ELSE req[r].held.refresh
    BY <1>0 DEF Refreshed
  <1>6. \A q \in Request : req'[q] = IF q = r THEN t ELSE req[q]
    BY DEF TokenInv, IInv, TypeOK
  <1>7. req[r].held.refresh <= g.minted /\ req[r].held.access <= g.minted
        /\ req[r].held.access \notin g.access /\ req[r].held.access \in Gen
    BY <1>0, <1>1, <1>4, NoneIsNobody DEF TaskOK, Ours, Awaiting, Session
  <1> HIDE DEF g, n, h
  <1>8. n = g.minted + 1
    BY DEF n
  <1>9. \A s \in Sid : Grows(idp[s], idp'[s])
    <2> TAKE s \in Sid
    <2>1. CASE s = sid
      <3>1. Grows(g, h)
        BY <1>0, <1>2, <1>4, <1>8 DEF Grows, Gen
      <3> QED
        BY <1>0, <1>3, <2>1, <3>1 DEF g
    <2>2. CASE s # sid
      BY <1>0, <1>3, <2>2, SessionAssumption DEF TokenInv, IInv, TypeOK, Grows, Grant
    <2> QED
      BY <1>0, <2>1, <2>2
  <1>10. TaskOK(t, h)
    <2>1. Ours(t.held, h)
      BY <1>0, <1>2, <1>4, <1>7, <1>8 DEF Ours, Gen
    <2>2. t.held.access \notin h.access
      BY <1>0, <1>2, <1>4, <1>7, <1>8 DEF Gen
    <2>3. t.answer = "ok" => Ours(t.bundle, h)
      BY <1>0, <1>2, <1>4, <1>5, <1>7, <1>8 DEF Ours, Gen
    <2> QED
      BY <1>0, <2>1, <2>2, <2>3 DEF TaskOK
  <1>11. PairsOK'
    BY <1>0, <1>3, <1>6, <1>9, <1>10, PairsStep DEF TokenInv
  <1>12. ASSUME NEW s \in Sid, s # sid
         PROVE  TokensOK(s)'
    <2>1. \A q \in Request : QuietTask(req[q], req'[q], s)
      BY <1>0, <1>6, <1>12 DEF QuietTask, Holds, Pending
    <2>2. idp'[s] = idp[s] /\ idp[s] \in Grant
      BY <1>0, <1>3, <1>12 DEF TokenInv, IInv, TypeOK
    <2>3. idp'[s].revoked \/ (idp'[s].refresh = idp[s].refresh /\ ~idp[s].revoked)
      BY <1>0, <2>2, Zenon
    <2> QED
      BY <1>0, <2>1, <2>2, <2>3, TokensKept DEF TokenInv
  <1>13. TokensOK(sid)'
    <2> SUFFICES ASSUME sid \notin lostReply'
                 PROVE  IF rotates THEN RotatedOK(sid)' ELSE KeptOK(sid)'
      BY DEF TokensOK
    <2>1. /\ sid \notin lostReply /\ ~idp[sid].revoked
          /\ t.answer = "ok" /\ t.bundle = Refreshed(req[r])
      BY <1>0, <1>1 DEF g
    <2>2. /\ \A q \in Request : Holds(req'[q], sid) => Holds(req[q], sid) /\ req'[q].held = req[q].held
          /\ \A q \in Request : q # r => (Pending(req'[q], sid) <=> Pending(req[q], sid))
                                         /\ req'[q].bundle = req[q].bundle
          /\ Pending(req'[r], sid) /\ req'[r].bundle = Refreshed(req[r])
      BY <1>0, <1>1, <1>6, <2>1 DEF Holds, Pending, Awaiting
    <2>3. CASE rotates
      <3>1. RotatedOK(sid)
        BY <1>0, <2>1, <2>3 DEF TokenInv, TokensOK
      <3>2. g.refresh = {g.minted} /\ req[r].held.refresh = g.minted /\ Holds(req[r], sid)
        BY <1>0, <1>1, <1>4, <3>1 DEF RotatedOK, Holds, Awaiting, g
      <3>3. h.refresh = {n}
        BY <1>0, <1>2, <2>3, <3>2
      <3>4. \A q \in Request : ~Pending(req[q], sid)
        BY <3>1, <3>2 DEF RotatedOK, g
      <3>5. sessions[sid] # None => sessions[sid].refresh # n
        <4> SUFFICES ASSUME sessions[sid] # None PROVE sessions[sid].refresh # n
          OBVIOUS
        <4>1. sessions[sid] \in Session /\ Ours(sessions[sid], g)
          BY <1>0, <1>1 DEF TokenInv, IInv, TypeOK, PairsOK, g
        <4>2. n \in Nat /\ n > g.minted /\ n \in Gen
          BY <1>0, <1>1, <1>4, <1>8, SessionAssumption DEF CanMint, Gen, g
        <4> QED
          BY <1>0, <1>4, <4>1, <4>2, NoneIsNobody DEF Ours, Session, Gen
      <3>6. \A p \in Request : Holds(req[p], sid) => req[p].held.refresh # n
        <4> SUFFICES ASSUME NEW p \in Request, Holds(req[p], sid)
                     PROVE  req[p].held.refresh # n
          OBVIOUS
        <4>1. req[p].held \in Session /\ Ours(req[p].held, g)
          BY InProgressFacts DEF TokenInv, PairsOK, Holds, Awaiting, TaskOK, g
        <4>2. n \in Nat /\ n > g.minted /\ n \in Gen
          BY <1>0, <1>1, <1>4, <1>8, SessionAssumption DEF CanMint, Gen, g
        <4> QED
          BY <1>0, <1>4, <4>1, <4>2, NoneIsNobody DEF Ours, Session, Gen
      <3>7. req'[r].bundle.refresh = n
        BY <1>0, <1>5, <2>2, <2>3
      <3>8. RotatedOK(sid)'
        BY <1>0, <1>2, <1>3, <2>2, <3>3, <3>4, <3>5, <3>6, <3>7 DEF RotatedOK
      <3> QED
        BY <1>0, <2>3, <3>8
    <2>4. CASE ~rotates
      <3>1. KeptOK(sid)
        BY <1>0, <2>1, <2>4 DEF TokenInv, TokensOK
      <3>2. h.refresh = g.refresh /\ Refreshed(req[r]).refresh \in g.refresh
        BY <1>0, <1>2, <1>4, <1>5, <2>4
      <3>3. KeptOK(sid)'
        BY <1>0, <1>3, <2>2, <3>1, <3>2 DEF KeptOK, g
      <3> QED
        BY <1>0, <2>4, <3>3
    <2> QED
      BY <1>0, <2>3, <2>4
  <1> QED
    BY <1>0, <1>11, <1>12, <1>13 DEF TokensNext

LEMMA MintSteps ==
  ASSUME TokenInv, NEW r \in Request, AnswerRefresh(r) \/ AttemptFails(r)
  PROVE  TokensNext
  <1>1. /\ Awaiting(r) /\ req[r].answer = "none" /\ req[r] \in Task /\ req[r].sid \in Sid
        /\ UNCHANGED <<sessions, rotates>>
    <2>1. Awaiting(r) /\ req[r].answer = "none" /\ UNCHANGED <<sessions, rotates>>
      BY DEF AnswerRefresh, AttemptFails, Awaiting, InProgress
    <2> QED
      BY <2>1, InProgressFacts DEF TokenInv
  <1>2. CASE AnswerRefresh(r) /\ CanMint(req[r])
             /\ req' = [req EXCEPT ![r].answer = "ok", ![r].bundle = Refreshed(req[r])]
             /\ idp' = [idp EXCEPT ![req[r].sid] = Minted(req[r])]
    <2> DEFINE b == Refreshed(req[r])
               t == [req[r] EXCEPT !.answer = "ok", !.bundle = b]
    <2> HIDE DEF b
    <2>1. req[r].pc = "refresh" /\ lostReply' = lostReply
      BY <1>2 DEF AnswerRefresh
    <2>2. req' = [req EXCEPT ![r] = t]
      BY <1>1, <1>2 DEF b, TokenInv, IInv, TypeOK
    <2>3. /\ t.pc = "refresh" /\ t.sid = req[r].sid /\ t.held = req[r].held
          /\ t.answer = "ok" /\ t.bundle = b
      BY <1>1, <2>1 DEF Task
    <2> HIDE DEF t
    <2>4. t.bundle = Refreshed(req[r])
      BY <2>3 DEF b
    <2> QED
      BY <1>1, <1>2, <2>1, <2>2, <2>3, <2>4, MintTokens
  <1>3. CASE AnswerRefresh(r) /\ ~RefreshLive(req[r]) /\ UNCHANGED idp
             /\ req' = [req EXCEPT ![r].answer = "rejected"]
    BY <1>3, AnswerTokens
  <1>4. CASE AttemptFails(r) /\ UNCHANGED <<idp, lostReply>>
    BY <1>4, FailTokens
  <1>5. CASE AttemptFails(r) /\ req[r].pc = "refresh" /\ CanMint(req[r])
             /\ idp' = [idp EXCEPT ![req[r].sid] = Minted(req[r])]
             /\ lostReply' = lostReply \cup {req[r].sid}
    <2>1. PICK t : /\ req' = [req EXCEPT ![r] = t]
                   /\ t.pc = "refresh" /\ t.sid = req[r].sid /\ t.held = req[r].held
                   /\ t.answer \in {"none", "unreachable"}
      <3>1. CASE req' = [req EXCEPT ![r].attempt = @ + 1]
        <4> DEFINE t == [req[r] EXCEPT !.attempt = @ + 1]
        <4>1. t.pc = "refresh" /\ t.sid = req[r].sid /\ t.held = req[r].held /\ t.answer = "none"
          BY <1>1, <1>5 DEF Task
        <4>2. req' = [req EXCEPT ![r] = t]
          BY <3>1
        <4> QED
          BY <4>1, <4>2
      <3>2. CASE req' = [req EXCEPT ![r].answer = "unreachable"]
        <4> DEFINE t == [req[r] EXCEPT !.answer = "unreachable"]
        <4>1. /\ t.pc = "refresh" /\ t.sid = req[r].sid /\ t.held = req[r].held
              /\ t.answer = "unreachable"
          BY <1>1, <1>5 DEF Task
        <4>2. req' = [req EXCEPT ![r] = t]
          BY <3>2
        <4> QED
          BY <4>1, <4>2
      <3> QED
        BY <1>5, <3>1, <3>2 DEF AttemptFails
    <2> QED
      BY <1>1, <1>5, <2>1, MintTokens
  <1> QED
    BY <1>2, <1>3, <1>4, <1>5 DEF AnswerRefresh, AttemptFails

\* The pair that was under way is stored, and it is the last one minted.
LEMMA StoreTokens ==
  ASSUME TokenInv, NEW r \in Request, StoreRefreshed(r)
  PROVE  TokensNext
  <1>1. Awaiting(r) /\ req[r].pc = "refresh" /\ req[r].answer = "ok"
    BY DEF StoreRefreshed, Awaiting, InProgress
  <1>2. PICK sid \in Sid : sid = req[r].sid
    BY <1>1, InProgressFacts DEF TokenInv
  <1>3. /\ req[r].bundle \in TokenBundle /\ req[r].held \in Session /\ idp[sid] \in Grant
        /\ req[r] \in Task /\ TaskOK(req[r], idp[sid]) /\ Pending(req[r], sid)
    BY <1>1, <1>2, InProgressFacts DEF TokenInv, PairsOK, RequestOK, Task, Pending
  <1> DEFINE new == RefreshedSession(req[r])
             t == [req[r] EXCEPT !.pc = "recheck", !.held = new, !.bundle = None,
                                 !.answer = "none", !.attempt = 1]
  <1>4. /\ new \in Session /\ new.access = req[r].bundle.access
        /\ new.refresh = req[r].bundle.refresh
    BY <1>3 DEF RefreshedSession, Session, TokenBundle
  <1>5. /\ sessions' = Inserted(sessions, sid, new, clock)
        /\ req' = [req EXCEPT ![r] = t]
        /\ UNCHANGED <<idp, rotates, lostReply>>
    BY <1>1, <1>2, InProgressFacts DEF StoreRefreshed
  <1> HIDE DEF new
  <1>6. t.pc = "recheck" /\ t.held = new /\ t.answer = "none" /\ t.sid = sid
    BY <1>2, <1>3 DEF Task
  <1> HIDE DEF t
  <1>7. /\ sessions' \in [Sid -> Session \cup {None}] /\ sessions'[sid] = new
        /\ \A s \in Sid : s # sid => sessions'[s] \in {sessions[s], None}
    BY <1>4, <1>5, StoredAt DEF TokenInv, IInv, TypeOK
  <1>8. \A q \in Request : req'[q] = IF q = r THEN t ELSE req[q]
    BY <1>5 DEF TokenInv, IInv, TypeOK
  <1>9. Ours(new, idp[sid])
    BY <1>1, <1>3, <1>4 DEF TaskOK, Ours, InProgress
  <1>10. PairsOK'
    <2>1. \A s \in Sid : Grows(idp[s], idp'[s])
      BY <1>5, SessionAssumption DEF TokenInv, IInv, TypeOK, Grows, Grant
    <2>2. TaskOK(t, idp[sid])
      BY <1>6, <1>9 DEF TaskOK
    <2> QED
      BY <1>5, <1>6, <1>7, <1>8, <1>9, <2>1, <2>2, PairsStep DEF TokenInv, IInv, TypeOK
  <1>11. ASSUME NEW s \in Sid, s # sid
         PROVE  TokensOK(s)'
    <2>1. \A q \in Request : QuietTask(req[q], req'[q], s)
      BY <1>2, <1>6, <1>8, <1>11 DEF QuietTask, Holds, Pending
    <2>2. idp' = idp
      BY <1>5
    <2>3. idp'[s].revoked \/ (idp'[s].refresh = idp[s].refresh /\ ~idp[s].revoked)
      BY <2>2, Zenon
    <2> QED
      BY <1>5, <1>7, <1>11, <2>1, <2>3, TokensKept DEF TokenInv
  <1>12. TokensOK(sid)'
    <2> SUFFICES ASSUME ~idp[sid].revoked, sid \notin lostReply
                 PROVE  IF rotates THEN RotatedOK(sid)' ELSE KeptOK(sid)'
      BY <1>5 DEF TokensOK
    <2>1. CASE rotates
      <3>1. RotatedOK(sid)
        BY <2>1 DEF TokenInv, TokensOK
      <3>2. new.refresh = idp[sid].minted /\ idp[sid].minted \in idp[sid].refresh
        BY <1>3, <1>4, <3>1 DEF RotatedOK
      <3>3. \A q \in Request : ~Pending(req'[q], sid)
        BY <1>3, <1>6, <1>8, <3>1 DEF RotatedOK, Pending
      <3>4. RotatedOK(sid)'
        BY <1>5, <1>7, <3>1, <3>2, <3>3 DEF RotatedOK
      <3> QED
        BY <2>1, <3>4
    <2>2. CASE ~rotates
      <3>1. KeptOK(sid)
        BY <2>2 DEF TokenInv, TokensOK
      <3>2. new.refresh \in idp[sid].refresh
        BY <1>3, <1>4, <3>1 DEF KeptOK
      <3>3. KeptOK(sid)'
        BY <1>5, <1>6, <1>7, <1>8, <3>1, <3>2 DEF KeptOK, Holds, Pending
      <3> QED
        BY <2>2, <3>3
    <2> QED
      BY <2>1, <2>2
  <1> QED
    BY <1>10, <1>11, <1>12 DEF TokensNext

\* The first pair of a login is the IdP's only one.
LEMMA LoginTokens ==
  ASSUME TokenInv, NEW sid \in Sid, NEW offline \in BOOLEAN, LoginCompleted(sid, offline)
  PROVE  TokensNext
  <1> DEFINE refresh == IF offline THEN 1 ELSE None
             e == [access |-> 1, refresh |-> refresh, created |-> clock]
             g == [minted |-> 1, access |-> {1}, refresh |-> IF offline THEN {1} ELSE {},
                   offline |-> offline, revoked |-> FALSE]
  <1>1. /\ idp[sid].minted = 0 /\ idp[sid] \in Grant
        /\ idp' = [idp EXCEPT ![sid] = g]
        /\ sessions' = Inserted(sessions, sid, e, clock)
        /\ UNCHANGED <<req, rotates, lostReply>>
    BY DEF LoginCompleted, TokenInv, IInv, TypeOK
  <1>2. e \in Session /\ g \in Grant
    BY SessionAssumption DEF Session, Grant, Gen, TokenInv, IInv, TypeOK
  <1>3. /\ g.minted = 1 /\ e.access = 1 /\ e.refresh \in g.refresh \cup {None}
        /\ (e.refresh # None => e.refresh = 1) /\ g.refresh \subseteq {1}
    OBVIOUS
  <1> HIDE DEF e, g, refresh
  <1>4. /\ sessions' \in [Sid -> Session \cup {None}] /\ sessions'[sid] = e
        /\ \A s \in Sid : s # sid => sessions'[s] \in {sessions[s], None}
    BY <1>1, <1>2, StoredAt DEF TokenInv, IInv, TypeOK
  <1>5. /\ idp' \in [Sid -> Grant] /\ idp'[sid] = g
        /\ \A s \in Sid : s # sid => idp'[s] = idp[s]
    BY <1>1, <1>2 DEF TokenInv, IInv, TypeOK
  <1>6. \A q \in Request : ~Holds(req[q], sid)
    BY <1>1 DEF TokenInv, IInv, RequestOK, Holds
  <1>7. PairsOK'
    <2>1. ASSUME NEW s \in Sid PROVE Grows(idp[s], idp'[s])
      <3>1. CASE s = sid
        BY <1>1, <1>3, <1>5, <3>1 DEF Grows, Gen
      <3>2. CASE s # sid
        BY <1>5, <3>2, SessionAssumption DEF TokenInv, IInv, TypeOK, Grows, Grant
      <3> QED
        BY <3>1, <3>2
    <2>2. Ours(e, g)
      BY <1>3 DEF Ours
    <2> QED
      BY <1>1, <1>4, <1>5, <2>1, <2>2, PairsStep DEF TokenInv
  <1>8. ASSUME NEW s \in Sid, s # sid
        PROVE  TokensOK(s)'
    <2>1. \A q \in Request : QuietTask(req[q], req'[q], s)
      BY <1>1 DEF QuietTask
    <2>2. idp'[s] = idp[s] /\ idp[s] \in Grant
      BY <1>5, <1>8 DEF TokenInv, IInv, TypeOK
    <2>3. idp'[s].revoked \/ (idp'[s].refresh = idp[s].refresh /\ ~idp[s].revoked)
      BY <2>2, Zenon
    <2> QED
      BY <1>1, <1>4, <1>8, <2>1, <2>2, <2>3, TokensKept DEF TokenInv
  <1>9. TokensOK(sid)'
    <2>1. \A q \in Request : ~Holds(req'[q], sid) /\ ~Pending(req'[q], sid)
      BY <1>1, <1>6 DEF Holds, Pending, InProgress
    <2>2. RotatedOK(sid)' /\ KeptOK(sid)'
      BY <1>3, <1>4, <1>5, <2>1 DEF RotatedOK, KeptOK
    <2> QED
      BY <2>2 DEF TokensOK
  <1> QED
    BY <1>7, <1>8, <1>9 DEF TokensNext

LEMMA TokenStep == TokenInv /\ [Next]_vars => TokenInv'
  <1> SUFFICES ASSUME TokenInv, [Next]_vars PROVE TokenInv'
    OBVIOUS
  <1>1. IInv'
    BY InvStep DEF TokenInv
  <1>2. ASSUME NEW r \in Request, NEW s \in Sid, Begin(r, s) PROVE TokensNext
    BY <1>2, BeginTokens
  <1>3. ASSUME NEW r \in Request, Handler(r) PROVE TokensNext
    BY <1>3, EndSteps, TryRefreshTokens, StoreTokens DEF Handler
  <1>4. ASSUME NEW r \in Request, AnswerUserinfo(r) \/ AnswerRefresh(r) \/ AttemptFails(r)
        PROVE  TokensNext
    BY <1>4, AnswerTokens, MintSteps
  <1>5. ASSUME NEW r \in Request, Cancel(r) PROVE TokensNext
    BY <1>5, EndSteps
  <1>6. ASSUME NEW s \in Sid, NEW offline \in BOOLEAN, LoginCompleted(s, offline)
        PROVE  TokensNext
    BY <1>6, LoginTokens
  <1>7. ASSUME NEW s \in Sid, Logout(s) \/ AccessExpires(s) \/ IdpRevokes(s) PROVE TokensNext
    BY <1>7, WorldTokens
  <1>8. Restart \/ Tick => TokensNext
    BY WorldTokens
  <1>9. UNCHANGED vars => TokensNext
    BY WorldTokens
  <1>10. TokensNext
    BY <1>2, <1>3, <1>4, <1>5, <1>6, <1>7, <1>8, <1>9 DEF Next
  <1> QED
    BY <1>1, <1>10 DEF TokenInv, TokensNext

\* Where every refresh token is, in every reachable state.
THEOREM TokensInductive == Spec => []TokenInv
  <1>1. Init => TokenInv
    BY InitInv, TokenInit DEF TokenInv
  <1> QED
    BY <1>1, TokenStep, PTL DEF Spec

\* The stored refresh token is one the IdP still takes, unless the one that
\* replaced it is about to be stored or was lost on the way
\* (client.rs:230-249, web.rs:130-166).
THEOREM TokensAccounted == Spec => []SpentTokenIsAccountedFor
  <1>1. TokenInv => SpentTokenIsAccountedFor
    BY DEF TokenInv, TokensOK, RotatedOK, KeptOK, Pending, SpentTokenIsAccountedFor
  <1> QED
    BY <1>1, TokensInductive, PTL

\* A refused logout changes nothing: a request from elsewhere is refused.
LEMMA OnlyOurPagesLogOut ==
  ASSUME NEW s \in Sid, Logout(s)
  PROVE  s \in loggedOut'
  BY DEF Logout, FromThisSite, SecFetchSite, Origin

\* A request gives up on a session whose tokens the IdP rejected, or which it
\* could not reach.
LEMMA GaveUpForAReason ==
  ASSUME TokenInv, NEW r \in Request, GiveUp(r)
  PROVE  RequestFoundItDead(r, req[r].sid)
  <1>1. /\ Awaiting(r) /\ req[r] \in Task /\ TaskOK(req[r], idp[req[r].sid])
        /\ req' = [req EXCEPT ![r] = Answered(req[r], "anonymous")]
    <2>1. Awaiting(r)
      BY DEF GiveUp, NothingLeftToTry, Awaiting, InProgress
    <2> QED
      BY <2>1, InProgressFacts DEF GiveUp, TokenInv, PairsOK
  <1>2. req'[r].outcome = "anonymous"
    BY <1>1, AnsweredTask DEF TokenInv, IInv, TypeOK
  <1>3. \/ req[r].answer = "unreachable"
        \/ /\ ~AccessLive(req[r])
           /\ req[r].pc = "recheck" \/ req[r].held.refresh = None \/ ~RefreshLive(req[r])
    BY <1>1 DEF GiveUp, NothingLeftToTry, TaskOK, Awaiting, AccessLive, RefreshLive
  <1> QED
    BY <1>1, <1>2, <1>3 DEF RequestFoundItDead

\* An insert that removes a session found it past its age.
LEMMA SweptForAge ==
  ASSUME NEW m \in [Sid -> Session \cup {None}], NEW j \in Sid, NEW e \in Session, NEW now,
         NEW s \in Sid, m[s] # None, Inserted(m, j, e, now)[s] = None
  PROVE  ~Live(m[s], now)
  <1>1. s # j
    BY StoredAt, NoneIsNobody
  <1>2. Inserted(m, j, e, now)[s] = Lookup(m, s, now)
    BY <1>1 DEF Inserted, Swept
  <1> QED
    BY <1>2 DEF Lookup

LEMMA EndsForAReason ==
  ASSUME TokenInv, [Next]_vars, NEW s \in Sid, sessions[s] # None, sessions'[s] = None
  PROVE  \/ ~Live(sessions[s], clock)
         \/ s \in loggedOut'
         \/ Restart
         \/ \E r \in Request : RequestFoundItDead(r, s)
  <1>1. sessions' # sessions /\ sessions \in [Sid -> Session \cup {None}] /\ clock \in Time
    BY DEF TokenInv, IInv, TypeOK
  <1>2. ASSUME NEW r \in Request, Handler(r) \/ Cancel(r)
        PROVE  GiveUp(r) \/ StoreRefreshed(r)
    BY <1>1, <1>2 DEF Handler, ReturnPrincipal, TryRefresh, Finish, Cancel
  <1>3. ASSUME NEW r \in Request, GiveUp(r)
        PROVE  RequestFoundItDead(r, s)
    <2>1. Awaiting(r)
      BY <1>3 DEF GiveUp, NothingLeftToTry, Awaiting, InProgress
    <2>2. sessions' = Removed(sessions, req[r].sid) /\ req[r].sid \in Sid
      BY <1>3, <2>1, InProgressFacts DEF GiveUp, TokenInv
    <2>3. req[r].sid = s
      BY <1>1, <2>2, RemovedAt
    <2> QED
      BY <1>3, <2>3, GaveUpForAReason
  <1>4. ASSUME NEW r \in Request, StoreRefreshed(r)
        PROVE  ~Live(sessions[s], clock)
    <2>1. /\ Awaiting(r) /\ req[r].pc = "refresh" /\ req[r].answer = "ok"
          /\ sessions' = Inserted(sessions, req[r].sid, RefreshedSession(req[r]), clock)
      BY <1>4 DEF StoreRefreshed, Awaiting, InProgress
    <2>2. /\ req[r].sid \in Sid /\ req[r].bundle \in TokenBundle /\ req[r].held \in Session
      BY <2>1, InProgressFacts DEF TokenInv, RequestOK, Task
    <2>3. RefreshedSession(req[r]) \in Session
      BY <2>2 DEF RefreshedSession, Session, TokenBundle
    <2> QED
      BY <1>1, <2>1, <2>2, <2>3, SweptForAge
  <1>5. ASSUME NEW i \in Sid, NEW offline \in BOOLEAN, LoginCompleted(i, offline)
        PROVE  ~Live(sessions[s], clock)
    <2> DEFINE e == [access |-> 1, refresh |-> IF offline THEN 1 ELSE None, created |-> clock]
    <2>1. e \in Session
      BY <1>1, SessionAssumption DEF Session, Gen
    <2>2. sessions' = Inserted(sessions, i, e, clock)
      BY <1>5 DEF LoginCompleted
    <2> HIDE DEF e
    <2> QED
      BY <1>1, <2>1, <2>2, SweptForAge
  <1>6. ASSUME NEW i \in Sid, Logout(i)
        PROVE  s \in loggedOut'
    <2>1. sessions' = Removed(sessions, i)
      BY <1>6 DEF Logout
    <2>2. i = s
      BY <1>1, <2>1, RemovedAt
    <2> QED
      BY <1>6, <2>2, OnlyOurPagesLogOut
  <1>7. ASSUME NEW r \in Request, NEW i \in Sid, Begin(r, i)
        PROVE  FALSE
    BY <1>1, <1>7 DEF Begin
  <1>8. ASSUME NEW r \in Request, AnswerUserinfo(r) \/ AnswerRefresh(r) \/ AttemptFails(r)
        PROVE  FALSE
    BY <1>1, <1>8 DEF AnswerUserinfo, AnswerRefresh, AttemptFails
  <1>9. ASSUME NEW i \in Sid, AccessExpires(i) \/ IdpRevokes(i)
        PROVE  FALSE
    BY <1>1, <1>9 DEF AccessExpires, IdpRevokes
  <1>10. ~Tick /\ ~UNCHANGED vars
    BY <1>1 DEF Tick, vars
  <1> QED
    BY <1>2, <1>3, <1>4, <1>5, <1>6, <1>7, <1>8, <1>9, <1>10 DEF Next

\* A session is never just gone: it was too old, its user logged out, the
\* process restarted, or the IdP rejected what it held or could not be asked
\* (web.rs:130-166 and 250-287, store.rs:84-95).
THEOREM EndsHaveReasons == Spec => SessionEndsForAReason
  <1>1. TokenInv /\ [Next]_vars =>
          [\A s \in Sid : sessions[s] # None /\ sessions'[s] = None =>
             \/ ~Live(sessions[s], clock)
             \/ s \in loggedOut'
             \/ Restart
             \/ \E r \in Request : RequestFoundItDead(r, s)]_vars
    BY EndsForAReason
  <1> QED
    BY <1>1, TokensInductive, PTL DEF Spec, SessionEndsForAReason
=============================================================================
