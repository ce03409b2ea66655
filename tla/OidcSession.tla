---------------------------- MODULE OidcSession ----------------------------
(* The life of an established session in common-oidc: `resolve_session`,     *)
(* which every authenticated request runs, `logout`, the session the login   *)
(* callback stores, the in-memory store behind them and the identity         *)
(* provider they talk to.                                                    *)
(*                                                                           *)
(* A request is one axum task. It touches the store in single steps and      *)
(* awaits the IdP between them, so requests interleave at every await; a     *)
(* client that disconnects drops the task at an await. The IdP decides a     *)
(* call in one step and the request sees the answer in a later one.          *)
(*                                                                           *)
(* The tokens of one login are numbered by generation: the pair the login    *)
(* returned is 1, and every refresh mints the next number.                   *)
EXTENDS Expiring

CONSTANTS Request,      \* concurrent requests
          Sid,          \* session ids; each is issued at most once (a UUID pair)
          MaxAttempts,  \* attempts of one IdP call inside the budget (retry.rs: 4)
          MaxClock,     \* bound: the instants of the model
          MaxGen        \* bound: token generations of one login

Time == 0..MaxClock
Gen == 1..MaxGen

ASSUME SessionAssumption ==
  /\ MaxAge \in Nat /\ MaxClock \in Nat
  /\ MaxGen \in Nat \ {0} /\ MaxAttempts \in Nat \ {0}
  /\ None \notin Sid
  /\ None \notin Gen
  /\ None \notin [access : Gen, refresh : Gen \cup {None}]
  /\ None \notin [access : Gen, refresh : Gen \cup {None}, created : Time]

VARIABLES sessions,   \* the MemoryStore's map
          clock,      \* SystemTime, taken as monotonic here (ExpiringStore lets it step back)
          req,        \* the requests in progress
          idp,        \* what the IdP knows of each login's tokens
          rotates,    \* whether the IdP replaces a refresh token when it is used
          loginAt,    \* history: when the session was established
          loggedOut,  \* history: the sessions a user logged out of
          lostReply   \* history: sessions with a refresh reply that reached nobody

vars == <<sessions, clock, req, idp, rotates, loginAt, loggedOut, lostReply>>

Session == [access : Gen, refresh : Gen \cup {None}, created : Time]
TokenBundle == [access : Gen, refresh : Gen \cup {None}]
Grant ==
  [minted : 0..MaxGen, access : SUBSET Gen, refresh : SUBSET Gen,
   offline : BOOLEAN, revoked : BOOLEAN]

\* pc names the await the request is at; `attempt` and `answer` belong to the
\* IdP call it awaits, `bundle` is the reply of a refresh.
Task ==
  [pc : {"idle", "userinfo", "refresh", "recheck", "done"},
   sid : Sid \cup {None},
   held : Session \cup {None},
   attempt : 1..MaxAttempts,
   answer : {"none", "ok", "rejected", "unreachable"},
   bundle : TokenBundle \cup {None},
   outcome : {"none", "principal", "anonymous"},
   begunAt : Time,
   begunRevoked : BOOLEAN]

Idle ==
  [pc |-> "idle", sid |-> None, held |-> None, attempt |-> 1, answer |-> "none",
   bundle |-> None, outcome |-> "none", begunAt |-> 0, begunRevoked |-> FALSE]

Unissued ==
  [minted |-> 0, access |-> {}, refresh |-> {}, offline |-> FALSE, revoked |-> FALSE]

TypeOK ==
  /\ sessions \in [Sid -> Session \cup {None}]
  /\ clock \in Time
  /\ req \in [Request -> Task]
  /\ idp \in [Sid -> Grant]
  /\ rotates \in BOOLEAN
  /\ loginAt \in [Sid -> Time]
  /\ loggedOut \subseteq Sid
  /\ lostReply \subseteq Sid

Init ==
  /\ sessions = [s \in Sid |-> None]
  /\ clock = 0
  /\ req = [r \in Request |-> Idle]
  /\ idp = [s \in Sid |-> Unissued]
  /\ rotates \in BOOLEAN
  /\ loginAt = [s \in Sid |-> 0]
  /\ loggedOut = {}
  /\ lostReply = {}

\* The task's response is decided: only its outcome is left.
Answered(t, outcome) ==
  [t EXCEPT !.pc = "done", !.outcome = outcome, !.held = None, !.attempt = 1,
            !.answer = "none", !.bundle = None]

-----------------------------------------------------------------------------
(* The identity provider, as the calls in client.rs see it.                  *)

InProgress(t) == t.pc \in {"userinfo", "refresh", "recheck"}

Awaiting(r) == InProgress(req[r])

\* What a request's token still is at the IdP.
AccessLive(t) == t.held.access \in idp[t.sid].access
RefreshLive(t) == t.held.refresh \in idp[t.sid].refresh

\* The IdP mints the next pair for the refresh token the request presented: a
\* rotating one spends that token and returns its successor, another returns
\* none and the old one stays good.
Minted(t) ==
  LET g == idp[t.sid] IN
  LET n == g.minted + 1 IN
  [g EXCEPT !.minted = n,
            !.access = @ \cup {n},
            !.refresh = IF rotates THEN (@ \ {t.held.refresh}) \cup {n} ELSE @]

\* client.rs `refresh`: an IdP that returns no refresh token leaves us the one
\* we have.
Refreshed(t) ==
  [access  |-> idp[t.sid].minted + 1,
   refresh |-> IF rotates THEN idp[t.sid].minted + 1 ELSE t.held.refresh]

CanMint(t) == RefreshLive(t) /\ idp[t.sid].minted < MaxGen

\* client.rs `principal_from_access_token` and `classify_userinfo`: a 401 or
\* 403 is a rejection; every other failure is AttemptFails below.
AnswerUserinfo(r) ==
  /\ req[r].pc \in {"userinfo", "recheck"}
  /\ req[r].answer = "none"
  /\ req' = [req EXCEPT ![r].answer = IF AccessLive(req[r]) THEN "ok" ELSE "rejected"]
  /\ UNCHANGED <<sessions, clock, idp, rotates, loginAt, loggedOut, lostReply>>

\* client.rs `refresh`: an error response of the token endpoint is a rejection.
AnswerRefresh(r) ==
  /\ req[r].pc = "refresh"
  /\ req[r].answer = "none"
  /\ \/ /\ CanMint(req[r])
        /\ req' = [req EXCEPT ![r].answer = "ok", ![r].bundle = Refreshed(req[r])]
        /\ idp' = [idp EXCEPT ![req[r].sid] = Minted(req[r])]
     \/ /\ ~RefreshLive(req[r])
        /\ req' = [req EXCEPT ![r].answer = "rejected"]
        /\ UNCHANGED idp
  /\ UNCHANGED <<sessions, clock, rotates, loginAt, loggedOut, lostReply>>

\* Mutant: a hung call is retried for ever.
AttemptFailsForever(r) ==
  /\ Awaiting(r)
  /\ req[r].answer = "none"
  /\ UNCHANGED vars

\* retry.rs `within`: an attempt ends in a transport error, a 5xx or the one
\* second timeout, and is tried again while attempts and budget last. The
\* budget may be spent after any attempt. A refresh that timed out may have
\* been processed: only its reply is lost.
AttemptFails(r) ==
  /\ Awaiting(r)
  /\ req[r].answer = "none"
  /\ \/ /\ req[r].attempt < MaxAttempts
        /\ req' = [req EXCEPT ![r].attempt = @ + 1]
     \/ req' = [req EXCEPT ![r].answer = "unreachable"]
  /\ \/ UNCHANGED <<idp, lostReply>>
     \/ /\ req[r].pc = "refresh" /\ CanMint(req[r])
        /\ idp' = [idp EXCEPT ![req[r].sid] = Minted(req[r])]
        /\ lostReply' = lostReply \cup {req[r].sid}
  /\ UNCHANGED <<sessions, clock, rotates, loginAt, loggedOut>>

\* An access token reaches its expiry at the IdP.
AccessExpires(s) ==
  /\ \E g \in idp[s].access : idp' = [idp EXCEPT ![s].access = @ \ {g}]
  /\ UNCHANGED <<sessions, clock, req, rotates, loginAt, loggedOut, lostReply>>

\* The IdP ends the login: the user is disabled, or logs out there and the
\* IdP revokes refresh tokens too (the precondition of
\* config.rs `request_refresh_tokens`).
IdpRevokes(s) ==
  /\ idp[s].minted > 0 /\ ~idp[s].revoked
  /\ idp' = [idp EXCEPT ![s].access = {}, ![s].refresh = {}, ![s].revoked = TRUE]
  /\ UNCHANGED <<sessions, clock, req, rotates, loginAt, loggedOut, lostReply>>

-----------------------------------------------------------------------------
(* resolve_session, one step from await to await.                            *)

\* The request arrives with a session cookie. No live entry: anonymous at
\* once. Otherwise the first userinfo call is awaited. (A request without the
\* cookie returns before it touches anything.)
Begun(s, found) ==
  [pc |-> IF found = None THEN "done" ELSE "userinfo",
   sid |-> s, held |-> found, attempt |-> 1, answer |-> "none", bundle |-> None,
   outcome |-> IF found = None THEN "anonymous" ELSE "none",
   begunAt |-> clock, begunRevoked |-> idp[s].revoked]

Begin(r, s) ==
  /\ req[r].pc = "idle"
  /\ req' = [req EXCEPT ![r] = Begun(s, Lookup(sessions, s, clock))]
  /\ UNCHANGED <<sessions, clock, idp, rotates, loginAt, loggedOut, lostReply>>

\* Mutant: an IdP that cannot be reached counts as a confirmation.
ReturnPrincipalFailOpen(r) ==
  /\ req[r].pc \in {"userinfo", "recheck"}
  /\ req[r].answer \in {"ok", "unreachable"}
  /\ req' = [req EXCEPT ![r] = Answered(@, "principal")]
  /\ UNCHANGED <<sessions, clock, idp, rotates, loginAt, loggedOut, lostReply>>

\* Mutant: a sliding session, stored again at every use.
ReturnPrincipalTouch(r) ==
  /\ req[r].pc \in {"userinfo", "recheck"}
  /\ req[r].answer = "ok"
  /\ sessions' = Inserted(sessions, req[r].sid, req[r].held, clock)
  /\ req' = [req EXCEPT ![r] = Answered(@, "principal")]
  /\ UNCHANGED <<clock, idp, rotates, loginAt, loggedOut, lostReply>>

\* Userinfo confirmed the identity, first time or after a refresh.
ReturnPrincipal(r) ==
  /\ req[r].pc \in {"userinfo", "recheck"}
  /\ req[r].answer = "ok"
  /\ req' = [req EXCEPT ![r] = Answered(@, "principal")]
  /\ UNCHANGED <<sessions, clock, idp, rotates, loginAt, loggedOut, lostReply>>

\* Userinfo rejected the access token and there is a refresh token to try.
TryRefresh(r) ==
  /\ req[r].pc = "userinfo"
  /\ req[r].answer = "rejected"
  /\ req[r].held.refresh # None
  /\ req' = [req EXCEPT ![r].pc = "refresh", ![r].answer = "none", ![r].attempt = 1]
  /\ UNCHANGED <<sessions, clock, idp, rotates, loginAt, loggedOut, lostReply>>

\* Mutant: the refreshed session starts a new lifetime.
RefreshedSessionRestarted(t) ==
  [access |-> t.bundle.access, refresh |-> t.bundle.refresh, created |-> clock]

\* Mutant: the refresh token that was just used is kept.
RefreshedSessionOldToken(t) ==
  [access |-> t.bundle.access, refresh |-> t.held.refresh, created |-> t.held.created]

RefreshedSession(t) ==
  [access |-> t.bundle.access, refresh |-> t.bundle.refresh, created |-> t.held.created]

\* The refresh succeeded: the session is stored under the same id, whatever
\* happened to that id since it was read, and the new access token is checked.
StoreRefreshed(r) ==
  /\ req[r].pc = "refresh"
  /\ req[r].answer = "ok"
  /\ LET fresh == RefreshedSession(req[r]) IN
     /\ sessions' = Inserted(sessions, req[r].sid, fresh, clock)
     /\ req' = [req EXCEPT ![r].pc = "recheck", ![r].held = fresh,
                           ![r].bundle = None, ![r].answer = "none", ![r].attempt = 1]
  /\ UNCHANGED <<clock, idp, rotates, loginAt, loggedOut, lostReply>>

\* Mutant: the refresh is never tried.
NothingLeftToTryNoRefresh(t) == t.pc = "userinfo" /\ t.answer \in {"rejected", "unreachable"}

\* The IdP could not be reached within the budget, or everything it could be
\* asked was rejected.
NothingLeftToTry(t) ==
  \/ t.pc = "userinfo" /\ t.answer = "unreachable"
  \/ t.pc = "userinfo" /\ t.answer = "rejected" /\ t.held.refresh = None
  \/ t.pc \in {"refresh", "recheck"} /\ t.answer \in {"rejected", "unreachable"}

GiveUp(r) ==
  /\ NothingLeftToTry(req[r])
  /\ sessions' = Removed(sessions, req[r].sid)
  /\ req' = [req EXCEPT ![r] = Answered(@, "anonymous")]
  /\ UNCHANGED <<clock, idp, rotates, loginAt, loggedOut, lostReply>>

\* The response is sent and the task ends.
Finish(r) ==
  /\ req[r].pc = "done"
  /\ req' = [req EXCEPT ![r] = Idle]
  /\ UNCHANGED <<sessions, clock, idp, rotates, loginAt, loggedOut, lostReply>>

\* The client disconnects and the task is dropped at its await. A refresh the
\* IdP already answered is lost with it.
Cancel(r) ==
  /\ Awaiting(r)
  /\ req' = [req EXCEPT ![r] = Idle]
  /\ lostReply' = IF req[r].pc = "refresh" /\ req[r].answer = "ok"
                  THEN lostReply \cup {req[r].sid} ELSE lostReply
  /\ UNCHANGED <<sessions, clock, idp, rotates, loginAt, loggedOut>>

-----------------------------------------------------------------------------
(* The other users of the store, and the environment.                        *)

\* web.rs `callback`, its last part: the code exchange returned a pair of
\* tokens and the session is stored under a fresh id. `offline` is whether the
\* pair has a refresh token. OidcLogin models what comes before.
LoginCompleted(s, offline) ==
  /\ idp[s].minted = 0
  /\ idp' = [idp EXCEPT ![s] =
                [minted |-> 1, access |-> {1}, refresh |-> IF offline THEN {1} ELSE {},
                 offline |-> offline, revoked |-> FALSE]]
  /\ sessions' = Inserted(sessions, s,
                    [access |-> 1, refresh |-> IF offline THEN 1 ELSE None, created |-> clock],
                    clock)
  /\ loginAt' = [loginAt EXCEPT ![s] = clock]
  /\ UNCHANGED <<clock, req, rotates, loggedOut, lostReply>>

\* The headers a browser may send with a POST from the app's own pages or from
\* elsewhere: fetch metadata, an Origin, or neither.
SecFetchSite == [app |-> {"same-origin", "absent"}, elsewhere |-> {"cross-site", "absent"}]
Origin == [app |-> {"app", "absent"}, elsewhere |-> {"foreign", "absent"}]

\* Mutant: a request without either header passes.
FromThisSiteLenient(site, origin) ==
  IF site # "absent" THEN site = "same-origin" ELSE origin # "foreign"

\* web.rs `from_this_site`: the fetch metadata decides when it is there, the
\* Origin otherwise, and neither is a refusal.
FromThisSite(site, origin) ==
  IF site # "absent" THEN site = "same-origin" ELSE origin = "app"

\* web.rs `logout`. A refused one changes nothing, so only the accepted one is
\* a step; `loggedOut` records the users who asked for it themselves.
Logout(s) ==
  /\ \E from \in {"app", "elsewhere"} :
     \E site \in SecFetchSite[from], origin \in Origin[from] :
       /\ FromThisSite(site, origin)
       /\ loggedOut' = IF from = "app" THEN loggedOut \cup {s} ELSE loggedOut
  /\ idp[s].minted > 0
  /\ sessions' = Removed(sessions, s)
  /\ UNCHANGED <<clock, req, idp, rotates, loginAt, lostReply>>

\* The process restarts: the in-memory store is empty, every task is gone.
\* Browsers keep their cookies and the IdP its tokens.
Restart ==
  /\ sessions' = [s \in Sid |-> None]
  /\ req' = [r \in Request |-> Idle]
  /\ UNCHANGED <<clock, idp, rotates, loginAt, loggedOut, lostReply>>

Tick ==
  /\ clock < MaxClock
  /\ clock' = clock + 1
  /\ UNCHANGED <<sessions, req, idp, rotates, loginAt, loggedOut, lostReply>>

Handler(r) ==
  \/ ReturnPrincipal(r) \/ TryRefresh(r) \/ StoreRefreshed(r) \/ GiveUp(r) \/ Finish(r)

Next ==
  \/ \E r \in Request, s \in Sid : Begin(r, s)
  \/ \E r \in Request : Handler(r)
  \/ \E r \in Request : AnswerUserinfo(r) \/ AnswerRefresh(r) \/ AttemptFails(r)
  \/ \E r \in Request : Cancel(r)
  \/ \E s \in Sid, offline \in BOOLEAN : LoginCompleted(s, offline)
  \/ \E s \in Sid : Logout(s) \/ AccessExpires(s) \/ IdpRevokes(s)
  \/ Restart
  \/ Tick

Spec == Init /\ [][Next]_vars

\* The runtime polls every ready task, and the one-second timeout around every
\* attempt fires whatever the IdP does. The IdP itself owes nothing.
FairSpec ==
  /\ Spec
  /\ \A r \in Request : WF_vars(Handler(r)) /\ WF_vars(AttemptFails(r))

-----------------------------------------------------------------------------

\* A session serves nobody past its lifetime: a request that ends with an
\* identity began less than MaxAge after the login. Refreshing, which stores
\* the session again, never prolongs it (web.rs, `created: session.created`).
NoIdentityPastMaxAge ==
  \A r \in Request :
    req[r].outcome = "principal" => req[r].begunAt - loginAt[req[r].sid] < MaxAge

\* "A revoked session stops working immediately rather than at token expiry"
\* (client.rs): a request that began after the IdP revoked the login gets no
\* identity, whatever other requests, retries and refreshes were under way.
RevokedStopsImmediately ==
  \A r \in Request : req[r].outcome = "principal" => ~req[r].begunRevoked

\* Without a refresh token, logging out is final: nothing in progress puts the
\* session back (web.rs `logout`, "Server-side FIRST").
LogoutFinalWithoutRefresh ==
  \A s \in loggedOut : ~idp[s].offline => sessions[s] = None

\* The same with refresh tokens, once the requests in progress have ended. The
\* code does not have this property: the refresh of a request that was under
\* way stores the session again after the logout removed it.
LogoutIsFinal ==
  \A s \in loggedOut :
    sessions[s] = None \/ \E r \in Request : req[r].sid = s /\ Awaiting(r)

\* The store keeps up with the IdP: when a stored session's refresh token is
\* one the IdP has replaced, the reply is about to be stored by a request in
\* progress, or it was lost on the way (a timeout, a dropped task).
SpentTokenIsAccountedFor ==
  \A s \in Sid :
    \/ sessions[s] = None \/ idp[s].revoked
    \/ sessions[s].refresh \in idp[s].refresh \cup {None}
    \/ s \in lostReply
    \/ \E r \in Request : req[r].sid = s /\ req[r].pc = "refresh" /\ req[r].answer = "ok"

\* What may end a session: its age, a logout its user asked for, a restart, or
\* a request to which the IdP rejected both tokens it held, or which could not
\* reach the IdP within the budget.
RequestFoundItDead(r, s) ==
  /\ Awaiting(r) /\ req[r].sid = s
  /\ req'[r].outcome = "anonymous"
  /\ \/ req[r].answer = "unreachable"
     \/ /\ ~AccessLive(req[r])
        /\ req[r].pc = "recheck" \/ req[r].held.refresh = None \/ ~RefreshLive(req[r])

SessionEndsForAReason ==
  [][\A s \in Sid : sessions[s] # None /\ sessions'[s] = None =>
       \/ ~Live(sessions[s], clock)
       \/ s \in loggedOut'
       \/ Restart
       \/ \E r \in Request : RequestFoundItDead(r, s)]_vars

\* Every request is answered, even when the IdP never answers: the attempts
\* are bounded and each has a timeout.
RequestsEnd == \A r \in Request : Awaiting(r) ~> ~Awaiting(r)

-----------------------------------------------------------------------------
(* The inductive invariant behind the safety properties: what holds of every *)
(* session and what holds of every request.                                  *)

\* An id nobody was given is untouched; `created` is the instant of the login;
\* a revoked login has no live token; one that got no refresh token has none
\* to store, and stays logged out.
SessionOK(s) ==
  /\ idp[s].minted = 0 => sessions[s] = None /\ s \notin loggedOut /\ ~idp[s].revoked
  /\ sessions[s] # None => sessions[s].created = loginAt[s]
  /\ sessions[s] # None /\ ~idp[s].offline => sessions[s].refresh = None
  /\ idp[s].revoked => idp[s].access = {} /\ idp[s].refresh = {}
  /\ s \in loggedOut /\ ~idp[s].offline => sessions[s] = None

\* A request in progress holds a session of an issued id, read while it was
\* young enough; one that began after the revocation never sees a good answer;
\* without a refresh token it never gets as far as storing the session.
RequestOK(t) ==
  /\ InProgress(t) \/ t.outcome = "principal" =>
       /\ t.sid \in Sid /\ idp[t.sid].minted > 0
       /\ t.begunAt - loginAt[t.sid] < MaxAge
  /\ InProgress(t) =>
       /\ t.held # None /\ t.outcome = "none"
       /\ t.held.created = loginAt[t.sid]
       /\ ~idp[t.sid].offline => t.held.refresh = None /\ t.pc = "userinfo"
       /\ t.begunRevoked => idp[t.sid].revoked /\ t.answer # "ok"
  /\ t.pc = "refresh" /\ t.answer = "ok" => t.bundle # None
  /\ t.begunRevoked => t.outcome # "principal"

IInv ==
  /\ TypeOK
  /\ \A s \in Sid : SessionOK(s)
  /\ \A r \in Request : RequestOK(req[r])
=============================================================================
