----------------------------- MODULE OidcLogin -----------------------------
(* The login of common-oidc's web.rs: the flow store and the two cookies of  *)
(* one browser, `start_login`, the login route, the redirect of a page       *)
(* without a session, and the whole of `callback`.                           *)
(*                                                                           *)
(* The tabs of a browser share its cookies, so their logins interleave: a    *)
(* response sets its cookies when it arrives, a callback carries the cookie  *)
(* the browser had when it was sent, and the code exchange is awaited. The   *)
(* IdP may answer any authorization request with a code, with one of the     *)
(* errors that ask for interaction, or with another error.                   *)
(*                                                                           *)
(* A flow id is a UUID pair. The model takes it from a small set and uses it *)
(* again once no cookie and no tab has it; a stored flow that nobody can name *)
(* any more is forgotten when the next login starts.                         *)
EXTENDS Naturals

CONSTANTS Tab,
          Flow,       \* flow ids; each stands for its state and verifier too
          Page,       \* the pages of the site, as `safe_next` returns them
          Root,       \* "/"
          MaxMoves,   \* bound: moves of users and of the environment
          None

ASSUME LoginAssumption ==
  Root \in Page /\ None \notin Flow /\ MaxMoves \in Nat /\ {"keep", "drop"} \cap Flow = {}

VARIABLES flows,      \* the flow store
          cookies,    \* the browser's flow and session cookies
          tab,        \* what each tab does
          codes,      \* the IdP: the code of each authorization request
          moves

vars == <<flows, cookies, tab, codes, moves>>

\* FlowState; its state and PKCE verifier are those of its id. `asked` is
\* history: the interactive prompts in the chain of logins that led to it, up
\* to two. A chain begins with a user's move, or where the server starts over
\* by itself: a callback whose flow is lost, a page that refuses the session.
FlowState == [next : Page, tried : BOOLEAN, asked : 0..2]

\* pc: a page is shown; a response is on its way, redirecting to the IdP or
\* ending the login; the user is at the IdP; the callback is requested; its
\* handler awaits the exchange. `flow` and `reply` are what the tab's
\* authorization request or callback URL carries, `sent` the cookie that goes
\* with it.
TabState ==
  [pc : {"shown", "toIdp", "toPage", "idp", "callback", "exchange"},
   page : Page \cup {"error"},
   want : Page,
   flow : Flow \cup {None},
   reply : {"none", "code", "login_required", "denied"},
   sent : Flow \cup {None},
   next : Page,
   answer : {"none", "ok", "failed"},
   setFlow : Flow \cup {"keep", "drop"},
   setSession : {"keep", "drop", "live", "dead"}]

TypeOK ==
  /\ flows \in [Flow -> FlowState \cup {None}]
  /\ cookies \in [flow : Flow \cup {None}, session : {"none", "live", "dead"}]
  /\ tab \in [Tab -> TabState]
  /\ codes \in [Flow -> {"none", "issued", "used", "consumed"}]
  /\ moves \in 0..MaxMoves

NewTab ==
  [pc |-> "shown", page |-> Root, want |-> Root, flow |-> None,
   reply |-> "none", sent |-> None, next |-> Root,
   answer |-> "none", setFlow |-> "keep", setSession |-> "keep"]

Init ==
  /\ flows = [f \in Flow |-> None]
  /\ cookies = [flow |-> None, session |-> "none"]
  /\ tab = [t \in Tab |-> NewTab]
  /\ codes = [f \in Flow |-> "none"]
  /\ moves = 0

-----------------------------------------------------------------------------
(* web.rs `start_login`, and the responses that end a login.                 *)

\* Whether the cookie or one of these tabs has the id.
KnownTo(f, tabs) ==
  \/ cookies.flow = f
  \/ \E t \in tabs : f \in {tab[t].flow, tab[t].sent, tab[t].setFlow}

\* The tab that gets a new id forgets the one it has.
Fresh(f, t) == ~KnownTo(f, Tab \ {t})

\* A new flow is stored, `kept` being the store without the one it replaces,
\* and the response carries its cookie and leads to the IdP.
StartLogin(t, kept, next, silent, tried, asked, want, setSession) ==
  LET id  == CHOOSE f \in Flow : Fresh(f, t)
      new == [next |-> next, tried |-> tried,
              asked |-> IF silent \/ asked = 2 THEN asked ELSE asked + 1] IN
    /\ \E f \in Flow : Fresh(f, t)
    /\ flows' = [f \in Flow |-> IF f = id THEN new ELSE IF Fresh(f, t) THEN None ELSE kept[f]]
    /\ codes' = [f \in Flow |-> IF Fresh(f, t) THEN "none" ELSE codes[f]]
    /\ tab' = [tab EXCEPT ![t] =
                 [NewTab EXCEPT !.pc = "toIdp", !.want = want, !.flow = id,
                                !.setFlow = id, !.setSession = setSession]]

\* The response ends the login: a redirect to a page, or an error page at the
\* callback's URL, which the user can reload.
Respond(t, page, setFlow, setSession) ==
  tab' = [tab EXCEPT ![t] =
            [@ EXCEPT !.pc = "toPage", !.page = page, !.answer = "none", !.sent = None,
                      !.next = Root, !.setFlow = setFlow, !.setSession = setSession]]

-----------------------------------------------------------------------------
(* What users do, from any point: a navigation drops what the tab was doing, *)
(* and the server's task with it.                                            *)

Move == moves < MaxMoves /\ moves' = moves + 1

\* A page is requested. With a live session it is shown; otherwise
\* `unauthenticated` starts a silent login and removes a stale cookie.
Visit(t, p) ==
  /\ Move
  /\ \/ /\ cookies.session = "live"
        /\ tab' = [tab EXCEPT ![t] = [NewTab EXCEPT !.page = p, !.want = p]]
        /\ UNCHANGED <<flows, codes>>
     \/ /\ cookies.session # "live"
        /\ StartLogin(t, flows, p, TRUE, FALSE, 0, p,
                      IF cookies.session = "dead" THEN "drop" ELSE "keep")
  /\ UNCHANGED cookies

\* Mutant: an explicit login does not count as the interactive try.
LoginNotTried(t, p, silent) ==
  /\ Move
  /\ StartLogin(t, flows, p, silent, FALSE, 0, p, "keep")
  /\ UNCHANGED cookies

\* web.rs `login`: the shim's bounce asks silently, a sign-in button with
\* prompt=login.
Login(t, p, silent) ==
  /\ Move
  /\ StartLogin(t, flows, p, silent, ~silent, 0, p, "keep")
  /\ UNCHANGED cookies

\* An error page at the callback's URL is reloaded.
Reload(t) ==
  /\ tab[t].pc = "shown" /\ tab[t].page = "error"
  /\ Move
  /\ tab' = [tab EXCEPT ![t].pc = "callback", ![t].sent = cookies.flow]
  /\ UNCHANGED <<flows, cookies, codes>>

\* A tab at the callback's URL is duplicated: the copy requests it too.
Duplicate(t, u) ==
  /\ tab[t].pc \in {"callback", "exchange"}
  /\ Move
  /\ tab' = [tab EXCEPT ![u] = [tab[t] EXCEPT !.pc = "callback", !.sent = cookies.flow,
                                             !.answer = "none"]]
  /\ UNCHANGED <<flows, cookies, codes>>

-----------------------------------------------------------------------------
(* The browser and the IdP.                                                  *)

\* A cookie after a response that keeps, removes or sets it.
AfterSetCookie(old, set, absent) ==
  CASE set = "keep" -> old
    [] set = "drop" -> absent
    [] OTHER        -> set

\* Set-Cookie takes effect when the response arrives.
FlowCookie(t)    == AfterSetCookie(cookies.flow, tab[t].setFlow, None)
SessionCookie(t) == AfterSetCookie(cookies.session, tab[t].setSession, "none")

\* A redirect to the IdP, or an error page.
Deliver(t) ==
  /\ tab[t].pc = "toIdp" \/ (tab[t].pc = "toPage" /\ tab[t].page = "error")
  /\ cookies' = [flow |-> FlowCookie(t), session |-> SessionCookie(t)]
  /\ tab' = [tab EXCEPT ![t].pc = IF @ = "toIdp" THEN "idp" ELSE "shown",
                        ![t].setFlow = "keep", ![t].setSession = "keep"]
  /\ UNCHANGED <<flows, codes, moves>>

\* A redirect to a page: the browser requests it, and the IdP's userinfo
\* accepts the session.
LandShown(t) ==
  /\ tab[t].pc = "toPage" /\ tab[t].page # "error"
  /\ SessionCookie(t) = "live"
  /\ cookies' = [flow |-> FlowCookie(t), session |-> "live"]
  /\ tab' = [tab EXCEPT ![t].pc = "shown", ![t].setFlow = "keep", ![t].setSession = "keep"]
  /\ UNCHANGED <<flows, codes, moves>>

\* The session has ended, or userinfo refuses even the token just issued: it
\* is removed, and `unauthenticated` starts another silent login.
LandRefused(t) ==
  /\ tab[t].pc = "toPage" /\ tab[t].page # "error"
  /\ cookies' = [flow    |-> FlowCookie(t),
                 session |-> IF SessionCookie(t) = "live" THEN "dead" ELSE SessionCookie(t)]
  /\ StartLogin(t, flows, tab[t].page, TRUE, FALSE, 0, tab[t].want, "drop")
  /\ UNCHANGED moves

\* The IdP sends the browser back, and the browser the callback request with
\* the cookie it has now.
IdpReplies(t) ==
  /\ tab[t].pc = "idp"
  /\ \E reply \in {"code", "login_required", "denied"} :
       /\ tab' = [tab EXCEPT ![t].pc = "callback", ![t].reply = reply, ![t].sent = cookies.flow]
       /\ codes' = [codes EXCEPT ![tab[t].flow] = IF reply = "code" THEN "issued" ELSE @]
  /\ UNCHANGED <<flows, cookies, moves>>

\* The token endpoint: a code is good once. A failure may still have used it.
ExchangeAnswered(t) ==
  /\ tab[t].pc = "exchange" /\ tab[t].answer = "none"
  /\ \/ /\ codes[tab[t].flow] = "issued"
        /\ codes' = [codes EXCEPT ![tab[t].flow] = "used"]
        /\ tab' = [tab EXCEPT ![t].answer = "ok"]
     \/ /\ \/ UNCHANGED codes
           \/ /\ codes[tab[t].flow] = "issued"
              /\ codes' = [codes EXCEPT ![tab[t].flow] = "used"]
        /\ tab' = [tab EXCEPT ![t].answer = "failed"]
  /\ UNCHANGED <<flows, cookies, moves>>

-----------------------------------------------------------------------------
(* web.rs `callback`.                                                        *)

FlowOf(t) == IF tab[t].sent = None THEN None ELSE flows[tab[t].sent]

\* No flow behind the cookie: a new login to the root, and a new chain.
CallbackWithoutFlow(t) ==
  /\ tab[t].pc = "callback" /\ FlowOf(t) = None
  /\ StartLogin(t, flows, Root, TRUE, FALSE, 0, tab[t].want, "keep")
  /\ UNCHANGED <<cookies, moves>>

\* Mutant: every error that asks for interaction escalates.
EscalatesAlways(t) == tab[t].reply = "login_required"

\* login_required, interaction_required or consent_required, and the user was
\* not asked yet.
Escalates(t) == tab[t].reply = "login_required" /\ ~FlowOf(t).tried

\* The IdP returned an error. The flow of the cookie is spent, whatever the
\* request's own state says.
CallbackError(t) ==
  /\ tab[t].pc = "callback" /\ FlowOf(t) # None
  /\ tab[t].reply \in {"login_required", "denied"}
  /\ LET removed == [flows EXCEPT ![tab[t].sent] = None] IN
     \/ /\ Escalates(t)
        /\ StartLogin(t, removed, FlowOf(t).next, FALSE, TRUE, FlowOf(t).asked,
                      tab[t].want, "keep")
     \/ /\ ~Escalates(t)
        /\ flows' = removed
        /\ Respond(t, "error", "drop", "keep")
        /\ UNCHANGED codes
  /\ UNCHANGED <<cookies, moves>>

\* A code with another request's state: 400, and nothing changes.
CallbackMismatch(t) ==
  /\ tab[t].pc = "callback" /\ FlowOf(t) # None
  /\ tab[t].reply = "code" /\ tab[t].flow # tab[t].sent
  /\ Respond(t, "error", "keep", "keep")
  /\ UNCHANGED <<flows, cookies, codes, moves>>

\* The code is this flow's: the exchange is awaited with a copy of the flow.
CallbackExchange(t) ==
  /\ tab[t].pc = "callback" /\ FlowOf(t) # None
  /\ tab[t].reply = "code" /\ tab[t].flow = tab[t].sent
  /\ tab' = [tab EXCEPT ![t].pc = "exchange", ![t].next = FlowOf(t).next]
  /\ UNCHANGED <<flows, cookies, codes, moves>>

\* Mutant: the flow is left in the store.
LoggedInFlowKept(t) ==
  /\ tab[t].pc = "exchange" /\ tab[t].answer = "ok"
  /\ codes' = [codes EXCEPT ![tab[t].flow] = "consumed"]
  /\ tab' = [tab EXCEPT ![t] = [NewTab EXCEPT !.pc = "toPage", !.page = tab[t].next,
               !.want = tab[t].want, !.setFlow = "drop", !.setSession = "live"]]
  /\ UNCHANGED <<flows, cookies, moves>>

\* The exchange succeeded: the flow is removed, a session stored under a new
\* id, and the browser sent to the page of the flow.
LoggedIn(t) ==
  /\ tab[t].pc = "exchange" /\ tab[t].answer = "ok"
  /\ flows' = [flows EXCEPT ![tab[t].sent] = None]
  /\ codes' = [codes EXCEPT ![tab[t].flow] = "consumed"]
  /\ tab' = [tab EXCEPT ![t] = [NewTab EXCEPT !.pc = "toPage", !.page = tab[t].next,
               !.want = tab[t].want, !.setFlow = "drop", !.setSession = "live"]]
  /\ UNCHANGED <<cookies, moves>>

\* It failed: 401. The cookie goes, the stored flow stays until it expires.
ExchangeFailed(t) ==
  /\ tab[t].pc = "exchange" /\ tab[t].answer = "failed"
  /\ Respond(t, "error", "drop", "keep")
  /\ UNCHANGED <<flows, cookies, codes, moves>>

-----------------------------------------------------------------------------
(* The environment.                                                          *)

\* A flow reaches ten minutes. Nobody notices when it is one nobody has.
FlowExpires(f) ==
  /\ Move
  /\ flows[f] # None /\ KnownTo(f, Tab)
  /\ flows' = [flows EXCEPT ![f] = None]
  /\ UNCHANGED <<cookies, tab, codes>>

\* The session behind the cookie ends.
SessionEnds ==
  /\ Move
  /\ cookies.session = "live"
  /\ cookies' = [cookies EXCEPT !.session = "dead"]
  /\ UNCHANGED <<flows, tab, codes>>

\* The process restarts with empty stores; a request in progress fails and can
\* be reloaded.
Restart ==
  /\ Move
  /\ flows' = [f \in Flow |-> None]
  /\ cookies' = [cookies EXCEPT !.session = IF @ = "live" THEN "dead" ELSE @]
  /\ tab' = [t \in Tab |->
       IF tab[t].pc \in {"callback", "exchange"}
         THEN [tab[t] EXCEPT !.pc = "shown", !.page = "error", !.answer = "none", !.sent = None]
         ELSE [tab[t] EXCEPT !.setSession = IF @ = "live" THEN "dead" ELSE @]]
  /\ UNCHANGED codes

Callback(t) ==
  \/ CallbackWithoutFlow(t) \/ CallbackError(t) \/ CallbackMismatch(t)
  \/ CallbackExchange(t) \/ LoggedIn(t) \/ ExchangeFailed(t)

Progress(t) ==
  \/ Callback(t) \/ Deliver(t) \/ LandShown(t) \/ LandRefused(t)
  \/ IdpReplies(t) \/ ExchangeAnswered(t)

Next ==
  \/ \E t \in Tab, p \in Page : Visit(t, p)
  \/ \E t \in Tab, p \in Page, silent \in BOOLEAN : Login(t, p, silent)
  \/ \E t \in Tab : Reload(t)
  \/ \E t \in Tab, u \in Tab : t # u /\ Duplicate(t, u)
  \/ \E t \in Tab : Progress(t)
  \/ \E f \in Flow : FlowExpires(f)
  \/ SessionEnds
  \/ Restart

Spec == Init /\ [][Next]_vars

\* The server, the browser, the IdP and the user at its prompt all go on.
FairSpec == Spec /\ \A t \in Tab : WF_vars(Progress(t))

-----------------------------------------------------------------------------

\* "The server also escalates to interactive exactly once" (README.md): in a
\* chain of logins, each started by the error of the one before, the user is
\* prompted at most once, whatever the IdP answers and however tabs mix. Of a
\* user whose flow is lost (expired, forgotten by a restart, its cookie removed
\* by another tab's login) or whose session a page refuses the server knows
\* nothing: it starts a new chain, in which it may prompt again.
AskedAtMostOnce == \A f \in Flow : flows[f] # None => flows[f].asked <= 1

\* "A consumed flow must not be reusable" (store.rs): a flow that led to a
\* session is not in the store again, so neither a reload nor a concurrent
\* callback of it can get as far as the exchange.
ConsumedFlowGone == \A f \in Flow : codes[f] = "consumed" => flows[f] = None

InProgress(t) == tab[t].pc # "shown"

\* A page refused the session its request came with; the browser is on its way
\* to the IdP once more.
Refused(t) == tab[t].pc = "toIdp" /\ tab[t].setSession = "drop"

\* A tab logging in alone comes to an end, whatever errors the IdP answers and
\* whatever flows and exchanges are lost, unless userinfo refuses the session
\* of one completed login after another: nothing in web.rs ends the redirects
\* between a page, the IdP and `callback` then. (Two tabs can keep each other
\* going.)
LoginEnds ==
  \A t \in Tab :
    []<>(~InProgress(t) \/ \E u \in Tab \ {t} : InProgress(u)) \/ []<>Refused(t)

\* "The page lands back where it was" (README.md): a login that ends on a page
\* ends on the one the tab asked for, or on the root.
LandsBack ==
  \A t \in Tab : tab[t].pc = "shown" => tab[t].page \in {tab[t].want, Root, "error"}

\* No error that escalates came to a browser whose cookie is by then another
\* tab's: the comparison `callback` makes for a code and not for an error.
OwnErrors ==
  \A t \in Tab :
    tab[t].pc = "callback" /\ FlowOf(t) # None /\ Escalates(t) => tab[t].flow = tab[t].sent

\* The same promise of README.md, and the one thing of web.rs `callback` that
\* breaks it: as long as no escalation answers another tab's flow, every tab
\* lands back, however the tabs interleave, lose, share, reload and duplicate
\* their logins, and whatever the IdP answers.
LandsBackOnOwnErrors == []OwnErrors => []LandsBack

-----------------------------------------------------------------------------
(* The inductive invariant behind AskedAtMostOnce and ConsumedFlowGone.      *)

\* Who was prompted counts as tried, so that the next error ends the chain; a
\* flow that led to a session is gone.
FlowOK(f) ==
  /\ flows[f] # None => flows[f].asked <= 1 /\ (flows[f].asked = 1 => flows[f].tried)
  /\ codes[f] = "consumed" => flows[f] = None

\* A tab on its way to the IdP has an id; an exchange is of the cookie's own
\* flow.
TabOK(u) ==
  /\ u.pc \in {"toIdp", "idp"} => u.flow # None
  /\ u.pc = "exchange" => u.sent # None /\ u.flow = u.sent

IInv ==
  /\ TypeOK
  /\ \A f \in Flow : FlowOK(f)
  /\ \A t \in Tab : TabOK(tab[t])

\* Behind LandsBackOnOwnErrors: the flow a tab's request carries, the copy its
\* exchange awaits with and the page it ends on are of what the tab asked for.
LandOK(store, u) ==
  /\ u.flow # None /\ store[u.flow] # None => store[u.flow].next \in {u.want, Root}
  /\ u.pc = "exchange" => u.next \in {u.want, Root}
  /\ u.pc \in {"shown", "toPage"} => u.page \in {u.want, Root, "error"}

LandInv == \A t \in Tab : LandOK(flows, tab[t])
=============================================================================
