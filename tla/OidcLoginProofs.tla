-------------------------- MODULE OidcLoginProofs --------------------------
(* Safety of the login for any number of tabs, flow ids, pages and moves.    *)
EXTENDS OidcLogin, TLAPS

\* Whatever the tabs do, this much of a step keeps the invariant: one tab
\* moves to u, and the rest keeps its type and its flows their promise.
LEMMA TabMoves ==
  ASSUME IInv, NEW t \in Tab, NEW u \in TabState, TabOK(u),
         tab' = [tab EXCEPT ![t] = u],
         flows' \in [Flow -> FlowState \cup {None}],
         cookies' \in [flow : Flow \cup {None}, session : {"none", "live", "dead"}],
         codes' \in [Flow -> {"none", "issued", "used", "consumed"}],
         moves' \in 0..MaxMoves,
         \A f \in Flow : FlowOK(f)'
  PROVE  IInv'
  <1>1. TypeOK'
    BY DEF IInv, TypeOK
  <1>2. \A v \in Tab : TabOK(tab'[v])
    BY DEF IInv, TypeOK
  <1>3. QED
    BY <1>1, <1>2 DEF IInv, TabOK

\* The same when only the tab moves.
LEMMA TabMovesAlone ==
  ASSUME IInv, NEW t \in Tab, NEW u \in TabState, TabOK(u),
         tab' = [tab EXCEPT ![t] = u],
         UNCHANGED <<flows, cookies, codes>>,
         moves' \in 0..MaxMoves
  PROVE  IInv'
  <1>1. \A f \in Flow : FlowOK(f)'
    BY DEF IInv, FlowOK
  <1>2. QED
    BY <1>1, TabMoves DEF IInv, TypeOK

LEMMA NewTabIsATab == NewTab \in TabState /\ TabOK(NewTab)
  BY LoginAssumption DEF NewTab, TabState, TabOK

LEMMA InitInv == Init => IInv
  <1> SUFFICES ASSUME Init PROVE IInv
    OBVIOUS
  <1>1. TypeOK
    BY NewTabIsATab, LoginAssumption DEF Init, TypeOK
  <1>2. \A f \in Flow : FlowOK(f)
    BY DEF Init, FlowOK
  <1>3. QED
    BY <1>1, <1>2, NewTabIsATab DEF Init, IInv

CookiesType == [flow : Flow \cup {None}, session : {"none", "live", "dead"}]

LEMMA CookiesKept == IInv /\ UNCHANGED cookies => cookies' \in CookiesType
  BY DEF IInv, TypeOK, CookiesType

\* A login starts: silently, or with a prompt that counts as the try.
LEMMA StartLoginStep ==
  ASSUME IInv, NEW t \in Tab, NEW kept, NEW next \in Page, NEW want \in Page,
         NEW silent \in BOOLEAN, NEW tried \in BOOLEAN, ~silent => tried,
         NEW setSession \in {"keep", "drop"},
         kept \in [Flow -> FlowState \cup {None}],
         \A f \in Flow : kept[f] \in {flows[f], None},
         StartLogin(t, kept, next, silent, tried, 0, want, setSession),
         cookies' \in CookiesType, moves' \in 0..MaxMoves
  PROVE  IInv'
  <1> DEFINE id == CHOOSE f \in Flow : Fresh(f, t)
             new == [next |-> next, tried |-> tried, asked |-> IF silent THEN 0 ELSE 1]
             u == [NewTab EXCEPT !.pc = "toIdp", !.want = want, !.flow = id,
                                 !.setFlow = id, !.setSession = setSession]
  <1>1. id \in Flow
    BY DEF StartLogin
  <1>2. /\ flows' = [f \in Flow |-> IF f = id THEN new ELSE IF Fresh(f, t) THEN None ELSE kept[f]]
        /\ codes' = [f \in Flow |-> IF Fresh(f, t) THEN "none" ELSE codes[f]]
        /\ tab' = [tab EXCEPT ![t] = u]
        /\ Fresh(id, t)
    BY DEF StartLogin
  <1>3. new \in FlowState /\ new.asked <= 1 /\ (new.asked = 1 => new.tried)
    BY DEF FlowState
  <1> HIDE DEF id, new
  <1>4. u \in TabState /\ TabOK(u)
    BY <1>1, LoginAssumption DEF NewTab, TabState, TabOK
  <1> HIDE DEF u
  <1>5. /\ flows' \in [Flow -> FlowState \cup {None}]
        /\ codes' \in [Flow -> {"none", "issued", "used", "consumed"}]
    BY <1>1, <1>2, <1>3 DEF IInv, TypeOK
  <1>6. \A f \in Flow : FlowOK(f)'
    <2> TAKE f \in Flow
    <2>1. CASE f = id
      BY <2>1, <1>1, <1>2, <1>3 DEF IInv, TypeOK, FlowOK
    <2>2. CASE f # id
      <3>1. flows'[f] \in {flows[f], None} /\ codes'[f] \in {codes[f], "none"}
        BY <2>2, <1>1, <1>2
      <3>2. QED
        BY <3>1 DEF IInv, FlowOK
    <2>3. QED
      BY <2>1, <2>2
  <1>7. QED
    BY <1>2, <1>4, <1>5, <1>6, TabMoves DEF IInv, TypeOK, CookiesType

\* A response that ends the login.
LEMMA RespondStep ==
  ASSUME IInv, NEW t \in Tab, NEW setFlow \in {"keep", "drop"},
         Respond(t, "error", setFlow, "keep"),
         flows' \in [Flow -> FlowState \cup {None}],
         \A f \in Flow : flows'[f] \in {flows[f], None},
         UNCHANGED <<cookies, codes, moves>>
  PROVE  IInv'
  <1> DEFINE u == [tab[t] EXCEPT !.pc = "toPage", !.page = "error", !.answer = "none",
                     !.sent = None, !.next = Root, !.setFlow = setFlow, !.setSession = "keep"]
  <1>0. tab[t] \in TabState
    BY DEF IInv, TypeOK
  <1>1. u \in TabState /\ TabOK(u)
    <2>1. u.pc = "toPage"
      BY <1>0 DEF TabState
    <2>2. u \in TabState
      BY ZenonT(90), <1>0, LoginAssumption DEF TabState
    <2>3. QED
      BY <2>1, <2>2 DEF TabOK
  <1>2. tab' = [tab EXCEPT ![t] = u]
    BY DEF Respond
  <1>3. \A f \in Flow : FlowOK(f)'
    BY DEF IInv, FlowOK
  <1> HIDE DEF u
  <1>4. QED
    BY <1>1, <1>2, <1>3, TabMoves DEF IInv, TypeOK

-----------------------------------------------------------------------------
(* Users.                                                                    *)

LEMMA MoveCounts == TypeOK /\ Move => moves' \in 0..MaxMoves
  BY LoginAssumption DEF TypeOK, Move

LEMMA VisitStep ==
  ASSUME IInv, NEW t \in Tab, NEW p \in Page, Visit(t, p)
  PROVE  IInv'
  <1>1. moves' \in 0..MaxMoves
    BY MoveCounts DEF Visit, IInv
  <1>2. CASE cookies.session = "live"
    <2> DEFINE u == [NewTab EXCEPT !.page = p, !.want = p]
    <2>1. u \in TabState /\ TabOK(u)
      BY LoginAssumption DEF NewTab, TabState, TabOK
    <2>2. tab' = [tab EXCEPT ![t] = u] /\ UNCHANGED <<flows, cookies, codes>>
      BY <1>2 DEF Visit
    <2> HIDE DEF u
    <2>3. QED
      BY <1>1, <2>1, <2>2, TabMovesAlone
  <1>3. CASE cookies.session # "live"
    <2> DEFINE drop == IF cookies.session = "dead" THEN "drop" ELSE "keep"
    <2>1. StartLogin(t, flows, p, TRUE, FALSE, 0, p, drop) /\ cookies' \in CookiesType
      BY <1>3, CookiesKept DEF Visit
    <2>2. drop \in {"keep", "drop"}
      OBVIOUS
    <2> HIDE DEF drop
    <2>3. flows \in [Flow -> FlowState \cup {None}] /\ \A f \in Flow : flows[f] \in {flows[f], None}
      BY DEF IInv, TypeOK
    <2>4. TRUE \in BOOLEAN /\ FALSE \in BOOLEAN
      OBVIOUS
    <2>5. QED
      BY <1>1, <2>1, <2>2, <2>3, <2>4, StartLoginStep, Zenon
  <1>4. QED
    BY <1>2, <1>3

LEMMA LoginStep ==
  ASSUME IInv, NEW t \in Tab, NEW p \in Page, NEW silent \in BOOLEAN, Login(t, p, silent)
  PROVE  IInv'
  <1>1. moves' \in 0..MaxMoves
    BY MoveCounts DEF Login, IInv
  <1>2. StartLogin(t, flows, p, silent, ~silent, 0, p, "keep") /\ cookies' \in CookiesType
    BY CookiesKept DEF Login
  <1>3. flows \in [Flow -> FlowState \cup {None}] /\ \A f \in Flow : flows[f] \in {flows[f], None}
    BY DEF IInv, TypeOK
  <1>4. (~silent) \in BOOLEAN
    OBVIOUS
  <1>5. QED
    BY <1>1, <1>2, <1>3, <1>4, StartLoginStep, Zenon

LEMMA ReloadStep ==
  ASSUME IInv, NEW t \in Tab, Reload(t)
  PROVE  IInv'
  <1> DEFINE u == [tab[t] EXCEPT !.pc = "callback", !.sent = cookies.flow]
  <1>0. tab[t] \in TabState /\ cookies.flow \in Flow \cup {None}
    BY DEF IInv, TypeOK
  <1>1. u \in TabState
    BY <1>0 DEF TabState
  <1>2. TabOK(u)
    BY <1>0 DEF TabState, TabOK
  <1>3. tab' = [tab EXCEPT ![t] = u]
    BY DEF Reload, IInv, TypeOK
  <1> HIDE DEF u
  <1>4. QED
    BY <1>1, <1>2, <1>3, MoveCounts, TabMovesAlone DEF Reload, IInv

LEMMA DuplicateStep ==
  ASSUME IInv, NEW t \in Tab, NEW v \in Tab, Duplicate(t, v)
  PROVE  IInv'
  <1> DEFINE u == [tab[t] EXCEPT !.pc = "callback", !.sent = cookies.flow, !.answer = "none"]
  <1>0. tab[t] \in TabState /\ cookies.flow \in Flow \cup {None}
    BY DEF IInv, TypeOK
  <1>1. u \in TabState
    BY <1>0 DEF TabState
  <1>2. TabOK(u)
    BY <1>0 DEF TabState, TabOK
  <1>3. tab' = [tab EXCEPT ![v] = u]
    BY DEF Duplicate
  <1> HIDE DEF u
  <1>4. QED
    BY <1>1, <1>2, <1>3, MoveCounts, TabMovesAlone DEF Duplicate, IInv

-----------------------------------------------------------------------------
(* The browser and the IdP.                                                  *)

LEMMA CookieTyped ==
  ASSUME NEW old \in Flow \cup {None}, NEW set \in Flow \cup {"keep", "drop"}
  PROVE  AfterSetCookie(old, set, None) \in Flow \cup {None}
  BY LoginAssumption DEF AfterSetCookie

LEMMA SessionCookieTyped ==
  ASSUME NEW old \in {"none", "live", "dead"}, NEW set \in {"keep", "drop", "live", "dead"}
  PROVE  AfterSetCookie(old, set, "none") \in {"none", "live", "dead"}
  BY DEF AfterSetCookie

LEMMA ArrivedTyped ==
  ASSUME IInv, NEW t \in Tab
  PROVE  FlowCookie(t) \in Flow \cup {None} /\ SessionCookie(t) \in {"none", "live", "dead"}
  <1>1. /\ tab[t].setFlow \in Flow \cup {"keep", "drop"}
        /\ tab[t].setSession \in {"keep", "drop", "live", "dead"}
        /\ cookies.flow \in Flow \cup {None} /\ cookies.session \in {"none", "live", "dead"}
    BY DEF IInv, TypeOK, TabState
  <1>2. QED
    BY <1>1, CookieTyped, SessionCookieTyped DEF FlowCookie, SessionCookie

\* A response has arrived: its cookies are set.
Settled(v, pc) == [v EXCEPT !.pc = pc, !.setFlow = "keep", !.setSession = "keep"]

LEMMA SettledTab ==
  ASSUME NEW v \in TabState, NEW pc \in {"idp", "shown"}
  PROVE  /\ Settled(v, pc) \in TabState
         /\ Settled(v, pc).pc = pc /\ Settled(v, pc).flow = v.flow
         /\ Settled(v, pc).want = v.want /\ Settled(v, pc).page = v.page
         /\ Settled(v, pc).next = v.next
  <1>1. \A x \in {"idp", "shown"} :
          [v EXCEPT !.pc = x, !.setFlow = "keep", !.setSession = "keep"] \in TabState
    BY DEF TabState
  <1>2. Settled(v, pc) \in TabState
    BY <1>1, Zenon DEF Settled
  <1>3. QED
    BY <1>2 DEF TabState, Settled

LEMMA DeliverStep ==
  ASSUME IInv, NEW t \in Tab, Deliver(t)
  PROVE  IInv'
  <1> DEFINE pc == IF tab[t].pc = "toIdp" THEN "idp" ELSE "shown"
             u == Settled(tab[t], pc)
  <1>0. /\ tab[t] \in TabState /\ TabOK(tab[t])
    BY DEF IInv, TypeOK
  <1>1. pc \in {"idp", "shown"} /\ (pc = "idp" => tab[t].flow # None)
    BY <1>0 DEF TabOK
  <1>2. tab' = [tab EXCEPT ![t] = u]
    BY DEF Deliver, IInv, TypeOK, Settled
  <1> HIDE DEF pc
  <1>3. u \in TabState /\ TabOK(u)
    <2>1. u \in TabState
      BY <1>0, <1>1, SettledTab
    <2>2. u.pc = pc /\ u.flow = tab[t].flow
      BY <1>0, <1>1, SettledTab
    <2>3. QED
      BY <1>1, <2>1, <2>2 DEF TabOK
  <1>4. cookies' \in [flow : Flow \cup {None}, session : {"none", "live", "dead"}]
    BY ArrivedTyped DEF Deliver
  <1>5. \A f \in Flow : FlowOK(f)'
    BY DEF IInv, FlowOK, Deliver
  <1> HIDE DEF u
  <1>6. QED
    BY <1>1, <1>2, <1>3, <1>4, <1>5, TabMoves DEF Deliver, IInv, TypeOK

LEMMA LandShownStep ==
  ASSUME IInv, NEW t \in Tab, LandShown(t)
  PROVE  IInv'
  <1> DEFINE u == Settled(tab[t], "shown")
  <1>1. tab[t] \in TabState
    BY DEF IInv, TypeOK
  <1>2. u \in TabState /\ u.pc = "shown"
    BY <1>1, SettledTab
  <1>3. tab' = [tab EXCEPT ![t] = u]
    BY DEF LandShown, IInv, TypeOK, Settled
  <1> HIDE DEF u
  <1>4. TabOK(u)
    BY <1>2 DEF TabOK
  <1>5. cookies' \in [flow : Flow \cup {None}, session : {"none", "live", "dead"}]
    BY ArrivedTyped DEF LandShown
  <1>6. \A f \in Flow : FlowOK(f)'
    BY DEF IInv, FlowOK, LandShown
  <1>7. QED
    BY <1>2, <1>3, <1>4, <1>5, <1>6, TabMoves DEF LandShown, IInv, TypeOK

LEMMA LandRefusedStep ==
  ASSUME IInv, NEW t \in Tab, LandRefused(t)
  PROVE  IInv'
  <1>1. /\ StartLogin(t, flows, tab[t].page, TRUE, FALSE, 0, tab[t].want, "drop")
        /\ moves' \in 0..MaxMoves
    BY DEF LandRefused, IInv, TypeOK
  <1>2. /\ tab[t].page \in Page /\ tab[t].want \in Page
        /\ flows \in [Flow -> FlowState \cup {None}]
        /\ \A f \in Flow : flows[f] \in {flows[f], None}
    BY DEF LandRefused, IInv, TypeOK, TabState
  <1>3. cookies' \in CookiesType
    BY ArrivedTyped DEF LandRefused, CookiesType
  <1>4. TRUE \in BOOLEAN /\ FALSE \in BOOLEAN /\ "drop" \in {"keep", "drop"}
    OBVIOUS
  <1>5. QED
    BY <1>1, <1>2, <1>3, <1>4, StartLoginStep, Zenon

LEMMA IdpRepliesStep ==
  ASSUME IInv, NEW t \in Tab, IdpReplies(t)
  PROVE  IInv'
  <1>1. PICK reply \in {"code", "login_required", "denied"} :
          /\ tab' = [tab EXCEPT ![t].pc = "callback", ![t].reply = reply, ![t].sent = cookies.flow]
          /\ codes' = [codes EXCEPT ![tab[t].flow] = IF reply = "code" THEN "issued" ELSE @]
    BY DEF IdpReplies
  <1> DEFINE u == [tab[t] EXCEPT !.pc = "callback", !.reply = reply, !.sent = cookies.flow]
  <1>2. tab[t] \in TabState /\ cookies.flow \in Flow \cup {None}
    BY DEF IInv, TypeOK
  <1>3. u \in TabState
    BY <1>2 DEF TabState
  <1>4. TabOK(u)
    BY <1>2 DEF TabState, TabOK
  <1>5. tab' = [tab EXCEPT ![t] = u]
    BY <1>1 DEF IInv, TypeOK
  <1>6. /\ codes' \in [Flow -> {"none", "issued", "used", "consumed"}]
        /\ \A f \in Flow : codes'[f] \in {codes[f], "issued"}
    BY <1>1 DEF IInv, TypeOK
  <1>7. \A f \in Flow : FlowOK(f)'
    BY <1>6 DEF IInv, FlowOK, IdpReplies
  <1> HIDE DEF u
  <1>8. QED
    BY <1>3, <1>4, <1>5, <1>6, <1>7, TabMoves DEF IdpReplies, IInv, TypeOK

LEMMA ExchangeAnsweredStep ==
  ASSUME IInv, NEW t \in Tab, ExchangeAnswered(t)
  PROVE  IInv'
  <1>1. PICK answer \in {"ok", "failed"} : tab' = [tab EXCEPT ![t].answer = answer]
    BY DEF ExchangeAnswered
  <1> DEFINE u == [tab[t] EXCEPT !.answer = answer]
  <1>2. tab[t] \in TabState /\ TabOK(tab[t])
    BY DEF IInv, TypeOK
  <1>3. u \in TabState
    BY <1>2 DEF TabState
  <1>4. TabOK(u)
    BY <1>2 DEF TabState, TabOK
  <1>5. tab' = [tab EXCEPT ![t] = u]
    BY <1>1 DEF IInv, TypeOK
  <1>6. /\ codes' \in [Flow -> {"none", "issued", "used", "consumed"}]
        /\ \A f \in Flow : codes'[f] \in {codes[f], "used"}
    BY DEF ExchangeAnswered, IInv, TypeOK
  <1>7. \A f \in Flow : FlowOK(f)'
    BY <1>6 DEF IInv, FlowOK, ExchangeAnswered
  <1> HIDE DEF u
  <1>8. QED
    BY <1>3, <1>4, <1>5, <1>6, <1>7, TabMoves DEF ExchangeAnswered, IInv, TypeOK

-----------------------------------------------------------------------------
(* web.rs `callback`, and the environment.                                   *)

\* A removed flow leaves the others alone.
LEMMA FlowRemoved ==
  ASSUME IInv, NEW f
  PROVE  /\ [flows EXCEPT ![f] = None] \in [Flow -> FlowState \cup {None}]
         /\ \A g \in Flow : [flows EXCEPT ![f] = None][g] \in {flows[g], None}
         /\ f \in Flow => [flows EXCEPT ![f] = None][f] = None
  BY DEF IInv, TypeOK

\* A callback that found a flow found it behind the cookie it came with.
LEMMA FlowFound ==
  ASSUME IInv, NEW t \in Tab, FlowOf(t) # None
  PROVE  /\ tab[t] \in TabState /\ tab[t].sent \in Flow
         /\ FlowOf(t) = flows[tab[t].sent] /\ FlowOf(t) \in FlowState
  BY DEF IInv, TypeOK, TabState, FlowOf

LEMMA CallbackWithoutFlowStep ==
  ASSUME IInv, NEW t \in Tab, CallbackWithoutFlow(t)
  PROVE  IInv'
  <1>1. StartLogin(t, flows, Root, TRUE, FALSE, 0, tab[t].want, "keep") /\ UNCHANGED <<cookies, moves>>
    BY DEF CallbackWithoutFlow
  <1>2. /\ Root \in Page /\ tab[t].want \in Page /\ moves' \in 0..MaxMoves
        /\ flows \in [Flow -> FlowState \cup {None}]
        /\ \A f \in Flow : flows[f] \in {flows[f], None}
    BY <1>1, LoginAssumption DEF IInv, TypeOK, TabState
  <1>3. TRUE \in BOOLEAN /\ FALSE \in BOOLEAN /\ cookies' \in CookiesType
    BY <1>1, CookiesKept
  <1>4. QED
    BY <1>1, <1>2, <1>3, StartLoginStep, Zenon

LEMMA CallbackErrorStep ==
  ASSUME IInv, NEW t \in Tab, CallbackError(t)
  PROVE  IInv'
  <1> DEFINE removed == [flows EXCEPT ![tab[t].sent] = None]
  <1>1. /\ tab[t] \in TabState /\ tab[t].sent \in Flow
        /\ FlowOf(t) = flows[tab[t].sent] /\ FlowOf(t) \in FlowState
    BY FlowFound DEF CallbackError
  <1>2. /\ removed \in [Flow -> FlowState \cup {None}]
        /\ \A f \in Flow : removed[f] \in {flows[f], None}
    BY FlowRemoved
  <1>3. UNCHANGED <<cookies, moves>> /\ moves' \in 0..MaxMoves
    BY DEF CallbackError, IInv, TypeOK
  <1>4. CASE Escalates(t)
    <2>1. StartLogin(t, removed, FlowOf(t).next, FALSE, TRUE, FlowOf(t).asked, tab[t].want, "keep")
      BY <1>4 DEF CallbackError
    <2>2. FlowOf(t).asked = 0 /\ FlowOf(t).next \in Page /\ tab[t].want \in Page
      <3>1. FlowOK(tab[t].sent)
        BY <1>1 DEF IInv
      <3>2. FlowOf(t).asked <= 1 /\ FlowOf(t).asked # 1
        BY <1>1, <1>4, <3>1 DEF FlowOK, Escalates, CallbackError
      <3>3. QED
        BY <1>1, <3>2 DEF FlowState, TabState
    <2>3. StartLogin(t, removed, FlowOf(t).next, FALSE, TRUE, 0, tab[t].want, "keep")
      BY <2>1, <2>2, Zenon
    <2>4. TRUE \in BOOLEAN /\ FALSE \in BOOLEAN /\ cookies' \in CookiesType
      BY <1>3, CookiesKept
    <2> HIDE DEF removed
    <2>5. QED
      BY <1>2, <1>3, <2>2, <2>3, <2>4, StartLoginStep, Zenon
  <1>5. CASE ~Escalates(t)
    <2>1. flows' = removed /\ Respond(t, "error", "drop", "keep") /\ UNCHANGED codes
      BY <1>5 DEF CallbackError
    <2> HIDE DEF removed
    <2>2. QED
      BY <1>2, <1>3, <2>1, RespondStep
  <1>6. QED
    BY <1>4, <1>5

LEMMA CallbackMismatchStep ==
  ASSUME IInv, NEW t \in Tab, CallbackMismatch(t)
  PROVE  IInv'
  BY RespondStep DEF CallbackMismatch, IInv, TypeOK

LEMMA CallbackExchangeStep ==
  ASSUME IInv, NEW t \in Tab, CallbackExchange(t)
  PROVE  IInv'
  <1> DEFINE u == [tab[t] EXCEPT !.pc = "exchange", !.next = FlowOf(t).next]
  <1>1. /\ tab[t] \in TabState /\ tab[t].sent \in Flow /\ tab[t].sent # None
        /\ FlowOf(t) \in FlowState /\ tab[t].flow = tab[t].sent
    BY FlowFound, LoginAssumption DEF CallbackExchange
  <1>2. FlowOf(t).next \in Page
    BY <1>1 DEF FlowState
  <1>3. u \in TabState
    BY <1>1, <1>2 DEF TabState
  <1>4. u.pc = "exchange" /\ u.flow = tab[t].flow /\ u.sent = tab[t].sent
    BY <1>1 DEF TabState
  <1>5. TabOK(u)
    BY <1>1, <1>4 DEF TabOK
  <1>6. tab' = [tab EXCEPT ![t] = u]
    BY DEF CallbackExchange, IInv, TypeOK
  <1> HIDE DEF u
  <1>7. QED
    BY <1>3, <1>5, <1>6, TabMovesAlone DEF CallbackExchange, IInv, TypeOK

LEMMA LoggedInStep ==
  ASSUME IInv, NEW t \in Tab, LoggedIn(t)
  PROVE  IInv'
  <1> DEFINE u == [NewTab EXCEPT !.pc = "toPage", !.page = tab[t].next,
                     !.want = tab[t].want, !.setFlow = "drop", !.setSession = "live"]
  <1>1. tab[t] \in TabState /\ tab[t].sent \in Flow /\ tab[t].flow = tab[t].sent
    BY DEF LoggedIn, IInv, TypeOK, TabOK, TabState
  <1>2. u \in TabState /\ TabOK(u)
    <2>1. tab[t].next \in Page /\ tab[t].want \in Page
      BY <1>1 DEF TabState
    <2>2. NewTab \in TabState
      BY NewTabIsATab
    <2>3. u \in TabState
      BY ZenonT(90), <2>1, <2>2 DEF TabState
    <2>4. u.pc = "toPage"
      BY <2>2 DEF TabState
    <2>5. QED
      BY <2>3, <2>4 DEF TabOK
  <1>3. tab' = [tab EXCEPT ![t] = u] /\ UNCHANGED <<cookies, moves>>
    BY DEF LoggedIn
  <1>4. /\ flows' \in [Flow -> FlowState \cup {None}]
        /\ codes' \in [Flow -> {"none", "issued", "used", "consumed"}]
        /\ flows'[tab[t].sent] = None
        /\ \A f \in Flow : f # tab[t].sent => flows'[f] = flows[f] /\ codes'[f] = codes[f]
    BY <1>1 DEF LoggedIn, IInv, TypeOK
  <1>5. \A f \in Flow : FlowOK(f)'
    BY <1>4 DEF IInv, FlowOK
  <1> HIDE DEF u
  <1>6. QED
    BY <1>2, <1>3, <1>4, <1>5, TabMoves DEF IInv, TypeOK

LEMMA ExchangeFailedStep ==
  ASSUME IInv, NEW t \in Tab, ExchangeFailed(t)
  PROVE  IInv'
  BY RespondStep DEF ExchangeFailed, IInv, TypeOK

\* The steps of the environment move no tab but where a task dies with the
\* process.
LEMMA EnvironmentStep ==
  ASSUME IInv, \/ \E f \in Flow : FlowExpires(f)
               \/ SessionEnds
  PROVE  IInv'
  <1>1. moves' \in 0..MaxMoves
    BY MoveCounts DEF FlowExpires, SessionEnds, IInv
  <1>2. /\ flows' \in [Flow -> FlowState \cup {None}]
        /\ \A f \in Flow : flows'[f] \in {flows[f], None}
        /\ UNCHANGED <<tab, codes>>
    BY DEF FlowExpires, SessionEnds, IInv, TypeOK
  <1>3. cookies' \in [flow : Flow \cup {None}, session : {"none", "live", "dead"}]
    BY DEF FlowExpires, SessionEnds, IInv, TypeOK
  <1>4. TypeOK'
    BY <1>1, <1>2, <1>3 DEF IInv, TypeOK
  <1>5. \A f \in Flow : FlowOK(f)'
    BY <1>2 DEF IInv, FlowOK
  <1>6. \A t \in Tab : TabOK(tab[t])'
    BY <1>2 DEF IInv, TabOK
  <1>7. QED
    BY <1>4, <1>5, <1>6 DEF IInv

LEMMA RestartStep ==
  ASSUME IInv, Restart
  PROVE  IInv'
  <1>1. moves' \in 0..MaxMoves /\ UNCHANGED codes
    BY MoveCounts DEF Restart, IInv
  <1>2. flows' = [f \in Flow |-> None]
    BY DEF Restart
  <1>3. cookies' \in [flow : Flow \cup {None}, session : {"none", "live", "dead"}]
    <2>1. PICK x \in {"none", "live", "dead"} : cookies' = [cookies EXCEPT !.session = x]
      BY DEF Restart, IInv, TypeOK
    <2>2. QED
      BY <2>1 DEF IInv, TypeOK
  <1>4. tab' \in [Tab -> TabState] /\ \A t \in Tab : TabOK(tab'[t])
    <2> DEFINE dead(t) == [tab[t] EXCEPT !.pc = "shown", !.page = "error", !.answer = "none", !.sent = None]
               kept(t) == [tab[t] EXCEPT !.setSession = IF @ = "live" THEN "dead" ELSE @]
    <2>1. tab' = [t \in Tab |-> IF tab[t].pc \in {"callback", "exchange"} THEN dead(t) ELSE kept(t)]
      BY DEF Restart
    <2>2. ASSUME NEW t \in Tab PROVE dead(t) \in TabState /\ TabOK(dead(t))
      <3>1. tab[t] \in TabState
        BY DEF IInv, TypeOK
      <3>2. dead(t) \in TabState
        BY <3>1 DEF TabState
      <3>3. dead(t).pc = "shown"
        BY <3>1 DEF TabState
      <3>4. QED
        BY <3>2, <3>3 DEF TabOK
    <2>3. ASSUME NEW t \in Tab PROVE kept(t) \in TabState /\ TabOK(kept(t))
      <3>1. tab[t] \in TabState /\ TabOK(tab[t])
        BY DEF IInv, TypeOK
      <3>2. PICK x \in {"keep", "drop", "live", "dead"} : kept(t) = [tab[t] EXCEPT !.setSession = x]
        BY <3>1 DEF TabState
      <3>3. [tab[t] EXCEPT !.setSession = x] \in TabState
        BY <3>1 DEF TabState
      <3>4. TabOK([tab[t] EXCEPT !.setSession = x])
        BY <3>1 DEF TabState, TabOK
      <3>5. QED
        BY <3>2, <3>3, <3>4
    <2> HIDE DEF dead, kept
    <2>4. QED
      BY <2>1, <2>2, <2>3
  <1>5. TypeOK'
    BY <1>1, <1>2, <1>3, <1>4 DEF IInv, TypeOK
  <1>6. \A f \in Flow : FlowOK(f)'
    BY <1>2 DEF FlowOK
  <1>7. QED
    BY <1>4, <1>5, <1>6 DEF IInv, TabOK

-----------------------------------------------------------------------------

LEMMA NextInv == IInv /\ [Next]_vars => IInv'
  <1> SUFFICES ASSUME IInv, [Next]_vars PROVE IInv'
    OBVIOUS
  <1>1. CASE UNCHANGED vars
    BY <1>1 DEF vars, IInv, TypeOK, FlowOK, TabOK
  <1>2. ASSUME NEW t \in Tab, Progress(t) PROVE IInv'
    BY <1>2, DeliverStep, LandShownStep, LandRefusedStep, IdpRepliesStep, ExchangeAnsweredStep, CallbackWithoutFlowStep,
       CallbackErrorStep, CallbackMismatchStep, CallbackExchangeStep, LoggedInStep,
       ExchangeFailedStep DEF Progress, Callback
  <1>3. CASE \E t \in Tab, p \in Page : Visit(t, p)
    BY <1>3, VisitStep
  <1>4. CASE \E t \in Tab, p \in Page, silent \in BOOLEAN : Login(t, p, silent)
    BY <1>4, LoginStep
  <1>5. CASE \E t \in Tab : Reload(t)
    BY <1>5, ReloadStep
  <1>6. CASE \E t \in Tab, u \in Tab : t # u /\ Duplicate(t, u)
    BY <1>6, DuplicateStep
  <1>7. CASE (\E f \in Flow : FlowExpires(f)) \/ SessionEnds
    BY <1>7, EnvironmentStep
  <1>8. CASE Restart
    BY <1>8, RestartStep
  <1>9. QED
    BY <1>1, <1>2, <1>3, <1>4, <1>5, <1>6, <1>7, <1>8 DEF Next

\* IInv holds in every reachable state.
THEOREM InductiveInvariant == Spec => []IInv
  BY InitInv, NextInv, PTL DEF Spec

\* The flow store, the cookies, the tabs and the codes keep their types.
THEOREM TypeCorrect == Spec => []TypeOK
  <1>1. IInv => TypeOK
    BY DEF IInv
  <1>2. QED
    BY <1>1, InductiveInvariant, PTL

\* However tabs interleave and whatever the IdP answers, web.rs `callback`
\* prompts the user at most once in a chain of logins: `tried` goes from each
\* flow to the one its error starts. A lost flow or a refused session ends the
\* chain, so the prompts of a user are at most one more than these.
THEOREM AskedOnce == Spec => []AskedAtMostOnce
  <1>1. IInv => AskedAtMostOnce
    BY DEF IInv, FlowOK, AskedAtMostOnce
  <1>2. QED
    BY <1>1, InductiveInvariant, PTL

\* A flow that led to a session never comes back: web.rs `callback` removes it
\* before it stores the session, and no flow id is used for two logins at once.
THEOREM ConsumedGone == Spec => []ConsumedFlowGone
  <1>1. IInv => ConsumedFlowGone
    BY DEF IInv, FlowOK, ConsumedFlowGone
  <1>2. QED
    BY <1>1, InductiveInvariant, PTL

-----------------------------------------------------------------------------
(* Landing back. The flow a tab carries was stored for what that tab asked   *)
(* for, until an error answered with another tab's cookie continues that     *)
(* tab's flow.                                                               *)

\* One tab moves to u; the flows the other tabs carry stay or go.
LEMMA LandTabMoves ==
  ASSUME IInv, LandInv, NEW t \in Tab, NEW u,
         tab' = [tab EXCEPT ![t] = u], LandOK(flows', u),
         \A v \in Tab \ {t} : tab[v].flow # None =>
           flows'[tab[v].flow] \in {flows[tab[v].flow], None}
  PROVE  LandInv'
  <1> SUFFICES ASSUME NEW v \in Tab PROVE LandOK(flows', tab'[v])
    BY DEF LandInv
  <1>1. CASE v = t
    BY <1>1 DEF IInv, TypeOK
  <1>2. CASE v # t
    <2>1. tab'[v] = tab[v] /\ LandOK(flows, tab[v])
      BY <1>2 DEF IInv, TypeOK, LandInv
    <2>2. QED
      BY <1>2, <2>1 DEF LandOK
  <1>3. QED
    BY <1>1, <1>2

\* The same when no flow is stored.
LEMMA LandTabMovesAlone ==
  ASSUME IInv, LandInv, NEW t \in Tab, NEW u \in TabState,
         tab' = [tab EXCEPT ![t] = u], LandOK(flows, u),
         \A f \in Flow : flows'[f] \in {flows[f], None}
  PROVE  LandInv'
  <1>1. \A v \in Tab : tab[v].flow # None => tab[v].flow \in Flow
    BY DEF IInv, TypeOK, TabState
  <1>2. u.flow # None => u.flow \in Flow
    BY DEF TabState
  <1>3. LandOK(flows', u)
    BY <1>2 DEF LandOK
  <1>4. QED
    BY <1>1, <1>3, LandTabMoves

\* A login starts for what its tab wants: its id is no other tab's.
LEMMA LandStarts ==
  ASSUME IInv, LandInv, NEW t \in Tab, NEW kept, NEW want \in Page, NEW next \in {want, Root},
         NEW silent, NEW tried, NEW asked, NEW setSession,
         kept \in [Flow -> FlowState \cup {None}],
         \A f \in Flow : kept[f] \in {flows[f], None},
         StartLogin(t, kept, next, silent, tried, asked, want, setSession)
  PROVE  LandInv'
  <1> DEFINE id == CHOOSE f \in Flow : Fresh(f, t)
             new == [next |-> next, tried |-> tried,
                     asked |-> IF silent \/ asked = 2 THEN asked ELSE asked + 1]
             u == [NewTab EXCEPT !.pc = "toIdp", !.want = want, !.flow = id,
                                 !.setFlow = id, !.setSession = setSession]
  <1>1. id \in Flow /\ Fresh(id, t)
    BY DEF StartLogin
  <1>2. /\ flows' = [f \in Flow |-> IF f = id THEN new ELSE IF Fresh(f, t) THEN None ELSE kept[f]]
        /\ tab' = [tab EXCEPT ![t] = u]
    BY DEF StartLogin
  <1>3. u.flow = id /\ u.want = want /\ u.pc = "toIdp"
    BY DEF NewTab
  <1>4. new.next = next
    OBVIOUS
  <1> HIDE DEF id, new, u
  <1>5. LandOK(flows', u)
    BY <1>1, <1>2, <1>3, <1>4 DEF LandOK
  <1>6. ASSUME NEW v \in Tab \ {t}, tab[v].flow # None
        PROVE  flows'[tab[v].flow] \in {flows[tab[v].flow], None}
    <2>1. tab[v].flow \in Flow /\ tab[v].flow # id
      BY <1>1, <1>6 DEF Fresh, KnownTo, IInv, TypeOK, TabState
    <2>2. QED
      BY <1>2, <2>1
  <1>7. QED
    BY <1>2, <1>5, <1>6, LandTabMoves

LEMMA LandInit == Init => LandInv
  <1>1. NewTab.flow = None /\ NewTab.pc = "shown" /\ NewTab.page = Root
    BY DEF NewTab
  <1>2. LandOK(flows, NewTab)
    BY <1>1 DEF LandOK
  <1>3. QED
    BY <1>2 DEF Init, LandInv

LEMMA LandVisit ==
  ASSUME IInv, LandInv, NEW t \in Tab, NEW p \in Page, Visit(t, p)
  PROVE  LandInv'
  <1>1. CASE cookies.session = "live"
    <2> DEFINE u == [NewTab EXCEPT !.page = p, !.want = p]
    <2>1. u \in TabState /\ LandOK(flows, u)
      BY LoginAssumption DEF NewTab, TabState, LandOK
    <2>2. tab' = [tab EXCEPT ![t] = u] /\ flows' = flows
      BY <1>1 DEF Visit
    <2> HIDE DEF u
    <2>3. QED
      BY <2>1, <2>2, LandTabMovesAlone
  <1>2. CASE cookies.session # "live"
    <2> DEFINE drop == IF cookies.session = "dead" THEN "drop" ELSE "keep"
    <2>1. StartLogin(t, flows, p, TRUE, FALSE, 0, p, drop)
      BY <1>2 DEF Visit
    <2> HIDE DEF drop
    <2>2. /\ flows \in [Flow -> FlowState \cup {None}]
          /\ \A f \in Flow : flows[f] \in {flows[f], None}
          /\ p \in {p, Root}
      BY DEF IInv, TypeOK
    <2>3. QED
      BY <2>1, <2>2, LandStarts, Zenon
  <1>3. QED
    BY <1>1, <1>2

LEMMA LandLogin ==
  ASSUME IInv, LandInv, NEW t \in Tab, NEW p \in Page, NEW silent \in BOOLEAN, Login(t, p, silent)
  PROVE  LandInv'
  <1>1. StartLogin(t, flows, p, silent, ~silent, 0, p, "keep")
    BY DEF Login
  <1>2. /\ flows \in [Flow -> FlowState \cup {None}]
        /\ \A f \in Flow : flows[f] \in {flows[f], None}
        /\ p \in {p, Root}
    BY DEF IInv, TypeOK
  <1>3. QED
    BY <1>1, <1>2, LandStarts, Zenon

LEMMA LandWithoutFlow ==
  ASSUME IInv, LandInv, NEW t \in Tab, CallbackWithoutFlow(t)
  PROVE  LandInv'
  <1>1. StartLogin(t, flows, Root, TRUE, FALSE, 0, tab[t].want, "keep")
    BY DEF CallbackWithoutFlow
  <1>2. /\ flows \in [Flow -> FlowState \cup {None}]
        /\ \A f \in Flow : flows[f] \in {flows[f], None}
        /\ tab[t].want \in Page /\ Root \in {tab[t].want, Root}
    BY DEF IInv, TypeOK, TabState
  <1>3. QED
    BY <1>1, <1>2, LandStarts, Zenon

\* A page that refuses the session starts a login back to itself.
LEMMA LandAgain ==
  ASSUME IInv, LandInv, NEW t \in Tab, LandRefused(t)
  PROVE  LandInv'
  <1>1. StartLogin(t, flows, tab[t].page, TRUE, FALSE, 0, tab[t].want, "drop")
    BY DEF LandRefused
  <1>2. /\ flows \in [Flow -> FlowState \cup {None}]
        /\ \A f \in Flow : flows[f] \in {flows[f], None}
        /\ tab[t].want \in Page /\ tab[t].page \in {tab[t].want, Root}
    BY DEF LandRefused, IInv, TypeOK, TabState, LandInv, LandOK
  <1>3. QED
    BY <1>1, <1>2, LandStarts, Zenon

\* A response that ends the login on the error page.
LEMMA LandResponds ==
  ASSUME IInv, LandInv, NEW t \in Tab, NEW setFlow \in {"keep", "drop"},
         Respond(t, "error", setFlow, "keep"),
         \A f \in Flow : flows'[f] \in {flows[f], None}
  PROVE  LandInv'
  <1> DEFINE u == [tab[t] EXCEPT !.pc = "toPage", !.page = "error", !.answer = "none",
                     !.sent = None, !.next = Root, !.setFlow = setFlow, !.setSession = "keep"]
  <1>1. tab[t] \in TabState /\ LandOK(flows, tab[t])
    BY DEF IInv, TypeOK, LandInv
  <1>2. u \in TabState
    BY ZenonT(90), <1>1, LoginAssumption DEF TabState
  <1>3. /\ u.flow = tab[t].flow /\ u.want = tab[t].want
        /\ u.pc = "toPage" /\ u.page = "error"
    BY <1>1 DEF TabState
  <1>4. tab' = [tab EXCEPT ![t] = u]
    BY DEF Respond
  <1> HIDE DEF u
  <1>5. LandOK(flows, u)
    BY <1>1, <1>3 DEF LandOK
  <1>6. QED
    BY <1>2, <1>4, <1>5, LandTabMovesAlone

\* The one step that needs the error to be of the tab's own flow.
LEMMA LandError ==
  ASSUME IInv, LandInv, OwnErrors, NEW t \in Tab, CallbackError(t)
  PROVE  LandInv'
  <1> DEFINE removed == [flows EXCEPT ![tab[t].sent] = None]
  <1>1. /\ tab[t] \in TabState /\ tab[t].sent \in Flow
        /\ FlowOf(t) = flows[tab[t].sent] /\ FlowOf(t) \in FlowState
    BY FlowFound DEF CallbackError
  <1>2. /\ removed \in [Flow -> FlowState \cup {None}]
        /\ \A f \in Flow : removed[f] \in {flows[f], None}
    BY FlowRemoved
  <1>3. CASE Escalates(t)
    <2>1. StartLogin(t, removed, FlowOf(t).next, FALSE, TRUE, FlowOf(t).asked, tab[t].want, "keep")
      BY <1>3 DEF CallbackError
    <2>2. tab[t].flow = tab[t].sent /\ tab[t].sent # None /\ flows[tab[t].sent] # None
      BY <1>1, <1>3, LoginAssumption DEF OwnErrors, CallbackError
    <2>3. tab[t].want \in Page /\ FlowOf(t).next \in {tab[t].want, Root}
      BY <1>1, <2>2 DEF LandInv, LandOK, TabState
    <2> HIDE DEF removed
    <2>4. QED
      BY <1>2, <2>1, <2>3, LandStarts, Zenon
  <1>4. CASE ~Escalates(t)
    <2>1. flows' = removed /\ Respond(t, "error", "drop", "keep")
      BY <1>4 DEF CallbackError
    <2> HIDE DEF removed
    <2>2. QED
      BY <1>2, <2>1, LandResponds
  <1>5. QED
    BY <1>3, <1>4

\* An exchange is of the tab's own flow, so it awaits with a page of its own.
LEMMA LandExchange ==
  ASSUME IInv, LandInv, NEW t \in Tab, CallbackExchange(t)
  PROVE  LandInv'
  <1> DEFINE u == [tab[t] EXCEPT !.pc = "exchange", !.next = FlowOf(t).next]
  <1>1. /\ tab[t] \in TabState /\ tab[t].sent \in Flow /\ tab[t].flow = tab[t].sent
        /\ FlowOf(t) = flows[tab[t].flow] /\ FlowOf(t) \in FlowState /\ FlowOf(t) # None
        /\ tab[t].flow # None
    BY FlowFound, LoginAssumption DEF CallbackExchange
  <1>2. FlowOf(t).next \in {tab[t].want, Root} /\ FlowOf(t).next \in Page
    BY <1>1 DEF LandInv, LandOK, FlowState
  <1>3. u \in TabState
    BY <1>1, <1>2 DEF TabState
  <1>4. /\ u.pc = "exchange" /\ u.flow = tab[t].flow
        /\ u.want = tab[t].want /\ u.next = FlowOf(t).next
    BY <1>1 DEF TabState
  <1>5. tab' = [tab EXCEPT ![t] = u] /\ flows' = flows
    BY DEF CallbackExchange, IInv, TypeOK
  <1> HIDE DEF u
  <1>6. LandOK(flows, u)
    BY <1>1, <1>2, <1>4 DEF LandOK
  <1>7. QED
    BY <1>3, <1>5, <1>6, LandTabMovesAlone

LEMMA LandLoggedIn ==
  ASSUME IInv, LandInv, NEW t \in Tab, LoggedIn(t)
  PROVE  LandInv'
  <1> DEFINE u == [NewTab EXCEPT !.pc = "toPage", !.page = tab[t].next,
                     !.want = tab[t].want, !.setFlow = "drop", !.setSession = "live"]
  <1>1. tab[t] \in TabState /\ LandOK(flows, tab[t]) /\ tab[t].pc = "exchange"
    BY DEF LoggedIn, IInv, TypeOK, LandInv
  <1>2. u \in TabState
    <2>1. tab[t].next \in Page /\ tab[t].want \in Page
      BY <1>1 DEF TabState
    <2>2. NewTab \in TabState
      BY NewTabIsATab
    <2>3. QED
      BY ZenonT(90), <2>1, <2>2 DEF TabState
  <1>3. u.flow = None /\ u.pc = "toPage" /\ u.page = tab[t].next /\ u.want = tab[t].want
    BY DEF NewTab
  <1>4. tab' = [tab EXCEPT ![t] = u] /\ \A f \in Flow : flows'[f] \in {flows[f], None}
    BY FlowRemoved DEF LoggedIn
  <1> HIDE DEF u
  <1>5. LandOK(flows, u)
    BY <1>1, <1>3 DEF LandOK
  <1>6. QED
    BY <1>2, <1>4, <1>5, LandTabMovesAlone

\* A tab goes on with the flow it has, to no page but an error's; the steps of
\* the browser, the IdP and the token endpoint, and of users at an error page.
LEMMA LandGoesOn ==
  ASSUME IInv, LandInv, NEW t \in Tab, NEW v \in Tab, NEW u \in TabState,
         tab' = [tab EXCEPT ![v] = u], flows' = flows,
         u.flow = tab[t].flow, u.want = tab[t].want, u.page = tab[t].page, u.next = tab[t].next,
         \/ u.pc \in {"callback", "idp", tab[t].pc}
         \/ u.pc = "shown" /\ tab[t].pc = "toPage"
  PROVE  LandInv'
  <1>1. LandOK(flows, tab[t])
    BY DEF LandInv
  <1>2. LandOK(flows, u)
    BY <1>1 DEF LandOK
  <1>3. QED
    BY <1>2, LandTabMovesAlone

LEMMA LandBrowser ==
  ASSUME IInv, LandInv, NEW t \in Tab,
         \/ Deliver(t) \/ LandShown(t) \/ IdpReplies(t) \/ ExchangeAnswered(t) \/ Reload(t)
         \/ \E v \in Tab : Duplicate(t, v)
  PROVE  LandInv'
  <1>0. tab[t] \in TabState /\ cookies.flow \in Flow \cup {None}
    BY DEF IInv, TypeOK
  <1>1. CASE Deliver(t)
    <2>1. PICK pc \in {"idp", "shown"} :
            /\ tab' = [tab EXCEPT ![t] = Settled(tab[t], pc)]
            /\ pc = "shown" => tab[t].pc = "toPage"
      BY <1>1 DEF Deliver, IInv, TypeOK, Settled
    <2> DEFINE u == Settled(tab[t], pc)
    <2>2. u \in TabState
      BY <1>0, SettledTab
    <2>3. /\ u.flow = tab[t].flow /\ u.want = tab[t].want /\ u.page = tab[t].page
          /\ u.next = tab[t].next /\ u.pc = pc
      BY <1>0, SettledTab
    <2>4. flows' = flows
      BY <1>1 DEF Deliver
    <2> HIDE DEF u
    <2>5. QED
      BY <2>1, <2>2, <2>3, <2>4, LandGoesOn DEF u
  <1>6. CASE LandShown(t)
    <2> DEFINE u == Settled(tab[t], "shown")
    <2>1. u \in TabState
      BY <1>0, SettledTab
    <2>2. /\ u.flow = tab[t].flow /\ u.want = tab[t].want /\ u.page = tab[t].page
          /\ u.next = tab[t].next /\ u.pc = "shown" /\ tab[t].pc = "toPage"
      BY <1>0, <1>6, SettledTab DEF LandShown
    <2>3. tab' = [tab EXCEPT ![t] = u] /\ flows' = flows
      BY <1>6 DEF LandShown, IInv, TypeOK, Settled
    <2> HIDE DEF u
    <2>4. QED
      BY <2>1, <2>2, <2>3, LandGoesOn
  <1>2. CASE IdpReplies(t)
    <2>1. PICK reply \in {"code", "login_required", "denied"} :
            tab' = [tab EXCEPT ![t].pc = "callback", ![t].reply = reply, ![t].sent = cookies.flow]
      BY <1>2 DEF IdpReplies
    <2> DEFINE u == [tab[t] EXCEPT !.pc = "callback", !.reply = reply, !.sent = cookies.flow]
    <2>2. u \in TabState
      BY <1>0 DEF TabState
    <2>3. /\ u.flow = tab[t].flow /\ u.want = tab[t].want /\ u.page = tab[t].page
          /\ u.next = tab[t].next /\ u.pc = "callback"
      BY <1>0 DEF TabState
    <2>4. tab' = [tab EXCEPT ![t] = u] /\ flows' = flows
      BY <1>2, <2>1 DEF IdpReplies, IInv, TypeOK
    <2> HIDE DEF u
    <2>5. QED
      BY <2>2, <2>3, <2>4, LandGoesOn
  <1>3. CASE ExchangeAnswered(t)
    <2>1. PICK answer \in {"ok", "failed"} : tab' = [tab EXCEPT ![t].answer = answer]
      BY <1>3 DEF ExchangeAnswered
    <2> DEFINE u == [tab[t] EXCEPT !.answer = answer]
    <2>2. u \in TabState
      BY <1>0 DEF TabState
    <2>3. /\ u.flow = tab[t].flow /\ u.want = tab[t].want /\ u.page = tab[t].page
          /\ u.next = tab[t].next /\ u.pc = tab[t].pc
      BY <1>0 DEF TabState
    <2>4. tab' = [tab EXCEPT ![t] = u] /\ flows' = flows
      BY <1>3, <2>1 DEF ExchangeAnswered, IInv, TypeOK
    <2> HIDE DEF u
    <2>5. QED
      BY <2>2, <2>3, <2>4, LandGoesOn
  <1>4. CASE Reload(t)
    <2> DEFINE u == [tab[t] EXCEPT !.pc = "callback", !.sent = cookies.flow]
    <2>1. u \in TabState
      BY <1>0 DEF TabState
    <2>2. /\ u.flow = tab[t].flow /\ u.want = tab[t].want /\ u.page = tab[t].page
          /\ u.next = tab[t].next /\ u.pc = "callback"
      BY <1>0 DEF TabState
    <2>3. tab' = [tab EXCEPT ![t] = u] /\ flows' = flows
      BY <1>4 DEF Reload, IInv, TypeOK
    <2> HIDE DEF u
    <2>4. QED
      BY <2>1, <2>2, <2>3, LandGoesOn
  <1>5. ASSUME NEW v \in Tab, Duplicate(t, v) PROVE LandInv'
    <2> DEFINE u == [tab[t] EXCEPT !.pc = "callback", !.sent = cookies.flow, !.answer = "none"]
    <2>1. u \in TabState
      BY <1>0 DEF TabState
    <2>2. /\ u.flow = tab[t].flow /\ u.want = tab[t].want /\ u.page = tab[t].page
          /\ u.next = tab[t].next /\ u.pc = "callback"
      BY <1>0 DEF TabState
    <2>3. tab' = [tab EXCEPT ![v] = u] /\ flows' = flows
      BY <1>5 DEF Duplicate
    <2> HIDE DEF u
    <2>4. QED
      BY <2>1, <2>2, <2>3, LandGoesOn
  <1>7. QED
    BY <1>1, <1>2, <1>3, <1>4, <1>5, <1>6

LEMMA LandEnvironment ==
  ASSUME IInv, LandInv, \/ \E f \in Flow : FlowExpires(f)
                        \/ SessionEnds
  PROVE  LandInv'
  <1>1. UNCHANGED tab /\ \A f \in Flow : flows'[f] \in {flows[f], None}
    BY DEF FlowExpires, SessionEnds, IInv, TypeOK
  <1>2. \A t \in Tab : tab[t].flow # None => tab[t].flow \in Flow
    BY DEF IInv, TypeOK, TabState
  <1>3. QED
    BY <1>1, <1>2 DEF LandInv, LandOK

\* A request cut off shows an error, and no flow is left to be wrong.
LEMMA LandRestart ==
  ASSUME IInv, LandInv, Restart
  PROVE  LandInv'
  <1> SUFFICES ASSUME NEW t \in Tab PROVE LandOK(flows', tab'[t])
    BY DEF LandInv
  <1>1. tab[t] \in TabState /\ LandOK(flows, tab[t])
    BY DEF IInv, TypeOK, LandInv
  <1>2. tab'[t].flow # None => flows'[tab'[t].flow] = None
    <2>1. tab'[t].flow = tab[t].flow
      BY <1>1 DEF Restart, TabState
    <2>2. QED
      BY <1>1, <2>1 DEF Restart, TabState
  <1>3. \/ tab'[t].pc = "shown" /\ tab'[t].page = "error"
        \/ /\ tab'[t].pc = tab[t].pc /\ tab'[t].page = tab[t].page
           /\ tab'[t].want = tab[t].want /\ tab[t].pc # "exchange"
    BY <1>1 DEF Restart, TabState
  <1>4. QED
    BY <1>1, <1>2, <1>3 DEF LandOK

LEMMA LandNext == IInv /\ LandInv /\ OwnErrors /\ [Next]_vars => LandInv'
  <1> SUFFICES ASSUME IInv, LandInv, OwnErrors, [Next]_vars PROVE LandInv'
    OBVIOUS
  <1>1. CASE UNCHANGED vars
    BY <1>1 DEF vars, LandInv, LandOK
  <1>2. ASSUME NEW t \in Tab, Progress(t) PROVE LandInv'
    <2>1. CASE CallbackMismatch(t) \/ ExchangeFailed(t)
      BY <2>1, LandResponds DEF CallbackMismatch, ExchangeFailed
    <2>2. QED
      BY <1>2, <2>1, LandBrowser, LandAgain, LandWithoutFlow, LandError, LandExchange, LandLoggedIn
         DEF Progress, Callback
  <1>3. CASE \E t \in Tab, p \in Page : Visit(t, p)
    BY <1>3, LandVisit
  <1>4. CASE \E t \in Tab, p \in Page, silent \in BOOLEAN : Login(t, p, silent)
    BY <1>4, LandLogin
  <1>5. CASE \/ \E t \in Tab : Reload(t)
             \/ \E t \in Tab, u \in Tab : t # u /\ Duplicate(t, u)
    BY <1>5, LandBrowser
  <1>6. CASE (\E f \in Flow : FlowExpires(f)) \/ SessionEnds
    BY <1>6, LandEnvironment
  <1>7. CASE Restart
    BY <1>7, LandRestart
  <1>8. QED
    BY <1>1, <1>2, <1>3, <1>4, <1>5, <1>6, <1>7 DEF Next

\* README.md's promise but for the one defect: while no error that web.rs
\* `callback` escalates came with another tab's cookie, every tab that ends on
\* a page ends on the one it asked for, or on the root. The branch of
\* a code compares the request's state with the flow's; the error's does not.
THEOREM LandsBackUncrossed == Spec => LandsBackOnOwnErrors
  <1>1. LandInv => LandsBack
    BY DEF LandInv, LandOK, LandsBack
  <1>2. Spec /\ []OwnErrors => []LandInv
    BY LandInit, LandNext, InductiveInvariant, PTL DEF Spec
  <1>3. QED
    BY <1>1, <1>2, PTL DEF LandsBackOnOwnErrors
=============================================================================
