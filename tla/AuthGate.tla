------------------------------ MODULE AuthGate ------------------------------
(* Who may pass: the middleware, the extractors and the gates of common-oidc *)
(* (auth.rs, predicate.rs, bearer.rs).                                       *)
(*                                                                           *)
(* The middleware resolves an identity once per request; each extractor of   *)
(* the handler then decides on what it resolved. The IdP meanwhile changes:  *)
(* users join and leave groups, tokens are revoked, sessions end. Requests   *)
(* share nothing here, so the model has one, that finds the IdP in any       *)
(* state. What resolve_session does in detail is OidcSession; here it        *)
(* answers with the user as the IdP knows them at that moment, or not.       *)
EXTENDS Integers, Sequences

CONSTANTS User, Group,
          TokenUser,   \* the users who may have a bearer token
          SessionUser, \* and those who may have a session
          Rule,        \* the gates by name: over one group, or over other gates
          Route,       \* the extractors of each handler, in order
          MaxChanges,  \* bound: changes at the IdP during a request
          None

Gate == DOMAIN Rule

Extractor == {"Authenticated", "ServiceAccount", "MaybeAuthenticated"} \cup Gate

ASSUME GateAssumption ==
  /\ None \notin User \cup {"admitted", "denied", "Bearer"}
  /\ TokenUser \subseteq User /\ SessionUser \subseteq User
  /\ Gate \cap {"Authenticated", "ServiceAccount", "MaybeAuthenticated"} = {}
  /\ Route \subseteq Seq(Extractor)
  /\ MaxChanges \in Nat

VARIABLES providers,  \* which authenticators the service configured
          member,     \* at the IdP: the effective groups of each user,
          tokens,     \* whose bearer token it accepts,
          sessions,   \* whose session resolves
          request,
          vouched,    \* history: what the IdP would have said of its credentials meanwhile
          changes     \* the changes at the IdP since the request came

vars == <<providers, member, tokens, sessions, request, vouched, changes>>

idp == <<member, tokens, sessions>>

Principal == [user : User, groups : SUBSET Group]

\* AuthContext; "Missing" is a request the middleware has not seen.
Context ==
  [kind : {"Missing", "Disabled", "Anonymous"}, via : {None}, principal : {None}]
  \cup [kind : {"Authenticated"}, via : {"Session", "Bearer"}, principal : Principal]

\* A credential names its owner, who may not be entitled to it any more.
\* `passed`: how many extractors let the request pass. "unauthenticated" is the
\* redirect to the login that a page gets as well as the 401 of all others.
RequestState ==
  [pc : {"new", "resolving", "extracting", "answered"},
   bearer : TokenUser \cup {None}, cookie : SessionUser \cup {None},
   route : Seq(Extractor), passed : Nat, context : Context,
   answer : {None, "admitted", "unauthenticated", "denied", "internal"}]

Fact == [via : {"Session", "Bearer"}, principal : Principal]

TypeOK ==
  /\ providers \in [oidc : BOOLEAN, bearer : BOOLEAN, stub : BOOLEAN]
  /\ member \in [User -> SUBSET Group]
  /\ tokens \subseteq TokenUser
  /\ sessions \subseteq SessionUser
  /\ request \in RequestState
  /\ vouched \subseteq Fact
  /\ changes \in 0..MaxChanges

Unresolved(kind) == [kind |-> kind, via |-> None, principal |-> None]

Resolved(via, u) ==
  [kind |-> "Authenticated", via |-> via, principal |-> [user |-> u, groups |-> member[u]]]

Init ==
  /\ providers \in [oidc : BOOLEAN, bearer : BOOLEAN, stub : BOOLEAN]
  /\ member \in [User -> SUBSET Group]
  /\ tokens \in SUBSET TokenUser
  /\ sessions \in SUBSET SessionUser
  /\ request = [pc |-> "new", bearer |-> None, cookie |-> None, route |-> <<>>,
                passed |-> 0, context |-> Unresolved("Missing"), answer |-> None]
  /\ vouched = {}
  /\ changes = 0

-----------------------------------------------------------------------------
(* The predicate algebra (predicate.rs): the groups a denial names, none if  *)
(* the gate opens. "unconfigured" is the `-` of a group that is not set, and *)
(* "excluded" the refusal of a Not.                                          *)

Unconfigured == "unconfigured"
Excluded == "excluded"

\* The gates a gate is over.
Halves(g) ==
  CASE Rule[g].op = "has" -> {}
    [] Rule[g].op = "not" -> {Rule[g].left}
    [] OTHER -> {Rule[g].left, Rule[g].right}

\* A gate over others is a type made of theirs, so none is part of itself.
ASSUME RuleAssumption ==
  /\ Group \cap {Unconfigured, Excluded} = {}
  /\ \A g \in Gate : Rule[g] \in [op : {"has"}, group : Group \cup {Unconfigured}]
                                 \cup [op : {"not"}, left : Gate]
                                 \cup [op : {"or", "and"}, left : Gate, right : Gate]
  /\ \A part \in SUBSET Gate : part # {} => \E g \in part : Halves(g) \cap part = {}

\* Mutant: the denial of an Or names its second half only.
DenialsNameTheLast(groups) ==
  LET D[g \in Gate] ==
        LET r == Rule[g]
        IN  IF r.op = "has" THEN {r.group} \ groups
            ELSE IF r.op = "or" THEN IF D[r.left] = {} THEN {} ELSE D[r.right]
            ELSE IF r.op = "and" THEN IF D[r.left] # {} THEN D[r.left] ELSE D[r.right]
            ELSE IF D[r.left] = {} THEN {Excluded} ELSE {}
  IN  D

\* Mutant: And takes the verdict of its second half.
DenialsForgetTheFirst(groups) ==
  LET D[g \in Gate] ==
        LET r == Rule[g]
        IN  IF r.op = "has" THEN {r.group} \ groups
            ELSE IF r.op = "or"
            THEN IF D[r.left] = {} \/ D[r.right] = {} THEN {} ELSE D[r.left] \cup D[r.right]
            ELSE IF r.op = "and" THEN D[r.right]
            ELSE IF D[r.left] = {} THEN {Excluded} ELSE {}
  IN  D

Denials(groups) ==
  LET D[g \in Gate] ==
        LET r == Rule[g]
        IN  IF r.op = "has" THEN {r.group} \ groups
            ELSE IF r.op = "or"
            THEN IF D[r.left] = {} \/ D[r.right] = {} THEN {} ELSE D[r.left] \cup D[r.right]
            ELSE IF r.op = "and" THEN IF D[r.left] # {} THEN D[r.left] ELSE D[r.right]
            ELSE IF D[r.left] = {} THEN {Excluded} ELSE {}
  IN  D

Opens(g, groups) == Denials(groups)[g] = {}

-----------------------------------------------------------------------------
(* set_auth_context.                                                         *)

\* What the IdP says of a request's credentials at this moment.
VouchedNow ==
  {[via |-> "Bearer", principal |-> [user |-> u, groups |-> member[u]]] :
      u \in tokens \cap {request.bearer}}
  \cup {[via |-> "Session", principal |-> [user |-> u, groups |-> member[u]]] :
      u \in sessions \cap {request.cookie}}

\* A request comes in; one that no middleware was mounted for goes straight to
\* its extractors, and so does one of a service that authenticates nobody.
Begin(wrapped, route, bearer, cookie) ==
  /\ request.pc = "new"
  /\ LET off == ~providers.oidc /\ ~providers.bearer
     IN  request' = [pc |-> IF wrapped /\ ~off THEN "resolving" ELSE "extracting",
                     bearer |-> bearer, cookie |-> cookie,
                     route |-> route, passed |-> 0,
                     context |-> Unresolved(IF wrapped /\ off THEN "Disabled" ELSE "Missing"),
                     answer |-> None]
  /\ UNCHANGED <<providers, idp>>
  /\ vouched' = VouchedNow'
  /\ UNCHANGED changes

\* Mutant: a bearer token that is no good falls through to the session.
OutcomesFallThrough ==
  {Unresolved(IF providers.stub THEN "Disabled" ELSE "Anonymous")}
  \cup {Resolved("Bearer", u) : u \in {v \in tokens : v = request.bearer /\ providers.bearer}}
  \cup {Resolved("Session", u) : u \in {v \in sessions : v = request.cookie /\ providers.oidc}}

\* resolve_context: a bearer token decides alone. Any answer of the IdP may be
\* missing, or be one that says nothing of the user.
Outcomes ==
  IF request.bearer # None
  THEN {Unresolved("Anonymous")}
       \cup {Resolved("Bearer", u) : u \in {v \in tokens : v = request.bearer /\ providers.bearer}}
  ELSE {Unresolved(IF providers.stub THEN "Disabled" ELSE "Anonymous")}
       \cup {Resolved("Session", u) : u \in {v \in sessions : v = request.cookie /\ providers.oidc}}

Resolve ==
  /\ request.pc = "resolving"
  /\ \E context \in Outcomes :
       request' = [request EXCEPT !.context = context, !.pc = "extracting"]
  /\ UNCHANGED <<providers, idp, vouched, changes>>

-----------------------------------------------------------------------------
(* The extractors of the handler, in order.                                  *)

\* Mutant: a gate asks the IdP again.
LetsByNow(e) ==
  LET context == request.context
  IN  \/ e = "MaybeAuthenticated"
      \/ e = "Authenticated" /\ context.kind \in {"Disabled", "Authenticated"}
      \/ e = "ServiceAccount" /\ context.via = "Bearer"
      \/ e \in Gate /\ context.kind = "Disabled"
      \/ e \in Gate /\ context.kind = "Authenticated" /\ Opens(e, member[context.principal.user])

Lets(e) ==
  LET context == request.context
  IN  \/ e = "MaybeAuthenticated"
      \/ e = "Authenticated" /\ context.kind \in {"Disabled", "Authenticated"}
      \/ e = "ServiceAccount" /\ context.via = "Bearer"
      \/ e \in Gate /\ context.kind = "Disabled"
      \/ e \in Gate /\ context.kind = "Authenticated" /\ Opens(e, context.principal.groups)

\* A service may word the two refusals itself: on_unauthorized, on_denied.
Refusal(e) ==
  IF request.context.kind = "Missing" THEN "internal"
  ELSE IF e \in Gate /\ request.context.kind = "Authenticated" THEN "denied"
  ELSE "unauthenticated"

Extract ==
  /\ request.pc = "extracting" /\ request.passed < Len(request.route)
  /\ LET e == request.route[request.passed + 1]
     IN  request' = IF Lets(e) THEN [request EXCEPT !.passed = @ + 1]
                    ELSE [request EXCEPT !.pc = "answered", !.answer = Refusal(e)]
  /\ UNCHANGED <<providers, idp, vouched, changes>>

Admit ==
  /\ request.pc = "extracting" /\ request.passed = Len(request.route)
  /\ request' = [request EXCEPT !.pc = "answered", !.answer = "admitted"]
  /\ UNCHANGED <<providers, idp, vouched, changes>>

-----------------------------------------------------------------------------
(* The IdP, while the request is in progress.                                *)

Changed ==
  /\ request.pc \in {"resolving", "extracting"} /\ changes < MaxChanges
  /\ UNCHANGED <<providers, request>>
  /\ vouched' = vouched \cup VouchedNow'
  /\ changes' = changes + 1

\* A user joins a group, or leaves one.
Membership(u, g) ==
  /\ member' = [member EXCEPT ![u] = IF g \in @ THEN @ \ {g} ELSE @ \cup {g}]
  /\ UNCHANGED <<tokens, sessions>>
  /\ Changed

\* A token is revoked, or another one is issued.
Token(u) ==
  /\ tokens' = IF u \in tokens THEN tokens \ {u} ELSE tokens \cup {u}
  /\ UNCHANGED <<member, sessions>>
  /\ Changed

\* A user logs out, or in.
Session(u) ==
  /\ sessions' = IF u \in sessions THEN sessions \ {u} ELSE sessions \cup {u}
  /\ UNCHANGED <<member, tokens>>
  /\ Changed

Next ==
  \/ \E wrapped \in BOOLEAN, route \in Route,
        bearer \in TokenUser \cup {None}, cookie \in SessionUser \cup {None} :
       Begin(wrapped, route, bearer, cookie)
  \/ Resolve
  \/ Extract
  \/ Admit
  \/ \E u \in TokenUser : Token(u)
  \/ \E u \in SessionUser : Session(u)
  \/ \E u \in User, g \in Group : Membership(u, g)

Spec == Init /\ [][Next]_vars

-----------------------------------------------------------------------------

\* The cases in which nobody is checked: no authenticator is configured, or a
\* development stub is and the request brings no token.
Unchecked == (~providers.oidc /\ ~providers.bearer) \/ (providers.stub /\ request.bearer = None)

\* An extractor's condition on what the IdP says.
Satisfies(fact, e) ==
  /\ e \in Gate => Opens(e, fact.principal.groups)
  /\ e = "ServiceAccount" => fact.via = "Bearer"

Demanding == {i \in 1..Len(request.route) : request.route[i] # "MaybeAuthenticated"}

\* Whoever a handler runs for was, at one instant of the request, vouched for by
\* the IdP under the credential that counts (a bearer token if there is one,
\* however good the cookie), with groups that open every gate of the handler at
\* once. Only an unchecked service does without, and never for ServiceAccount.
AdmittedWasEntitled ==
  request.answer = "admitted" /\ Demanding # {} =>
    \/ Unchecked /\ \A i \in Demanding : request.route[i] # "ServiceAccount"
    \/ \E fact \in vouched :
         /\ fact.via = IF request.bearer # None THEN "Bearer" ELSE "Session"
         /\ \A i \in Demanding : Satisfies(fact, request.route[i])

\* The truth table of the algebra ("combinator_truth_table").
Truth(groups) ==
  LET T[g \in Gate] ==
        \/ Rule[g].op = "has" /\ Rule[g].group \in groups
        \/ Rule[g].op = "or" /\ (T[Rule[g].left] \/ T[Rule[g].right])
        \/ Rule[g].op = "and" /\ T[Rule[g].left] /\ T[Rule[g].right]
        \/ Rule[g].op = "not" /\ ~T[Rule[g].left]
  IN  T

\* The verdicts on a user, short-circuits and the order of the extractors
\* included, are those of the truth table on the groups the IdP named.
VerdictsAreTrue ==
  request.context.kind = "Authenticated" =>
    LET truth == Truth(request.context.principal.groups)
    IN  /\ \A i \in 1..request.passed : request.route[i] \in Gate => truth[request.route[i]]
        /\ request.answer = "denied" => ~truth[request.route[request.passed + 1]]

\* Gates without a Not.
Positive ==
  LET P[g \in Gate] ==
        \/ Rule[g].op = "has"
        \/ Rule[g].op \in {"or", "and"} /\ P[Rule[g].left] /\ P[Rule[g].right]
  IN  P

\* A denial names the way in ("or_denial_names_both_required_groups"): groups
\* the user lacks, at least one of which must be granted before the gate opens,
\* whatever else is granted.
DenialNamesTheWayIn ==
  request.answer = "denied" =>
    LET gate  == request.route[request.passed + 1]
        held  == request.context.principal.groups
        named == Denials(held)[gate]
    IN  Positive[gate] =>
          /\ named # {} /\ named \cap held = {}
          /\ \A more \in SUBSET Group : Truth(held \cup more)[gate] => more \cap named # {}

-----------------------------------------------------------------------------
(* The inductive invariant behind AdmittedWasEntitled.                       *)

ContextOK ==
  LET context == request.context
  IN  /\ context.kind = "Authenticated" =>
           /\ [via |-> context.via, principal |-> context.principal] \in vouched
           /\ context.via = IF request.bearer # None THEN "Bearer" ELSE "Session"
      /\ context.kind = "Disabled" => Unchecked
      /\ request.pc = "resolving" => VouchedNow \subseteq vouched

PassedOK ==
  /\ \A i \in 1..request.passed : Lets(request.route[i])
  /\ request.pc = "resolving" => request.passed = 0
  /\ request.answer = "admitted" => request.passed = Len(request.route)

IInv == TypeOK /\ ContextOK /\ PassedOK
=============================================================================
