--------------------------- MODULE AuthGateProofs ---------------------------
(* Who may pass, for any users, groups, gates and handlers.                  *)
EXTENDS AuthGate, TLAPS

LEMMA UnresolvedIsAContext ==
  ASSUME NEW kind \in {"Missing", "Disabled", "Anonymous"}
  PROVE  /\ Unresolved(kind) \in Context
         /\ Unresolved(kind).kind = kind
  BY DEF Unresolved, Context

LEMMA InitInv == Init => IInv
  <1> SUFFICES ASSUME Init PROVE IInv
    OBVIOUS
  <1>1. Unresolved("Missing") \in Context /\ Unresolved("Missing").kind = "Missing"
    BY UnresolvedIsAContext
  <1>2. request \in RequestState
    BY <1>1 DEF Init, RequestState
  <1>3. TypeOK
    BY <1>2, GateAssumption DEF Init, TypeOK
  <1>4. request.context.kind = "Missing" /\ request.pc = "new" /\ request.answer = None
        /\ request.passed = 0
    BY <1>1 DEF Init
  <1>5. ContextOK
    BY <1>4 DEF ContextOK
  <1>6. None # "admitted"
    BY GateAssumption
  <1>7. PassedOK
    BY <1>4, <1>6 DEF PassedOK
  <1>8. QED
    BY <1>3, <1>5, <1>7 DEF IInv

LEMMA FactsOfNow ==
  ASSUME TypeOK
  PROVE  VouchedNow \subseteq Fact
  BY GateAssumption DEF VouchedNow, TypeOK, Fact, Principal

\* Nothing is resolved yet.
LEMMA BeginStep ==
  ASSUME IInv, NEW wrapped \in BOOLEAN, NEW route \in Route,
         NEW bearer \in TokenUser \cup {None}, NEW cookie \in SessionUser \cup {None},
         Begin(wrapped, route, bearer, cookie)
  PROVE  IInv'
  <1> DEFINE off == ~providers.oidc /\ ~providers.bearer
             kind == IF wrapped /\ off THEN "Disabled" ELSE "Missing"
             pc == IF wrapped /\ ~off THEN "resolving" ELSE "extracting"
  <1>1. request' = [pc |-> pc, bearer |-> bearer, cookie |-> cookie, route |-> route,
                    passed |-> 0, context |-> Unresolved(kind), answer |-> None]
        /\ UNCHANGED <<providers, idp, changes>> /\ vouched' = VouchedNow'
    BY DEF Begin
  <1>2. Unresolved(kind) \in Context /\ Unresolved(kind).kind = kind
    BY DEF Unresolved, Context
  <1>3. kind \in {"Disabled", "Missing"} /\ (kind = "Disabled" => off)
        /\ pc \in {"resolving", "extracting"}
    OBVIOUS
  <1> HIDE DEF kind, pc
  <1>4. route \in Seq(Extractor) /\ Len(route) \in Nat
    BY GateAssumption
  <1>5. request' \in RequestState
    BY <1>1, <1>2, <1>3, <1>4 DEF RequestState
  <1>6. VouchedNow' \subseteq Fact
    BY <1>1, GateAssumption DEF IInv, TypeOK, VouchedNow, Fact, Principal, idp
  <1>7. TypeOK'
    BY <1>1, <1>5, <1>6 DEF IInv, TypeOK, idp
  <1>8. request'.context.kind = kind /\ request'.passed = 0 /\ request'.answer = None
    BY <1>1, <1>2
  <1>9. ContextOK'
    BY <1>1, <1>3, <1>8 DEF ContextOK, Unchecked
  <1>10. PassedOK'
    BY <1>8, GateAssumption DEF PassedOK
  <1>11. QED
    BY <1>7, <1>9, <1>10 DEF IInv

\* The identity is one the IdP vouches for at this moment.
LEMMA ResolveStep ==
  ASSUME IInv, Resolve
  PROVE  IInv'
  <1>1. PICK context \in Outcomes :
          request' = [request EXCEPT !.context = context, !.pc = "extracting"]
    BY DEF Resolve
  <1>2. request \in RequestState /\ request.pc = "resolving" /\ request.passed = 0
        /\ UNCHANGED <<providers, member, tokens, sessions, vouched, changes>>
    BY DEF IInv, TypeOK, Resolve, PassedOK, idp
  <1>3. /\ context \in Context
        /\ context.kind = "Authenticated" =>
             /\ [via |-> context.via, principal |-> context.principal] \in VouchedNow
             /\ context.via = IF request.bearer # None THEN "Bearer" ELSE "Session"
        /\ context.kind = "Disabled" => Unchecked
    <2>1. ASSUME NEW kind \in {"Anonymous", "Disabled"}, context = Unresolved(kind),
                 kind = "Disabled" => Unchecked
          PROVE  <1>3!:
      BY <2>1 DEF Unresolved, Context
    <2>2. ASSUME NEW u \in tokens, u = request.bearer, context = Resolved("Bearer", u)
          PROVE  <1>3!:
      <3>1. [user |-> u, groups |-> member[u]] \in Principal
        BY <2>2, GateAssumption DEF IInv, TypeOK, Principal
      <3>2. u # None
        BY <2>2, GateAssumption DEF IInv, TypeOK
      <3>3. context \in Context
        BY <2>2, <3>1 DEF Resolved, Context
      <3>4. [via |-> context.via, principal |-> context.principal] \in VouchedNow
        BY <2>2 DEF VouchedNow, Resolved
      <3>5. QED
        BY <2>2, <3>2, <3>3, <3>4 DEF Resolved
    <2>3. ASSUME NEW u \in sessions, u = request.cookie, request.bearer = None,
                 context = Resolved("Session", u)
          PROVE  <1>3!:
      <3>1. [user |-> u, groups |-> member[u]] \in Principal
        BY <2>3, GateAssumption DEF IInv, TypeOK, Principal
      <3>2. context \in Context
        BY <2>3, <3>1 DEF Resolved, Context
      <3>3. [via |-> context.via, principal |-> context.principal] \in VouchedNow
        BY <2>3 DEF VouchedNow, Resolved
      <3>4. QED
        BY <2>3, <3>2, <3>3 DEF Resolved
    <2>4. CASE request.bearer # None
      BY <2>1, <2>2, <2>4 DEF Outcomes
    <2>5. CASE request.bearer = None
      <3>1. CASE context = Unresolved("Disabled") /\ providers.stub
        BY <2>1, <2>5, <3>1 DEF Unchecked
      <3>2. CASE context = Unresolved("Anonymous")
        BY <2>1, <3>2
      <3>3. QED
        BY <2>3, <2>5, <3>1, <3>2 DEF Outcomes
    <2>6. QED
      BY <2>4, <2>5
  <1>4. request' \in RequestState
    BY <1>1, <1>2, <1>3 DEF RequestState
  <1>5. /\ request'.context = context /\ request'.pc = "extracting"
        /\ request'.bearer = request.bearer /\ request'.passed = 0
        /\ request'.answer = request.answer /\ request'.route = request.route
    BY <1>1, <1>2 DEF RequestState
  <1>6. TypeOK'
    BY <1>2, <1>4 DEF IInv, TypeOK
  <1>7. VouchedNow \subseteq vouched
    BY <1>2 DEF IInv, ContextOK
  <1>8. ContextOK'
    BY <1>2, <1>3, <1>5, <1>7 DEF ContextOK, Unchecked
  <1>9. PassedOK'
    <2>1. \A i \in 1..request'.passed : FALSE
      BY <1>5
    <2>2. request.answer = "admitted" => request.passed = Len(request.route)
      BY DEF IInv, PassedOK
    <2>3. QED
      BY <1>2, <1>5, <2>1, <2>2 DEF PassedOK
  <1>10. QED
    BY <1>6, <1>8, <1>9 DEF IInv

\* The context stays, and with it what the extractors before said.
LEMMA ExtractStep ==
  ASSUME IInv, Extract \/ Admit
  PROVE  IInv'
  <1>1. request \in RequestState /\ request.pc = "extracting"
        /\ UNCHANGED <<providers, member, tokens, sessions, vouched, changes>>
    BY DEF IInv, TypeOK, Extract, Admit, idp
  <1>2. ASSUME NEW answer \in {None, "admitted", "unauthenticated", "denied", "internal"},
               NEW passed \in Nat, NEW pc \in {"extracting", "answered"},
               request' = [request EXCEPT !.pc = pc, !.passed = passed, !.answer = answer],
               \A i \in 1..passed : Lets(request.route[i]),
               answer = "admitted" => passed = Len(request.route)
        PROVE  IInv'
    <2>1. request' \in RequestState
      BY <1>1, <1>2 DEF RequestState
    <2>2. /\ request'.context = request.context /\ request'.bearer = request.bearer
          /\ request'.route = request.route /\ request'.pc = pc /\ request'.passed = passed
          /\ request'.answer = answer
      BY <1>1, <1>2 DEF RequestState
    <2>3. TypeOK'
      BY <1>1, <2>1 DEF IInv, TypeOK
    <2>4. ContextOK'
      BY <1>1, <1>2, <2>2 DEF IInv, ContextOK, Unchecked
    <2>5. \A i \in 1..passed : Lets(request.route[i])'
      BY <1>2, <2>2 DEF Lets
    <2>6. PassedOK'
      BY <1>2, <2>2, <2>5 DEF PassedOK
    <2>7. QED
      BY <2>3, <2>4, <2>6 DEF IInv
  <1>3. /\ request.passed \in Nat /\ \A i \in 1..request.passed : Lets(request.route[i])
        /\ request.answer \in {None, "admitted", "unauthenticated", "denied", "internal"}
        /\ request.answer = "admitted" => request.passed = Len(request.route)
        /\ Len(request.route) \in Nat
    BY <1>1 DEF IInv, PassedOK, RequestState
  <1>4. CASE Admit
    <2>1. request' = [request EXCEPT !.pc = "answered", !.passed = request.passed,
                                     !.answer = "admitted"]
          /\ request.passed = Len(request.route)
      BY <1>1, <1>4 DEF Admit, RequestState
    <2>2. QED
      BY <1>2, <1>3, <2>1
  <1>5. CASE Extract
    <2> DEFINE e == request.route[request.passed + 1]
    <2>1. CASE Lets(e)
      <3>1. request' = [request EXCEPT !.pc = "extracting", !.passed = request.passed + 1,
                                       !.answer = request.answer]
        BY <1>1, <1>5, <2>1 DEF Extract, RequestState
      <3>2. \A i \in 1..(request.passed + 1) : Lets(request.route[i])
        BY <1>3, <2>1
      <3>3. request.answer # "admitted"
        BY <1>3, <1>5 DEF Extract
      <3>4. request.passed + 1 \in Nat
        BY <1>3
      <3>5. QED
        BY <1>2, <1>3, <3>1, <3>2, <3>3, <3>4
    <2>2. CASE ~Lets(e)
      <3>1. request' = [request EXCEPT !.pc = "answered", !.passed = request.passed,
                                       !.answer = Refusal(e)]
        BY <1>1, <1>5, <2>2 DEF Extract, RequestState
      <3>2. Refusal(e) \in {"unauthenticated", "denied", "internal"}
        BY DEF Refusal
      <3>3. QED
        BY <1>2, <1>3, <3>1, <3>2
    <2>3. QED
      BY <2>1, <2>2
  <1>6. QED
    BY <1>4, <1>5

\* What the IdP has said it has said.
LEMMA ChangeStep ==
  ASSUME IInv, Changed,
         member' \in [User -> SUBSET Group], tokens' \subseteq TokenUser,
         sessions' \subseteq SessionUser
  PROVE  IInv'
  <1>1. UNCHANGED <<providers, request>> /\ vouched' = vouched \cup VouchedNow'
        /\ changes' \in 0..MaxChanges
    BY GateAssumption DEF Changed, IInv, TypeOK
  <1>2. VouchedNow' \subseteq Fact
    BY <1>1, GateAssumption DEF VouchedNow, Fact, Principal
  <1>3. TypeOK'
    BY <1>1, <1>2 DEF IInv, TypeOK
  <1>4. ContextOK'
    BY <1>1 DEF IInv, ContextOK, Unchecked
  <1>5. PassedOK'
    BY <1>1 DEF IInv, PassedOK, Lets
  <1>6. QED
    BY <1>3, <1>4, <1>5 DEF IInv

LEMMA NextInv == IInv /\ [Next]_vars => IInv'
  <1> SUFFICES ASSUME IInv, [Next]_vars PROVE IInv'
    OBVIOUS
  <1>1. ASSUME NEW wrapped \in BOOLEAN, NEW route \in Route,
               NEW bearer \in TokenUser \cup {None}, NEW cookie \in SessionUser \cup {None},
               Begin(wrapped, route, bearer, cookie)
        PROVE  IInv'
    BY <1>1, BeginStep
  <1>2. CASE Resolve
    BY <1>2, ResolveStep
  <1>3. CASE Extract \/ Admit
    BY <1>3, ExtractStep
  <1>4. ASSUME NEW u \in TokenUser, Token(u) PROVE IInv'
    <2>1. tokens' \subseteq TokenUser
      BY <1>4 DEF Token, IInv, TypeOK
    <2>2. QED
      BY <1>4, <2>1, ChangeStep DEF Token, IInv, TypeOK
  <1>5. ASSUME NEW u \in SessionUser, Session(u) PROVE IInv'
    <2>1. sessions' \subseteq SessionUser
      BY <1>5 DEF Session, IInv, TypeOK
    <2>2. QED
      BY <1>5, <2>1, ChangeStep DEF Session, IInv, TypeOK
  <1>6. ASSUME NEW u \in User, NEW g \in Group, Membership(u, g) PROVE IInv'
    <2>1. member' \in [User -> SUBSET Group]
      BY <1>6 DEF Membership, IInv, TypeOK
    <2>2. QED
      BY <1>6, <2>1, ChangeStep DEF Membership, IInv, TypeOK
  <1>7. CASE UNCHANGED vars
    <2>1. TypeOK'
      BY <1>7 DEF vars, idp, IInv, TypeOK
    <2>2. ContextOK'
      BY <1>7 DEF vars, idp, IInv, ContextOK, Unchecked, VouchedNow
    <2>3. PassedOK'
      BY <1>7 DEF vars, idp, IInv, PassedOK, Lets
    <2>4. QED
      BY <2>1, <2>2, <2>3 DEF IInv
  <1>8. QED
    BY <1>1, <1>2, <1>3, <1>4, <1>5, <1>6, <1>7 DEF Next

-----------------------------------------------------------------------------

\* The context of a request is vouched for or unchecked, and every extractor
\* passed so far agrees to it.
THEOREM InductiveInvariant == Spec => []IInv
  <1>1. Init => IInv
    BY InitInv
  <1>2. IInv /\ [Next]_vars => IInv'
    BY NextInv
  <1>3. QED
    BY <1>1, <1>2, PTL DEF Spec

\* No handler runs for anybody who was not entitled to it at one instant of the
\* request, whatever the gates are and however the IdP changes meanwhile.
THEOREM Entitled == Spec => []AdmittedWasEntitled
  <1>1. IInv => AdmittedWasEntitled
    <2> SUFFICES ASSUME IInv, request.answer = "admitted", Demanding # {}
                 PROVE  \/ /\ Unchecked
                           /\ \A i \in Demanding : request.route[i] # "ServiceAccount"
                        \/ \E fact \in vouched :
                             /\ fact.via = IF request.bearer # None THEN "Bearer" ELSE "Session"
                             /\ \A i \in Demanding : Satisfies(fact, request.route[i])
      BY DEF AdmittedWasEntitled
    <2> DEFINE context == request.context
               fact == [via |-> context.via, principal |-> context.principal]
    <2>1. context \in Context
      BY DEF IInv, TypeOK, RequestState
    <2>2. \A i \in Demanding : /\ Lets(request.route[i])
                               /\ request.route[i] # "MaybeAuthenticated"
      BY DEF IInv, PassedOK, Demanding
    <2>3. CASE context.kind = "Disabled"
      <3>1. context.via = None /\ None # "Bearer"
        BY <2>1, <2>3, GateAssumption DEF Context
      <3>2. \A i \in Demanding : request.route[i] # "ServiceAccount"
        BY <2>2, <3>1, GateAssumption DEF Lets
      <3>3. QED
        BY <2>3, <3>2 DEF IInv, ContextOK
    <2>4. CASE context.kind = "Authenticated"
      <3>1. fact \in vouched /\ fact.via = IF request.bearer # None THEN "Bearer" ELSE "Session"
        BY <2>4 DEF IInv, ContextOK
      <3>2. \A i \in Demanding : Satisfies(fact, request.route[i])
        BY <2>2, <2>4, GateAssumption DEF Lets, Satisfies
      <3>3. QED
        BY <3>1, <3>2
    <2>5. CASE context.kind \in {"Missing", "Anonymous"}
      <3>1. context.via = None /\ None # "Bearer"
        BY <2>1, <2>5, GateAssumption DEF Context
      <3>2. \A i \in Demanding : ~Lets(request.route[i])
        BY <2>2, <2>5, <3>1, GateAssumption DEF Lets
      <3>3. QED
        BY <2>2, <3>2
    <2>6. QED
      BY <2>1, <2>3, <2>4, <2>5 DEF Context
  <1>2. QED
    BY <1>1, InductiveInvariant, PTL

-----------------------------------------------------------------------------
(* Recursion over the gates.                                                 *)

LEMMA RuleFacts ==
  ASSUME NEW g \in Gate
  PROVE  \/ Rule[g].op = "has" /\ Rule[g].group \in Group \cup {Unconfigured} /\ Halves(g) = {}
         \/ Rule[g].op = "not" /\ Rule[g].left \in Gate /\ Halves(g) = {Rule[g].left}
         \/ /\ Rule[g].op \in {"or", "and"} /\ Rule[g].left \in Gate /\ Rule[g].right \in Gate
            /\ Halves(g) = {Rule[g].left, Rule[g].right}
  BY RuleAssumption DEF Halves

LEMMA HalvesAreGates == \A g \in Gate : Halves(g) \subseteq Gate
  BY RuleFacts

\* A set of gates that some gate is in has one without a half in it.
LEMMA LeastGate ==
  ASSUME NEW S \in SUBSET Gate, NEW x \in S
  PROVE  \E g \in S : \A h \in Halves(g) : h \notin S
  BY RuleAssumption

Closed(S) == S \subseteq Gate /\ \A g \in S : Halves(g) \subseteq S

\* f is what c makes of it, for the gates of S.
Solves(f, c, S) == \A g \in S : f[g] = c[<<g, f>>]

\* c takes of a function its values for the halves of a gate only.
OfHalves(c, V) ==
  \A g \in Gate : \A f1, f2 \in [Gate -> V] :
    (\A h \in Halves(g) : f1[h] = f2[h]) => c[<<g, f1>>] = c[<<g, f2>>]

LEMMA OneSolution ==
  ASSUME NEW V, NEW c \in [Gate \X [Gate -> V] -> V], OfHalves(c, V),
         NEW S1, NEW f1 \in [Gate -> V], Closed(S1), Solves(f1, c, S1),
         NEW S2, NEW f2 \in [Gate -> V], Closed(S2), Solves(f2, c, S2)
  PROVE  \A g \in S1 \cap S2 : f1[g] = f2[g]
  <1> DEFINE T == {g \in S1 \cap S2 : f1[g] # f2[g]}
  <1> SUFFICES ASSUME NEW x \in T PROVE FALSE
    OBVIOUS
  <1>1. T \in SUBSET Gate
    BY DEF Closed
  <1>2. PICK g \in T : \A h \in Halves(g) : h \notin T
    BY <1>1, LeastGate
  <1>3. \A h \in Halves(g) : f1[h] = f2[h]
    BY <1>2 DEF Closed
  <1>4. c[<<g, f1>>] = c[<<g, f2>>]
    BY <1>1, <1>3 DEF OfHalves
  <1> QED
    BY <1>4 DEF Solves

LEMMA Recursion ==
  ASSUME NEW V, NEW any \in V, NEW c \in [Gate \X [Gate -> V] -> V], OfHalves(c, V)
  PROVE  \E f \in [Gate -> V] : Solves(f, c, Gate)
  <1> DEFINE Solved(g, S, h) == Closed(S) /\ g \in S /\ h \in [Gate -> V] /\ Solves(h, c, S)
             Good == {g \in Gate : \E S, h : Solved(g, S, h)}
             Value(g, v) == \E S, h : Solved(g, S, h) /\ v = h[g]
             f == [g \in Gate |-> IF g \in Good THEN CHOOSE v \in V : Value(g, v) ELSE any]
  <1>1. \A g \in Good : \E v \in V : Value(g, v)
    OBVIOUS
  <1>2. f \in [Gate -> V]
    BY <1>1
  <1>3. ASSUME NEW g \in Good, NEW S, NEW h, Solved(g, S, h)
        PROVE  f[g] = h[g]
    <2>1. Value(g, f[g])
      BY <1>1
    <2>2. PICK S1, h1 : Solved(g, S1, h1) /\ f[g] = h1[g]
      BY <2>1
    <2> QED
      BY <1>3, <2>2, OneSolution
  <1>4. ASSUME NEW g \in Good
        PROVE  Halves(g) \subseteq Good /\ f[g] = c[<<g, f>>]
    <2>1. PICK S, h : Solved(g, S, h)
      OBVIOUS
    <2>2. \A k \in S : k \in Good /\ Solved(k, S, h)
      BY <2>1 DEF Closed
    <2>3. Halves(g) \subseteq S
      BY <2>1 DEF Closed
    <2> HIDE DEF Solved, Good, f
    <2>4. \A k \in S : f[k] = h[k]
      BY <1>3, <2>2
    <2>5. h \in [Gate -> V] /\ h[g] = c[<<g, h>>] /\ g \in S /\ g \in Gate
      BY <2>1 DEF Solved, Solves, Closed
    <2>6. c[<<g, h>>] = c[<<g, f>>]
      BY <1>2, <2>3, <2>4, <2>5 DEF OfHalves
    <2> QED
      BY <2>2, <2>3, <2>4, <2>5, <2>6
  <1>5. Good = Gate
    <2> SUFFICES ASSUME NEW x \in Gate \ Good PROVE FALSE
      OBVIOUS
    <2>1. PICK g \in Gate \ Good : \A h \in Halves(g) : h \notin Gate \ Good
      BY LeastGate
    <2> DEFINE S == Good \cup {g}
               next == [k \in Gate |-> IF k = g THEN c[<<g, f>>] ELSE f[k]]
    <2>2. Halves(g) \subseteq Good /\ Good \subseteq Gate
      BY <2>1, HalvesAreGates
    <2>3. next \in [Gate -> V]
      BY <1>2
    <2>4. Closed(S)
      BY <1>4, <2>2 DEF Closed
    <2>5. \A k \in Good : next[k] = f[k]
      BY <2>1, <2>2
    <2>6. next[g] = c[<<g, f>>]
      BY <2>1
    <2> HIDE DEF f, next, Good
    <2>7. Solves(next, c, S)
      <3>1. ASSUME NEW k \in S PROVE next[k] = c[<<k, next>>]
        <4>1. Halves(k) \subseteq Good /\ k \in Gate
          BY <1>4, <2>2
        <4>2. c[<<k, next>>] = c[<<k, f>>]
          BY <1>2, <2>3, <2>5, <4>1 DEF OfHalves
        <4> QED
          BY <1>4, <2>5, <2>6, <4>2
      <3> QED
        BY <3>1 DEF Solves
    <2>8. g \in Good
      BY <2>3, <2>4, <2>7 DEF Good
    <2> QED
      BY <2>8
  <1> HIDE DEF f, Good
  <1> QED
    BY <1>2, <1>4, <1>5 DEF Solves

-----------------------------------------------------------------------------
(* The three functions over the gates are what their equations say.          *)

Named == SUBSET (Group \cup {Unconfigured, Excluded})

DenialOf(D, g, groups) ==
  LET r == Rule[g]
  IN  IF r.op = "has" THEN {r.group} \ groups
      ELSE IF r.op = "or"
      THEN IF D[r.left] = {} \/ D[r.right] = {} THEN {} ELSE D[r.left] \cup D[r.right]
      ELSE IF r.op = "and" THEN IF D[r.left] # {} THEN D[r.left] ELSE D[r.right]
      ELSE IF D[r.left] = {} THEN {Excluded} ELSE {}

TruthOf(T, g, groups) ==
  \/ Rule[g].op = "has" /\ Rule[g].group \in groups
  \/ Rule[g].op = "or" /\ (T[Rule[g].left] \/ T[Rule[g].right])
  \/ Rule[g].op = "and" /\ T[Rule[g].left] /\ T[Rule[g].right]
  \/ Rule[g].op = "not" /\ ~T[Rule[g].left]

PositiveOf(P, g) ==
  \/ Rule[g].op = "has"
  \/ Rule[g].op \in {"or", "and"} /\ P[Rule[g].left] /\ P[Rule[g].right]

LEMMA DenialsUnfold ==
  ASSUME NEW groups
  PROVE  /\ Denials(groups) \in [Gate -> Named]
         /\ \A g \in Gate : Denials(groups)[g] = DenialOf(Denials(groups), g, groups)
  <1> DEFINE c == [p \in Gate \X [Gate -> Named] |-> DenialOf(p[2], p[1], groups)]
  <1>1. ASSUME NEW g \in Gate, NEW D, \A h \in Halves(g) : D[h] \in Named
        PROVE  DenialOf(D, g, groups) \in Named
    BY <1>1, RuleFacts DEF DenialOf, Named
  <1>2. \A g \in Gate, D \in [Gate -> Named] : c[<<g, D>>] = DenialOf(D, g, groups)
    OBVIOUS
  <1>3. c \in [Gate \X [Gate -> Named] -> Named]
    BY <1>1, HalvesAreGates
  <1> HIDE DEF c
  <1>4. OfHalves(c, Named)
    <2> SUFFICES ASSUME NEW g \in Gate, NEW D1 \in [Gate -> Named], NEW D2 \in [Gate -> Named],
                        \A h \in Halves(g) : D1[h] = D2[h]
                 PROVE  c[<<g, D1>>] = c[<<g, D2>>]
      BY DEF OfHalves
    <2>1. DenialOf(D1, g, groups) = DenialOf(D2, g, groups)
      BY RuleFacts DEF DenialOf
    <2> QED
      BY <1>2, <2>1
  <1>5. {} \in Named
    BY DEF Named
  <1>6. PICK D \in [Gate -> Named] : Solves(D, c, Gate)
    BY <1>3, <1>4, <1>5, Recursion
  <1>7. D = [g \in Gate |-> DenialOf(D, g, groups)]
    BY <1>2, <1>6 DEF Solves
  <1>8. Denials(groups) = CHOOSE F : F = [g \in Gate |-> DenialOf(F, g, groups)]
    BY DEF Denials, DenialOf
  <1> DEFINE It == Denials(groups)
  <1>9. It = [g \in Gate |-> DenialOf(It, g, groups)]
    BY <1>7, <1>8
  <1> HIDE DEF It
  <1>10. \A g \in Gate : It[g] = DenialOf(It, g, groups)
    BY <1>9
  <1>11. ASSUME NEW x \in Gate, It[x] \notin Named PROVE FALSE
    <2> DEFINE T == {g \in Gate : It[g] \notin Named}
    <2>1. PICK g \in T : \A h \in Halves(g) : h \notin T
      BY <1>11, LeastGate
    <2>2. \A h \in Halves(g) : It[h] \in Named
      BY <2>1, HalvesAreGates
    <2> QED
      BY <1>1, <1>10, <2>2
  <1> QED
    BY <1>9, <1>10, <1>11 DEF It

LEMMA TruthUnfold ==
  ASSUME NEW groups
  PROVE  \A g \in Gate : Truth(groups)[g] = TruthOf(Truth(groups), g, groups)
  <1> DEFINE c == [p \in Gate \X [Gate -> BOOLEAN] |-> TruthOf(p[2], p[1], groups)]
  <1>1. \A g \in Gate, T \in [Gate -> BOOLEAN] : TruthOf(T, g, groups) \in BOOLEAN
    BY DEF TruthOf
  <1>2. \A g \in Gate, T \in [Gate -> BOOLEAN] : c[<<g, T>>] = TruthOf(T, g, groups)
    OBVIOUS
  <1>3. c \in [Gate \X [Gate -> BOOLEAN] -> BOOLEAN]
    BY <1>1
  <1> HIDE DEF c
  <1>4. OfHalves(c, BOOLEAN)
    <2> SUFFICES ASSUME NEW g \in Gate, NEW T1 \in [Gate -> BOOLEAN],
                        NEW T2 \in [Gate -> BOOLEAN], \A h \in Halves(g) : T1[h] = T2[h]
                 PROVE  c[<<g, T1>>] = c[<<g, T2>>]
      BY DEF OfHalves
    <2>1. TruthOf(T1, g, groups) = TruthOf(T2, g, groups)
      BY RuleFacts DEF TruthOf
    <2> QED
      BY <1>2, <2>1
  <1>5. PICK T \in [Gate -> BOOLEAN] : Solves(T, c, Gate)
    <2>1. \E any : any \in BOOLEAN
      OBVIOUS
    <2> QED
      BY <1>3, <1>4, <2>1, Recursion
  <1>6. T = [g \in Gate |-> TruthOf(T, g, groups)]
    BY <1>2, <1>5 DEF Solves
  <1>7. Truth(groups) = CHOOSE F : F = [g \in Gate |-> TruthOf(F, g, groups)]
    BY DEF Truth, TruthOf
  <1> DEFINE It == Truth(groups)
  <1>8. It = [g \in Gate |-> TruthOf(It, g, groups)]
    BY <1>6, <1>7
  <1> HIDE DEF It
  <1>9. \A g \in Gate : It[g] = TruthOf(It, g, groups)
    BY <1>8
  <1> QED
    BY <1>9 DEF It

LEMMA PositiveUnfold == \A g \in Gate : Positive[g] = PositiveOf(Positive, g)
  <1> DEFINE c == [p \in Gate \X [Gate -> BOOLEAN] |-> PositiveOf(p[2], p[1])]
  <1>1. \A g \in Gate, P \in [Gate -> BOOLEAN] : PositiveOf(P, g) \in BOOLEAN
    BY DEF PositiveOf
  <1>2. \A g \in Gate, P \in [Gate -> BOOLEAN] : c[<<g, P>>] = PositiveOf(P, g)
    OBVIOUS
  <1>3. c \in [Gate \X [Gate -> BOOLEAN] -> BOOLEAN]
    BY <1>1
  <1> HIDE DEF c
  <1>4. OfHalves(c, BOOLEAN)
    <2> SUFFICES ASSUME NEW g \in Gate, NEW P1 \in [Gate -> BOOLEAN],
                        NEW P2 \in [Gate -> BOOLEAN], \A h \in Halves(g) : P1[h] = P2[h]
                 PROVE  c[<<g, P1>>] = c[<<g, P2>>]
      BY DEF OfHalves
    <2>1. PositiveOf(P1, g) = PositiveOf(P2, g)
      BY RuleFacts DEF PositiveOf
    <2> QED
      BY <1>2, <2>1
  <1>5. PICK P \in [Gate -> BOOLEAN] : Solves(P, c, Gate)
    <2>1. \E any : any \in BOOLEAN
      OBVIOUS
    <2> QED
      BY <1>3, <1>4, <2>1, Recursion
  <1>6. P = [g \in Gate |-> PositiveOf(P, g)]
    BY <1>2, <1>5 DEF Solves
  <1>7. Positive = CHOOSE F : F = [g \in Gate |-> PositiveOf(F, g)]
    BY DEF Positive, PositiveOf
  <1> DEFINE It == Positive
  <1>8. It = [g \in Gate |-> PositiveOf(It, g)]
    BY <1>6, <1>7
  <1> HIDE DEF It
  <1>9. \A g \in Gate : It[g] = PositiveOf(It, g)
    BY <1>8
  <1> QED
    BY <1>9 DEF It

\* A gate opens exactly to the groups its truth table says.
LEMMA OpensIsTruth ==
  ASSUME NEW groups, NEW gate \in Gate
  PROVE  Opens(gate, groups) <=> Truth(groups)[gate]
  <1> DEFINE D == Denials(groups)
             T == Truth(groups)
             S == {g \in Gate : ~((D[g] = {}) <=> T[g])}
  <1> SUFFICES ASSUME gate \in S PROVE FALSE
    BY DEF Opens
  <1>1. PICK g \in S : \A h \in Halves(g) : h \notin S
    BY LeastGate
  <1>2. D[g] = DenialOf(D, g, groups) /\ (T[g] <=> TruthOf(T, g, groups))
    BY DenialsUnfold, TruthUnfold
  <1> HIDE DEF D, T
  <1>3. \A h \in Halves(g) : (D[h] = {}) <=> T[h]
    BY <1>1, HalvesAreGates
  <1>4. CASE Rule[g].op = "has"
    BY <1>2, <1>4 DEF DenialOf, TruthOf
  <1>5. CASE Rule[g].op = "not"
    BY <1>2, <1>3, <1>5, RuleFacts DEF DenialOf, TruthOf
  <1>6. CASE Rule[g].op = "or"
    BY <1>2, <1>3, <1>6, RuleFacts DEF DenialOf, TruthOf
  <1>7. CASE Rule[g].op = "and"
    BY <1>2, <1>3, <1>7, RuleFacts DEF DenialOf, TruthOf
  <1> QED
    BY <1>4, <1>5, <1>6, <1>7, RuleFacts

\* What a gate without a Not names is lacking, and opens it only with one more
\* of it.
NamesTheWay(g, held) ==
  LET named == Denials(held)[g]
  IN  /\ named \cap held = {}
      /\ named # {} =>
           \A more \in SUBSET Group : Truth(held \cup more)[g] => more \cap named # {}

LEMMA PositiveGatesName ==
  ASSUME NEW held \in SUBSET Group, NEW gate \in Gate, Positive[gate]
  PROVE  NamesTheWay(gate, held)
  <1> DEFINE D == Denials(held)
             S == {g \in Gate : Positive[g] /\ ~NamesTheWay(g, held)}
  <1> SUFFICES ASSUME gate \in S PROVE FALSE
    OBVIOUS
  <1>1. PICK g \in S : \A h \in Halves(g) : h \notin S
    BY LeastGate
  <1>2. PositiveOf(Positive, g)
    BY PositiveUnfold
  <1>3. D[g] = DenialOf(D, g, held)
    BY DenialsUnfold
  <1>4. \A more \in SUBSET Group :
          Truth(held \cup more)[g] <=> TruthOf(Truth(held \cup more), g, held \cup more)
    BY TruthUnfold
  <1>5. ASSUME NEW h \in Halves(g), Positive[h]
        PROVE  /\ D[h] \cap held = {}
               /\ D[h] # {} =>
                    \A more \in SUBSET Group : Truth(held \cup more)[h] => more \cap D[h] # {}
    BY <1>1, <1>5, HalvesAreGates DEF NamesTheWay
  <1> HIDE DEF D
  <1>6. SUFFICES /\ D[g] \cap held = {}
                 /\ \A more \in SUBSET Group :
                      D[g] # {} /\ Truth(held \cup more)[g] => more \cap D[g] # {}
    BY DEF NamesTheWay, D
  <1>7. CASE Rule[g].op = "has"
    BY <1>3, <1>4, <1>7 DEF DenialOf, TruthOf
  <1>8. CASE Rule[g].op \in {"or", "and"}
    <2> DEFINE l == Rule[g].left
               r == Rule[g].right
    <2>1. l \in Halves(g) /\ r \in Halves(g) /\ Positive[l] /\ Positive[r]
      BY <1>2, <1>8, RuleFacts DEF PositiveOf
    <2>2. \A h \in {l, r} :
            /\ D[h] \cap held = {}
            /\ D[h] # {} =>
                 \A more \in SUBSET Group : Truth(held \cup more)[h] => more \cap D[h] # {}
      BY <1>5, <2>1
    <2>3. CASE Rule[g].op = "or"
      <3>1. D[g] = IF D[l] = {} \/ D[r] = {} THEN {} ELSE D[l] \cup D[r]
        BY <1>3, <2>3 DEF DenialOf
      <3>2. \A more \in SUBSET Group :
              Truth(held \cup more)[g] <=> Truth(held \cup more)[l] \/ Truth(held \cup more)[r]
        BY <1>4, <2>3 DEF TruthOf
      <3> QED
        BY <2>2, <3>1, <3>2
    <2>4. CASE Rule[g].op = "and"
      <3>1. D[g] = IF D[l] # {} THEN D[l] ELSE D[r]
        BY <1>3, <2>4 DEF DenialOf
      <3>2. \A more \in SUBSET Group :
              Truth(held \cup more)[g] <=> Truth(held \cup more)[l] /\ Truth(held \cup more)[r]
        BY <1>4, <2>4 DEF TruthOf
      <3> QED
        BY <2>2, <3>1, <3>2
    <2> QED
      BY <1>8, <2>3, <2>4
  <1> QED
    BY <1>2, <1>7, <1>8 DEF PositiveOf

-----------------------------------------------------------------------------
(* Verdicts and denials.                                                     *)

\* A denial is of the gate that comes next and does not open.
DeniedOK ==
  /\ request.pc # "answered" => request.answer = None
  /\ request.answer = "denied" =>
       LET e == request.route[request.passed + 1]
       IN  /\ request.context.kind = "Authenticated" /\ e \in Gate
           /\ ~Opens(e, request.context.principal.groups)

LEMMA DeniedStep == IInv /\ DeniedOK /\ [Next]_vars => DeniedOK'
  <1> SUFFICES ASSUME IInv, DeniedOK, [Next]_vars PROVE DeniedOK'
    OBVIOUS
  <1>1. None # "denied" /\ request \in RequestState
    BY GateAssumption DEF IInv, TypeOK
  <1>2. ASSUME request' = request PROVE DeniedOK'
    BY <1>2 DEF DeniedOK
  <1>3. CASE \E wrapped \in BOOLEAN, route \in Route, bearer \in TokenUser \cup {None},
                cookie \in SessionUser \cup {None} : Begin(wrapped, route, bearer, cookie)
    <2>1. request'.answer = None
      BY <1>3 DEF Begin
    <2> QED
      BY <1>1, <2>1 DEF DeniedOK
  <1>4. CASE Resolve
    <2>1. request'.answer = request.answer /\ request.answer = None
      BY <1>1, <1>4 DEF Resolve, RequestState, DeniedOK
    <2> QED
      BY <1>1, <2>1 DEF DeniedOK
  <1>5. CASE Admit
    <2>1. request'.answer = "admitted" /\ request'.pc = "answered"
      BY <1>1, <1>5 DEF Admit, RequestState
    <2> QED
      BY <2>1 DEF DeniedOK
  <1>6. CASE Extract
    <2> DEFINE e == request.route[request.passed + 1]
    <2>1. request.answer = None
      BY <1>6 DEF Extract, DeniedOK
    <2>2. CASE Lets(e)
      <3>1. request' = [request EXCEPT !.passed = @ + 1]
        BY <1>6, <2>2 DEF Extract
      <3>2. request'.answer = None
        BY <1>1, <2>1, <3>1 DEF RequestState
      <3> QED
        BY <1>1, <3>2 DEF DeniedOK
    <2>3. CASE ~Lets(e)
      <3>1. request' = [request EXCEPT !.pc = "answered", !.answer = Refusal(e)]
        BY <1>6, <2>3 DEF Extract
      <3>2. /\ request'.pc = "answered" /\ request'.answer = Refusal(e)
            /\ request'.route = request.route /\ request'.passed = request.passed
            /\ request'.context = request.context
        BY <1>1, <3>1 DEF RequestState
      <3>3. Refusal(e) = "denied" =>
              /\ request.context.kind = "Authenticated" /\ e \in Gate
              /\ ~Opens(e, request.context.principal.groups)
        BY <2>3 DEF Refusal, Lets
      <3> QED
        BY <3>2, <3>3 DEF DeniedOK
    <2> QED
      BY <2>2, <2>3
  <1>7. CASE \/ \E u \in TokenUser : Token(u)
             \/ \E u \in SessionUser : Session(u)
             \/ \E u \in User, g \in Group : Membership(u, g)
    BY <1>2, <1>7 DEF Token, Session, Membership, Changed
  <1>8. CASE UNCHANGED vars
    BY <1>2, <1>8 DEF vars
  <1> QED
    BY <1>3, <1>4, <1>5, <1>6, <1>7, <1>8 DEF Next

LEMMA DeniedAlways == Spec => [](IInv /\ DeniedOK)
  <1>1. Init => DeniedOK
    BY GateAssumption DEF Init, DeniedOK
  <1> QED
    BY <1>1, DeniedStep, InductiveInvariant, PTL DEF Spec

\* For any gates, however they are composed, what the extractors let pass and
\* what they deny is what the truth table of the algebra says.
THEOREM Verdicts == Spec => []VerdictsAreTrue
  <1>1. IInv /\ DeniedOK => VerdictsAreTrue
    <2> SUFFICES ASSUME IInv, DeniedOK, request.context.kind = "Authenticated"
                 PROVE  LET truth == Truth(request.context.principal.groups)
                        IN  /\ \A i \in 1..request.passed :
                                 request.route[i] \in Gate => truth[request.route[i]]
                            /\ request.answer = "denied" =>
                                 ~truth[request.route[request.passed + 1]]
      BY DEF VerdictsAreTrue
    <2> DEFINE held == request.context.principal.groups
    <2>1. ASSUME NEW i \in 1..request.passed, request.route[i] \in Gate
          PROVE  Truth(held)[request.route[i]]
      <3>1. Lets(request.route[i])
        BY <2>1 DEF IInv, PassedOK
      <3>2. Opens(request.route[i], held)
        BY <2>1, <3>1, GateAssumption DEF Lets
      <3> QED
        BY <2>1, <3>2, OpensIsTruth
    <2>2. request.answer = "denied" => ~Truth(held)[request.route[request.passed + 1]]
      BY OpensIsTruth DEF DeniedOK
    <2> QED
      BY <2>1, <2>2
  <1> QED
    BY <1>1, DeniedAlways, PTL

\* For any gates without a Not, a denial names groups the user lacks, and no
\* grant opens the gate without one of them.
THEOREM DenialsName == Spec => []DenialNamesTheWayIn
  <1>1. IInv /\ DeniedOK => DenialNamesTheWayIn
    <2> DEFINE gate == request.route[request.passed + 1]
               held == request.context.principal.groups
    <2> SUFFICES ASSUME IInv, DeniedOK, request.answer = "denied", Positive[gate]
                 PROVE  /\ Denials(held)[gate] # {} /\ Denials(held)[gate] \cap held = {}
                        /\ \A more \in SUBSET Group :
                             Truth(held \cup more)[gate] => more \cap Denials(held)[gate] # {}
      BY DEF DenialNamesTheWayIn
    <2>1. gate \in Gate /\ Denials(held)[gate] # {}
      BY DEF DeniedOK, Opens
    <2>2. held \in SUBSET Group
      <3>1. request.context \in Context /\ request.context.kind = "Authenticated"
        BY DEF IInv, TypeOK, RequestState, DeniedOK
      <3>2. request.context.principal \in Principal
        BY <3>1 DEF Context
      <3> QED
        BY <3>2 DEF Principal
    <2>3. NamesTheWay(gate, held)
      BY <2>1, <2>2, PositiveGatesName
    <2> QED
      BY <2>1, <2>3 DEF NamesTheWay
  <1> QED
    BY <1>1, DeniedAlways, PTL
=============================================================================
