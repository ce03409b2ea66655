----------------------------- MODULE RouteTable -----------------------------
(* The recording Router (routing/router.rs, manifest.rs): what it records of *)
(* the calls that build an app, beside what the axum router inside serves.   *)
(* A path is the sequence of what stands between its slashes: "/" is <<"">>, *)
(* "/api/" is <<"api", "">>.                                                 *)
EXTENDS Naturals, Sequences

CONSTANTS Router, App, \* router values, and the one that is served in the end
          Segment,     \* what stands between two slashes, "" among them
          ParamName,   \* the name in {name} or {*name}, for the segments of that form
          Literal,     \* the text axum matches, for {{name}}: {name}
          MaxCalls     \* bound: the calls that build the app

Blank == "" \* what stands behind a slash at the end

ASSUME RouteAssumption ==
  /\ App \in Router /\ Blank \in Segment
  /\ DOMAIN ParamName \subseteq Segment \ {Blank}
  /\ DOMAIN Literal \subseteq Segment \ ({Blank} \cup DOMAIN ParamName)
  /\ MaxCalls \in Nat

VARIABLES manifest, \* of each router: what was recorded, in the order of the calls
          served,   \* of each router: axum's routes
          refused,  \* axum panicked
          calls

routeVars == <<manifest, served, refused, calls>>

Root == <<Blank>>

\* trim_end_matches('/')
Trimmed(path) ==
  LET end == CHOOSE n \in 0..Len(path) :
               /\ n = 0 \/ path[n] # Blank
               /\ \A m \in n+1..Len(path) : path[m] = Blank
  IN SubSeq(path, 1, end)

IsParam(s) == s \in DOMAIN ParamName

\* The parameters of each beginning of the path.
ParamsUpTo(path) ==
  LET names[n \in 0..Len(path)] ==
        IF n = 0 THEN <<>>
        ELSE IF IsParam(path[n]) THEN Append(names[n-1], ParamName[path[n]])
        ELSE names[n-1]
  IN names

\* In the order of the path; an escaped brace is no parameter.
PathParams(path) == ParamsUpTo(path)[Len(path)]

Registration(fqname, method, path) ==
  [fqname |-> fqname, method |-> method, path |-> path, params |-> PathParams(path)]

Route(fqname, method, path, recorded) ==
  [fqname |-> fqname, method |-> method, path |-> path, recorded |-> recorded]

LiteralOf(s) == IF s \in DOMAIN Literal THEN Literal[s] ELSE s

\* External: axum merges a second method into a path it has, and panics when the
\* method is there too, or the same path with other parameter names.
SameShape(p, q) ==
  /\ Len(p) = Len(q)
  /\ \A i \in DOMAIN p : \/ IsParam(p[i]) /\ IsParam(q[i])
                         \/ ~IsParam(p[i]) /\ ~IsParam(q[i]) /\ LiteralOf(p[i]) = LiteralOf(q[i])

Overlap(new, old) ==
  SameShape(new.path, old.path) /\ (new.path # old.path \/ new.method = old.method)

\* External: axum's path of a nested route keeps a slash at the prefix's end.
NestedPath(prefix, path) ==
  IF prefix[Len(prefix)] = Blank THEN SubSeq(prefix, 1, Len(prefix) - 1) \o path
  ELSE IF path = Root THEN prefix
  ELSE prefix \o path

RouteInit ==
  /\ manifest = [r \in Router |-> <<>>] /\ served = [r \in Router |-> {}]
  /\ refused = FALSE /\ calls = 0

Call == ~refused /\ calls < MaxCalls /\ calls' = calls + 1

\* One call: what is recorded, what axum is given, and the router it comes from
\* (r itself, when it comes from none).
Add(r, from, regs, routes) ==
  /\ Call
  /\ refused' = \E n \in routes, o \in served[r] : Overlap(n, o)
  /\ manifest' = [manifest EXCEPT ![from] = <<>>, ![r] = manifest[r] \o regs]
  /\ served' = [served EXCEPT ![from] = {}, ![r] = served[r] \cup routes]

Record(r, fqname, method, path) ==
  Add(r, r, <<Registration(fqname, method, path)>>, {Route(fqname, method, path, TRUE)})

\* get, post, put, delete, patch: the handler's type_name is its fqname.
Mount(r, h, method, path) == Record(r, <<h>>, method, path)

\* One name for each path, since the closures share a type.
StaticFile(r, path) == Record(r, <<"static_file">> \o path, "GET", path)

\* name is the segment of the assets: {name}.
StaticDir(r, prefix, name) ==
  LET path == Append(Trimmed(prefix), name) IN
  Record(r, <<"static_dir">> \o path, "GET", path)

\* axum's own route, not recorded.
PlainRoute(r, h, method, path) == Add(r, r, <<>>, {Route(<<h>>, method, path, FALSE)})

\* Mutant: the root of a nested router is nothing special.
NestedRootKept(prefix, reg) ==
  Registration(reg.fqname, reg.method, Trimmed(prefix) \o reg.path)

NestedRegistration(prefix, reg) ==
  LET base == Trimmed(prefix) IN
  Registration(reg.fqname, reg.method, IF reg.path = Root THEN base ELSE base \o reg.path)

\* The nested router is moved into the other. External: axum panics at the root.
Nest(r, prefix, from) ==
  /\ r # from
  /\ prefix # Root
  /\ Add(r, from,
         [i \in DOMAIN manifest[from] |-> NestedRegistration(prefix, manifest[from][i])],
         {[s EXCEPT !.path = NestedPath(prefix, s.path)] : s \in served[from]})

Merge(r, from) ==
  /\ r # from
  /\ Add(r, from, manifest[from], served[from])

----------------------------------------------------------------------------

\* Where a recorded route is found: axum has it under that path, or under that
\* path with a slash at its end (the root of a router nested under "/api/").
Serves(route, reg) ==
  /\ route.recorded
  /\ route.fqname = reg.fqname /\ route.method = reg.method
  /\ route.path \in {reg.path, Append(reg.path, Blank)}

\* The table is the app: whatever was nested in what, each registration of a
\* router is a route of its axum router, with the parameters of that route, and
\* each route that went through a recording call is in the table
\* (router.rs:51-171; the README promises a table the router itself recorded).
TableIsTheApp ==
  ~refused => \A r \in Router :
    /\ \A i \in DOMAIN manifest[r] :
         \E s \in served[r] : Serves(s, manifest[r][i])
                              /\ manifest[r][i].params = PathParams(s.path)
    /\ \A s \in served[r] : s.recorded =>
         \E i \in DOMAIN manifest[r] : Serves(s, manifest[r][i])
=============================================================================
