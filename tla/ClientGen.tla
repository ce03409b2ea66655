------------------------------ MODULE ClientGen ------------------------------
(* The generator (routing/generate.rs): the join of routes.json with         *)
(* handlers.json, and the functions of the client.ts it renders. An          *)
(* identifier is the sequence of its words; a type is known by its spelling, *)
(* a URL by what stands between its slashes.                                 *)
EXTENDS RouteTable, ClientMacro

CONSTANTS NameOf,  \* of a handler: its name, split at the underscores
          Named,   \* of a TypeScript spelling: the names in it that start with a capital
          ApiRoot  \* the first segment of the routes Options::include keeps

Builtin == {"Array", "Record", "Partial", "Map", "Set", "Promise", "Date"}

Reserved ==
  {"break", "case", "catch", "class", "const", "continue", "debugger", "default", "delete",
   "do", "else", "enum", "export", "extends", "false", "finally", "for", "function", "if",
   "import", "in", "instanceof", "new", "null", "return", "super", "switch", "this",
   "throw", "true", "try", "typeof", "var", "void", "while", "with", "yield", "let",
   "static", "implements", "interface", "package", "private", "protected", "public",
   "await", "query", "body"}

Include(reg) == reg.path # <<>> /\ reg.path[1] = ApiRoot

\* A word that follows an underscore is capitalised, the first one too.
Camel(name) ==
  [capital |-> name[1] = "", words |-> SelectSeq(name, LAMBDA w : w # "")]

IsLink(d) == d.response.kind = "link"

TsName(d) ==
  LET c == Camel(NameOf[d.fqname[1]]) IN
  IF IsLink(d) THEN [c EXCEPT !.words = Append(@, "url")] ELSE c

OfKinds(d, kinds) == SelectSeq(d.args, LAMBDA a : a.kind \in kinds)

PathArgs(d) == OfKinds(d, {"PATH"})

\* The first field of that name.
FieldType(arg, p) ==
  LET i == CHOOSE i \in DOMAIN arg.parts :
             arg.parts[i].name = p /\ \A j \in 1..i-1 : arg.parts[j].name # p
  IN arg.parts[i].ts

\* The route's parameters are fields of the payload, or as many as it carries.
Fits(params, arg) ==
  CASE arg.binds = "fields" -> \A p \in Elements(params) : \E f \in Elements(arg.parts) : f.name = p
    [] arg.binds = "positions" -> Len(params) = Len(arg.parts)
    [] arg.binds = "single"    -> Len(params) = 1

\* Mutant: the fields of the payload in its own order.
TypedInFieldOrder(params, arg) ==
  [i \in DOMAIN params |->
    IF arg.binds = "fields" THEN arg.parts[i]
    ELSE [name |-> params[i],
          ts |-> IF arg.binds = "positions" THEN arg.parts[i].ts ELSE arg.ts]]

Typed(params, arg) ==
  [i \in DOMAIN params |->
    [name |-> params[i],
     ts |-> CASE arg.binds = "fields"    -> FieldType(arg, params[i])
              [] arg.binds = "positions" -> arg.parts[i].ts
              [] arg.binds = "single"    -> arg.ts]]

PlanOk(reg, d) ==
  /\ CASE Len(PathArgs(d)) = 0 -> reg.params = <<>>
       [] Len(PathArgs(d)) = 1 -> Fits(reg.params, PathArgs(d)[1])
       [] OTHER                -> FALSE
  /\ \A p \in Elements(reg.params) : p \notin Reserved
  /\ Len(OfKinds(d, {"QUERY"})) <= 1
  /\ Len(OfKinds(d, {"BODY", "MULTIPART"})) <= 1

\* ${enc(name)} for a parameter; anything else is copied.
Url(path) ==
  [i \in DOMAIN path |-> IF IsParam(path[i]) THEN <<"enc", ParamName[path[i]]>> ELSE <<path[i]>>]

Under(name, args) == [i \in DOMAIN args |-> [name |-> name, ts |-> args[i].ts]]

\* The parameters after those of the path.
Rest(d) == Under("query", OfKinds(d, {"QUERY"})) \o Under("body", OfKinds(d, {"BODY", "MULTIPART"}))

\* A function: the path's parameters, then query, then body; what call is given.
FnOf(reg, d) ==
  [fqname |-> d.fqname, ts |-> TsName(d), method |-> reg.method, url |-> Url(reg.path),
   params |-> IF reg.params = <<>> THEN <<>> ELSE Typed(reg.params, PathArgs(d)[1]),
   rest |-> Rest(d), response |-> d.response]

MountedTwice(routes) ==
  \E i, j \in DOMAIN routes : i # j /\ routes[i].fqname = routes[j].fqname

\* Mutant: one descriptor is enough for all.
SomeDescribed(reg, handlers) == handlers # {}

Described(reg, handlers) == \E d \in handlers : d.fqname = reg.fqname

IsMounted(d, routes) == \E reg \in Elements(routes) : reg.fqname = d.fqname

RegOf(d, routes) == CHOOSE reg \in Elements(routes) : reg.fqname = d.fqname

\* Mutant: only what Options::include keeps.
FnsIncluded(routes, handlers) ==
  {FnOf(RegOf(d, routes), d) : d \in {x \in handlers : Include(RegOf(x, routes))}}

Fns(routes, handlers) == {FnOf(RegOf(d, routes), d) : d \in handlers}

NameClash(handlers) ==
  \E d, e \in handlers : d.fqname # e.fqname /\ TsName(d) = TsName(e)

\* What render refuses, in its order; within the loop over the handlers it is
\* the first in the file that is refused.
Refusals(routes, handlers) ==
  LET unmounted == {d \in handlers : ~IsMounted(d, routes)}
      misshapen == {d \in handlers \ unmounted : ~PlanOk(RegOf(d, routes), d)}
  IN IF MountedTwice(routes) THEN {"HandlerMountedTwice"}
     ELSE IF \E reg \in Elements(routes) : Include(reg) /\ ~Described(reg, handlers)
     THEN {"RouteWithoutHandler"}
     ELSE IF unmounted # {} \/ misshapen # {}
     THEN {"HandlerWithoutRoute" : d \in unmounted} \cup {"Shape" : d \in misshapen}
     ELSE IF NameClash(handlers) THEN {"NameClash"}
     ELSE {}

TypesIn(f) ==
  {p.ts : p \in Elements(f.params) \cup Elements(f.rest)}
    \cup (IF f.response.kind = "json" THEN {f.response.ts} ELSE {})

Imports(fns) ==
  UNION {Named[t] \ Builtin : t \in UNION {TypesIn(f) : f \in fns}} \ {"FormData"}
=============================================================================
