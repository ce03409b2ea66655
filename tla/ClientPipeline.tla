--------------------------- MODULE ClientPipeline ---------------------------
(* From the handlers to client.ts: the crate is compiled with its #[client]  *)
(* attributes, the export tests write handlers.json side by side, the app's  *)
(* export_routes builds its router and writes routes.json, and the generator *)
(* joins the two. A run stops at the first step that fails; the next one     *)
(* compiles another source and may find the staging directory of the last.   *)
EXTENDS ClientGen, HandlerExport

CONSTANTS Source,      \* what the handlers look like in the sources that are tried
          Mounts,      \* [handler, method, path]: the routes an app may mount
          Unrecorded,  \* of that form: the routes it may give axum directly
          Files,       \* the paths it may serve an embedded file under
          Prefixes,    \* the prefixes it may nest a router under
          AssetName,   \* the segment of static_dir's path
          MaxRuns,     \* bound: the runs of the recipe in one directory
          None

ASSUME PipelineAssumption ==
  /\ Builds = {ExportedBy(s) : s \in {x \in Source : Compiles(x)}}
  /\ \A s \in Source : DOMAIN s = Handler
  /\ MaxRuns \in Nat \ {0}

\* No two slashes in a row: the recorder and axum trim those differently.
IsPath(p) == p \in Seq(Segment) /\ p # <<>> /\ \A i \in 1..Len(p)-1 : p[i] # Blank

ASSUME PathAssumption ==
  /\ \A m \in Mounts \cup Unrecorded : IsPath(m.path)
  /\ \A p \in Files \cup Prefixes : IsPath(p)
  /\ AssetName \in Segment

VARIABLES source,  \* the handlers of the run
          fresh,   \* its staging directory was new
          phase,
          outcome, \* of the last run
          routes,  \* routes.json
          client,  \* client.ts
          runs     \* in this staging directory

runVars == <<source, fresh, phase, outcome, routes, client, runs>>
vars == <<exportVars, routeVars, runVars>>

PipelineInit ==
  /\ ExportInit /\ RouteInit
  /\ source = None /\ fresh = TRUE
  /\ phase = "idle" /\ outcome = None
  /\ routes = None /\ client = None
  /\ runs = 0

End(result) == phase' = "ended" /\ outcome' = result

\* The source is compiled for the tests.
Compile ==
  \E s \in Source, new \in BOOLEAN :
    /\ phase = "idle"
    /\ new \/ runs \in 1..MaxRuns-1
    /\ runs' = IF new THEN 1 ELSE runs + 1
    /\ source' = s /\ fresh' = new
    /\ UNCHANGED <<routeVars, routes, client>>
    /\ IF Compiles(s)
       THEN StartTests(ExportedBy(s), new) /\ phase' = "export" /\ outcome' = None
       ELSE UNCHANGED exportVars /\ End("CompileError")

Exporting(A) == phase = "export" /\ A /\ UNCHANGED <<routeVars, runVars>>

ExportTest(h) == Exporting(TestStep(h))

TestFails(h) == Exporting(CallFails(h) \/ WriteFails(h))

KillTests == phase = "export" /\ Kill /\ UNCHANGED <<routeVars, runVars>>

\* The recipe goes on when every test has passed.
ExportEnds ==
  /\ phase = "export" /\ Quiet
  /\ IF \E h \in Handler : test[h] = "failed"
     THEN End("TestFailed")
     ELSE phase' = "routes" /\ UNCHANGED outcome
  /\ UNCHANGED <<exportVars, routeVars, source, fresh, routes, client, runs>>

\* The app's routes(), call by call.
Build ==
  /\ phase = "routes"
  /\ \/ \E r \in Router, m \in Mounts : Mount(r, m.handler, m.method, m.path)
     \/ \E r \in Router, m \in Unrecorded : PlainRoute(r, m.handler, m.method, m.path)
     \/ \E r \in Router, path \in Files : StaticFile(r, path)
     \/ \E r \in Router, prefix \in Prefixes : StaticDir(r, prefix, AssetName)
     \/ \E r, from \in Router, prefix \in Prefixes : Nest(r, prefix, from)
     \/ \E r, from \in Router : Merge(r, from)
  /\ UNCHANGED <<exportVars, runVars>>

\* export_routes: write_manifest, or the panic of a call.
WriteManifest ==
  /\ phase = "routes"
  /\ IF refused
     THEN End("TestFailed") /\ UNCHANGED routes
     ELSE phase' = "generate" /\ routes' = manifest[App] /\ UNCHANGED outcome
  /\ UNCHANGED <<exportVars, routeVars, source, fresh, client, runs>>

\* A blank or torn handlers.json is an error, and so is one that is not there.
Generate ==
  /\ phase = "generate"
  /\ IF file.state # "list"
     THEN End("Unreadable") /\ UNCHANGED client
     ELSE LET refusals == Refusals(routes, file.handlers)
              fns == Fns(routes, file.handlers)
          IN IF refusals # {}
             THEN (\E e \in refusals : End(e)) /\ UNCHANGED client
             ELSE End("Generated") /\ client' = [fns |-> fns, imports |-> Imports(fns)]
  /\ UNCHANGED <<exportVars, routeVars, source, fresh, routes, runs>>

\* External, the recipe's mv: the three files leave the staging directory when
\* all went well. (What a failed run leaves of routes.json is overwritten before
\* it is read again.)
Leave ==
  /\ phase = "ended" /\ phase' = "idle" /\ outcome' = None
  /\ LeaveDirectory(outcome = "Generated")
  /\ routes' = None /\ client' = None
  /\ manifest' = [r \in Router |-> <<>>] /\ served' = [r \in Router |-> {}]
  /\ refused' = FALSE /\ calls' = 0
  /\ source' = None /\ UNCHANGED <<fresh, runs>>

PipelineNext ==
  \/ Compile
  \/ \E h \in Handler : ExportTest(h) \/ TestFails(h)
  \/ KillTests \/ ExportEnds
  \/ Build \/ WriteManifest \/ Generate \/ Leave

\* Every thread of the test run gets its turns, and the recipe goes on; nobody
\* must start a run, kill one or run out of space.
PipelineFairness ==
  /\ \A h \in Handler : WF_vars(ExportTest(h))
  /\ WF_vars(ExportEnds) /\ WF_vars(WriteManifest) /\ WF_vars(Generate) /\ WF_vars(Leave)

PipelineSpec == PipelineInit /\ [][PipelineNext]_vars /\ PipelineFairness

----------------------------------------------------------------------------

Generated == phase = "ended" /\ outcome = "Generated"

\* External: what a URL of the client asks for is what axum serves there.
Reaches(f, route) ==
  /\ route.method = f.method /\ Len(route.path) = Len(f.url)
  /\ \A i \in DOMAIN f.url :
       f.url[i] = IF IsParam(route.path[i]) THEN <<"enc", ParamName[route.path[i]]>>
                                            ELSE <<LiteralOf(route.path[i])>>

\* The generator copies the doubled brace of an escaped one.
Escaped(f) == \E i \in DOMAIN f.url : \E s \in DOMAIN Literal : f.url[i] = <<s>>

\* The root of a router nested under a prefix that ends in a slash is recorded
\* without it.
UnderSlash(f) ==
  \E s \in served[App] : s.fqname = f.fqname /\ Len(s.path) > Len(f.url)

\* The parameters are the encoded segments of the URL, in its order.
InOrder(params, url) ==
  LET encoded == {i \in DOMAIN url : Len(url[i]) = 2} IN
  \E at \in [DOMAIN params -> encoded] :
    /\ \A m, n \in DOMAIN params : m < n => at[m] < at[n]
    /\ \A i \in encoded : \E n \in DOMAIN params : at[n] = i
    /\ \A n \in DOMAIN params : url[at[n]] = <<"enc", params[n].name>>

\* A function of the client asks for a route of its own handler and of no other,
\* in a router put together from others, and binds the parameters of that route
\* in the order of its path; two forms of a path excepted, see above
\* (router.rs:55-171, manifest.rs:19-29, generate.rs:190-300).
ClientReachesItsHandler ==
  Generated => \A f \in client.fns : ~Escaped(f) /\ ~UnderSlash(f) =>
    /\ \E s \in served[App] : Reaches(f, s)
    /\ \A s \in served[App] : Reaches(f, s) => s.fqname = f.fqname
    /\ InOrder(f.params, f.url)

\* A route of the API that went through a recording call has exactly one function, no two
\* functions have a name in common, and no handler has two (generate.rs:302-340).
ClientCoversTheApi ==
  Generated =>
    /\ \A i \in DOMAIN manifest[App] : Include(manifest[App][i]) =>
         \E f \in client.fns : f.fqname = manifest[App][i].fqname
                               /\ f.url = Url(manifest[App][i].path)
    /\ \A f, g \in client.fns : f # g => f.ts # g.ts /\ f.fqname # g.fqname

\* The parameters are the ones a Path<T> or a template of the source gives.
PathSigned(params, d) ==
  LET names == [i \in DOMAIN params |-> params[i].name] IN
  IF Len(PathArgs(d)) = 0 THEN params = <<>>
  ELSE /\ Len(PathArgs(d)) = 1 /\ Fits(names, PathArgs(d)[1])
       /\ params = Typed(names, PathArgs(d)[1])

\* So are its query and its body, and what it returns.
Signed(f, d) == PathSigned(f.params, d) /\ f.rest = Rest(d) /\ f.response = d.response

\* A function of a handler that has the attribute now has the types of its
\* signature now, those of path, query, body and response, whatever an earlier
\* run left in the staging directory (export.rs:216-217: a descriptor replaces
\* the one before it; generate.rs:190-300).
SignaturesAreCurrent ==
  Generated => \A h \in Annotated(source) :
    /\ \E f \in client.fns : f.fqname = <<h>>
    /\ \A f \in client.fns : f.fqname = <<h>> =>
         Signed(f, DescriptorOf(h, source[h]))

\* In a new staging directory a handler without the attribute has no function,
\* and what the generator refuses is the source's: nothing is blamed on a
\* handler that is not there. (Kept in an old one, the descriptor of a handler
\* that lost its attribute is still in the list.)
NewDirectoryIsExact ==
  fresh /\ phase = "ended" =>
    /\ outcome = "Generated" =>
         {f.fqname : f \in client.fns} = {<<h>> : h \in Annotated(source)}
    /\ outcome = "HandlerWithoutRoute" =>
         \E h \in Annotated(source) : \A i \in DOMAIN routes : routes[i].fqname # <<h>>
    /\ outcome = "Unreadable" => Annotated(source) = {}

\* Every run of the recipe ends (export.rs:202-204 waits for the lock).
RunsEnd == phase # "idle" ~> phase = "idle"
=============================================================================
