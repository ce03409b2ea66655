-------------------------- MODULE MCClientPipeline --------------------------
(* Three handlers: two whose signature the sources vary, and one whose name  *)
(* is the other's link.                                                      *)
EXTENDS ClientPipeline, TLC

MCParamName == "{id}" :> "id" @@ "{n}" :> "n" @@ "{in}" :> "in" @@ "{name}" :> "name"
MCLiteral   == "{{x}}" :> "{x}"
MCSegment   == {"", "api", "runs", "{{x}}"} \cup DOMAIN MCParamName

MCHandler == {"run", "runs", "run_url"}
MCNameOf  == "run" :> <<"run">> @@ "runs" :> <<"runs">> @@ "run_url" :> <<"run", "url">>
MCNamed   ==
  [t \in {"string", "number", "void", "[string, number]", "template"} |-> {}]
    @@ "Run" :> {"Run"} @@ "Array<Run>" :> {"Array", "Run"}
    @@ "FormData" :> {"FormData"} @@ "At" :> {"At"}

None_   == [shape |-> "absent", ts |-> "", parts |-> <<>>]
Prim(t) == [shape |-> "primitive", ts |-> t, parts |-> <<>>]
P(n, t) == [name |-> n, ts |-> t]
Pair    == [shape |-> "tuple", ts |-> "[string, number]", parts |-> <<P("", "string"), P("", "number")>>]
At_     == [shape |-> "struct", ts |-> "At", parts |-> <<P("n", "number"), P("id", "string")>>]

In(by, of) == [by |-> by, of |-> of]
Json(t)    == [shape |-> "json", ts |-> t]
Nothing    == [shape |-> "nothing", ts |-> ""]
Opaque     == [shape |-> "opaque", ts |-> ""]

Unannotated ==
  [client |-> FALSE, async |-> TRUE, inputs |-> <<>>, output |-> Opaque,
   options |-> {}, closed |-> TRUE, template |-> <<>>]

Fn(inputs, output) ==
  [Unannotated EXCEPT !.client = TRUE, !.inputs = inputs, !.output = output]

Declaring(inputs, template) ==
  [Fn(inputs, Nothing) EXCEPT !.options = {"path"}, !.template = template]

\* Every way a path payload is bound, a declared template and a link; two that
\* do not fit any route and those that do not compile.
Run ==
  {Unannotated,
   Fn(<<In("State", None_), In("Path", Prim("string"))>>, Json("Run")),
   Fn(<<In("ApiPath", Pair), In("Json", Prim("Run"))>>, Nothing),
   [Fn(<<In("Path", At_), In("Query", Prim("At"))>>, Opaque) EXCEPT !.options = {"link"}],
   Declaring(<<In("Guard", None_)>>, <<P("id", "number")>>),
   Fn(<<In("Json", Prim("Run")), In("Multipart", None_)>>, Nothing)}

Refused ==
  {[Fn(<<>>, Nothing) EXCEPT !.async = FALSE], Fn(<<>>, Opaque), Fn(<<In("self", None_)>>, Nothing),
   Fn(<<In("Query", None_)>>, Nothing), Declaring(<<>>, <<>>),
   Declaring(<<>>, <<P("id", "string"), P("id", "string")>>),
   Declaring(<<>>, <<P("id", "null")>>), Declaring(<<>>, <<P("*id", "string")>>),
   [Declaring(<<>>, <<P("id", "string")>>) EXCEPT !.closed = FALSE],
   Declaring(<<In("Path", At_)>>, <<P("id", "string")>>),
   [Fn(<<>>, Nothing) EXCEPT !.options = {"path of no string"}],
   [Fn(<<>>, Nothing) EXCEPT !.options = {"link", "other"}]}

Runs == Fn(<<>>, Json("Array<Run>"))

MCSource ==
  {("run" :> r @@ "runs" :> s @@ "run_url" :> u) :
     r \in Run, s \in {Runs}, u \in {Unannotated, Runs}}
  \cup {("run" :> r @@ "runs" :> Runs @@ "run_url" :> Unannotated) : r \in Refused}

MCBuilds == {ExportedBy(s) : s \in {x \in MCSource : Compiles(x)}}
MCDescriptor == UNION {{b[h] : h \in DOMAIN b} : b \in MCBuilds}

At2(h, m, p) == [handler |-> h, method |-> m, path |-> p]

MCMounts ==
  {At2("run", "GET", <<"{id}">>), At2("run", "DELETE", <<"api", "runs", "{id}", "{n}">>),
   At2("run", "GET", <<"{in}">>), At2("runs", "GET", Root),
   At2("runs", "GET", <<"api">>), At2("run_url", "GET", <<"{{x}}">>)}
MCUnrecorded == {At2("runs", "GET", <<"runs">>)}
MCFiles    == {<<"api">>}
MCPrefixes == {<<"api">>, <<"api", "">>, <<"runs">>}

MCPipelineSpec == PipelineSpec
=============================================================================
