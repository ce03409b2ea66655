---------------------------- MODULE ConfigDerive ----------------------------
(* #[derive(Config)]: which declarations of a configuration are compiled,    *)
(* the leaves each gives (config-derive/src/lib.rs), and how a leaf is       *)
(* spelled on the command line, in the environment and in the file (path.rs  *)
(* and schema.rs of config). A program is its structs by name; help texts,   *)
(* secrecy and the spans of errors are left out.                             *)
EXTENDS ConfigSchema, SequencesExt

CONSTANTS Struct,
          FieldName,
          Parts,     \* of each field name, its words and underscores, one after the other
          Capital,   \* of each word, app and underscore, its upper case
          Small,     \* the words without an ASCII capital
          AppName,   \* the apps of ASCII letters and digits, at least one
          DefaultText

Lone == {"required", "secret", "prod_required", "dev_only", "accepted"}

\* "unknown" stands for a key the derive does not know or cannot read. A type is
\* told apart as far as the derive looks at it: "deployment" is as plain as any.
Declared ==
  [name : FieldName, type : {"bool", "opt bool", "opt", "plain", "deployment", "struct"},
   inner : Struct \cup {None}, keys : SUBSET (Lone \cup {"nested", "unknown"}),
   default : DefaultText \cup {None}]

\* `app` is "" or "a-b" where it is no part of an environment variable.
Declaration == [app : AppName \cup {"", "a-b", None}, bin : BOOLEAN, fields : Seq(Declared)]

\* Snake case: words without a capital, one underscore between two.
PlainName(name) ==
  /\ Len(Parts[name]) % 2 = 1
  /\ \A i \in DOMAIN Parts[name] :
       IF i % 2 = 0 THEN Parts[name][i] = "_" ELSE Parts[name][i] \in Small

InCapitals(text) == [i \in DOMAIN text |-> Capital[text[i]]]

\* Names are told apart by their letters; to_ascii_uppercase tells apart what has
\* no capital; `type` is a keyword, and its raw form r#type another name.
ASSUME DeriveAssumption ==
  /\ "root" \in Struct /\ None \notin Struct
  /\ None \notin AppName \cup DefaultText
  /\ \A n \in FieldName : Parts[n] \in Seq(DOMAIN Capital \ {"-"})
  /\ \A m, n \in FieldName : Parts[m] = Parts[n] => m = n
  /\ Small \subseteq DOMAIN Capital \ {"_", "-"} /\ "config" \in Small
  /\ AppName \subseteq DOMAIN Capital /\ "_" \in DOMAIN Capital
  /\ Capital["_"] = "_" /\ Capital["config"] = "CONFIG" /\ \A w \in Small : Capital[w] # "_"
  /\ \A v, w \in Small : Capital[v] = Capital[w] => v = w
  /\ \A n \in FieldName : PlainName(n) => InCapitals(Parts[n]) # <<"TYPE">>

Optional == {"opt", "opt bool"}

FieldsOf(declaration) == {declaration.fields[i] : i \in DOMAIN declaration.fields}

Nested(field) == "nested" \in field.keys

IsDeployment(declaration, field) ==
  declaration.app # None /\ field.name = "deployment" /\ ~Nested(field)

\* The derive's own `required` of the deployment is as good as the author's.
IsRequired(declaration, field) ==
  "required" \in field.keys \/ IsDeployment(declaration, field)

-----------------------------------------------------------------------------
(* What is refused.                                                          *)

RootOk(declaration) ==
  /\ declaration.bin => declaration.app # None
  /\ declaration.app \in AppName \cup {None}
  /\ declaration.app # None => \E f \in FieldsOf(declaration) : IsDeployment(declaration, f)

NestedOk(field) == field.default = None /\ field.keys \cap Lone = {}

DeploymentOk(field) == field.default = None /\ "accepted" \notin field.keys

\* Mutant: a switch is off under prod by its type.
SwitchUnasked(declaration, field) ==
  /\ ~({"prod_required", "dev_only"} \subseteq field.keys)
  /\ "prod_required" \in field.keys =>
       field.type \in Optional /\ field.default = None /\ ~IsRequired(declaration, field)
  /\ "dev_only" \in field.keys =>
       field.type \in Optional \cup {"bool"} /\ ~IsRequired(declaration, field)

ClassOk(declaration, field) ==
  /\ ~({"prod_required", "dev_only"} \subseteq field.keys)
  /\ "prod_required" \in field.keys =>
       field.type \in Optional /\ field.default = None /\ ~IsRequired(declaration, field)
  /\ "dev_only" \in field.keys =>
       /\ field.type \in Optional \cup {"bool"} /\ ~IsRequired(declaration, field)
       /\ field.default \in {None, "false"}

PresenceOk(declaration, field) ==
  LET required == IsRequired(declaration, field)
  IN  /\ ~(field.default # None /\ required)
      /\ field.type \in Optional => field.default = None /\ ~required
      /\ field.type \notin Optional \cup {"bool"} => field.default # None \/ required

LeafOk(declaration, field) ==
  /\ IsDeployment(declaration, field) => DeploymentOk(field)
  /\ PresenceOk(declaration, field) /\ ClassOk(declaration, field)

Expands(declaration) ==
  /\ RootOk(declaration)
  /\ \A f \in FieldsOf(declaration) :
       /\ "unknown" \notin f.keys
       /\ IF Nested(f) THEN NestedOk(f) ELSE LeafOk(declaration, f)

\* rustc, of the struct and of what the derive wrote: no two fields have a name,
\* an inner schema is a struct's, a leaf is parsed from a text, a root returns its
\* deployment.
TypesCheck(declaration) ==
  /\ \A i, j \in DOMAIN declaration.fields :
       declaration.fields[i].name = declaration.fields[j].name => i = j
  /\ \A f \in FieldsOf(declaration) :
       /\ Nested(f) <=> f.type = "struct"
       /\ Nested(f) => f.inner \in Struct
       /\ IsDeployment(declaration, f) => f.type = "deployment"

InnerOf(declaration) == {f.inner : f \in {g \in FieldsOf(declaration) : Nested(g)}}

\* rustc: no struct is a part of itself.
Sized(program) ==
  \A part \in SUBSET Struct :
    part # {} => \E s \in part : InnerOf(program[s]) \cap part = {}

-----------------------------------------------------------------------------
(* The schema. A nested field is a call into the inner struct's.             *)

PresenceOf(declaration, field) ==
  IF field.default # None THEN [kind |-> "default", text |-> field.default]
  ELSE IF IsRequired(declaration, field) THEN [kind |-> "required", text |-> None]
  ELSE IF field.type = "bool" THEN [kind |-> "default", text |-> "false"]
  ELSE [kind |-> "optional", text |-> None]

ClassOf(field) ==
  IF "prod_required" \in field.keys THEN "prod required"
  ELSE IF "dev_only" \in field.keys THEN "dev only" ELSE "neutral"

\* `shared` leaves go by DEPLOYMENT_TYPE.
LeafOf(declaration, field) ==
  [path |-> <<field.name>>, presence |-> PresenceOf(declaration, field),
   class |-> ClassOf(field), switch |-> field.type \in {"bool", "opt bool"},
   shared |-> IsDeployment(declaration, field)]

Child(name, leaf) == [leaf EXCEPT !.path = <<name>> \o @]

\* Of each struct, without the order of the fields, which only the help is in.
LeavesIn(program) ==
  LET leaves[s \in Struct] ==
        UNION {IF Nested(f) THEN {Child(f.name, leaf) : leaf \in leaves[f.inner]}
               ELSE {LeafOf(program[s], f)} : f \in FieldsOf(program[s])}
  IN  leaves

Accepted(program) ==
  /\ program["root"].app # None
  /\ \A s \in Struct : Expands(program[s]) /\ TypesCheck(program[s])
  /\ Sized(program)

\* What a root's program is compiled to, or None.
Compiled(program) == IF Accepted(program) THEN LeavesIn(program)["root"] ELSE None

-----------------------------------------------------------------------------
(* Spellings, as sequences of words and what joins them.                     *)

Segment(name, mark) ==
  [i \in DOMAIN Parts[name] |-> IF Parts[name][i] = "_" THEN mark ELSE Parts[name][i]]

\* Mutant: what joins two segments is what joins two words.
JoinedAlike(path, mark) ==
  LET text[n \in 0..Len(path)] ==
        IF n = 0 THEN <<>>
        ELSE (IF n = 1 THEN <<>> ELSE Append(text[n-1], mark)) \o Segment(path[n], mark)
  IN  text

\* One mark between the words of a segment, two between segments: the text of
\* the first n.
JoinedUpTo(path, mark) ==
  LET text[n \in 0..Len(path)] ==
        IF n = 0 THEN <<>>
        ELSE (IF n = 1 THEN <<>> ELSE text[n-1] \o <<mark, mark>>) \o Segment(path[n], mark)
  IN  text

Joined(path, mark) == JoinedUpTo(path, mark)[Len(path)]

FlagOf(leaf) == Joined(leaf.path, "-")

EnvOf(leaf, app) ==
  IF leaf.shared THEN <<"DEPLOYMENT", "_", "TYPE">>
  ELSE InCapitals(<<app, "_">> \o Joined(leaf.path, "_"))

\* In the file a leaf goes by its path.
Dotted(path) == FoldLeft(LAMBDA text, name : text \o "." \o name, Head(path), Tail(path))

\* What the load takes of the leaves, which it knows by their paths.
SchemaOf(leaves) ==
  LET Of(P(_)) == {leaf.path : leaf \in {l \in leaves : P(l)}}
  IN  [field |-> Of(LAMBDA l : TRUE), deployment |-> <<"deployment">>,
       switch |-> Of(LAMBDA l : l.switch),
       required |-> Of(LAMBDA l : l.presence.kind = "required"),
       prodRequired |-> Of(LAMBDA l : l.class = "prod required"),
       devOnly |-> Of(LAMBDA l : l.class = "dev only"),
       default |-> [p \in Of(LAMBDA l : TRUE) |->
                      (CHOOSE l \in leaves : l.path = p).presence.text]]

\* The same by the names the file has for the paths.
InDots(schema) ==
  LET All(paths) == {Dotted(p) : p \in paths}
  IN  [field |-> All(schema.field), deployment |-> Dotted(schema.deployment),
       switch |-> All(schema.switch), required |-> All(schema.required),
       prodRequired |-> All(schema.prodRequired), devOnly |-> All(schema.devOnly),
       default |-> [d \in All(schema.field) |->
                      schema.default[CHOOSE p \in schema.field : Dotted(p) = d]]]
=============================================================================
