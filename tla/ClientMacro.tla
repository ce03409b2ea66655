----------------------------- MODULE ClientMacro -----------------------------
(* #[client]: which handlers the attribute accepts (routing-macros/parse.rs) *)
(* and the descriptor the export test of an accepted one writes              *)
(* (routing/export.rs). A type is known by its TypeScript spelling and its   *)
(* shape, a return type by what is left when Result is peeled off it.        *)
EXTENDS Naturals, Sequences

CONSTANT Unusable \* what a template puts in braces that is not an identifier

Extractor == [PATH |-> {"Path", "ApiPath"}, QUERY |-> {"Query", "ApiQuery"},
              BODY |-> {"Json", "ApiJson"}, MULTIPART |-> {"Multipart"}]

Declarable == {"string", "number", "boolean", "bigint"}

Kinds == {"PATH", "QUERY", "BODY", "MULTIPART"}

Elements(s) == {s[i] : i \in DOMAIN s}

\* Anything else (State, a guard, headers) is not the client's.
Classified(input) == \E k \in Kinds : input.by \in Extractor[k]

KindOf(input) == CHOOSE k \in Kinds : input.by \in Extractor[k]

PayloadNamed(input) == input.of.shape # "absent" \/ input.by \in Extractor.MULTIPART

\* Json as such, in a Result or last in a tuple; StatusCode, () or nothing.
Transparent == {"json", "nothing"}

\* What #[client(...)] may carry; a path that is no string literal is neither.
Options == {"link", "path"}

Linked(item) == "link" \in item.options

Declares(item) == "path" \in item.options

DescribedOk(item) ==
  /\ item.async
  /\ \A i \in Elements(item.inputs) :
       i.by # "self" /\ (Classified(i) => PayloadNamed(i))
  /\ Linked(item) \/ item.output.shape \in Transparent

TemplateOk(params) ==
  /\ params # <<>>
  /\ \A i \in DOMAIN params :
       /\ params[i].name \notin Unusable /\ params[i].ts \in Declarable
       /\ \A j \in 1..i-1 : params[j].name # params[i].name

AttrOk(item) ==
  /\ item.options \subseteq Options
  /\ Declares(item) => item.closed /\ TemplateOk(item.template)

TakesPath(item) == \E i \in Elements(item.inputs) : i.by \in Extractor.PATH

\* Otherwise the program does not compile.
Accepted(item) ==
  AttrOk(item) /\ DescribedOk(item) /\ ~(Declares(item) /\ TakesPath(item))

\* ts-rs spells a tuple [..], a struct inlines to its fields and a newtype to
\* the primitive inside.
Binding(type) ==
  CASE type.shape = "tuple"  -> "positions"
    [] type.shape = "struct" -> "fields"
    [] OTHER                 -> "single"

PathArg(type) ==
  [kind |-> "PATH", ts |-> type.ts, binds |-> Binding(type), parts |-> type.parts]

PlainArg(kind, ts) == [kind |-> kind, ts |-> ts, binds |-> "single", parts |-> <<>>]

ArgOf(input) ==
  LET kind == KindOf(input) IN
  CASE kind = "PATH"      -> PathArg(input.of)
    [] kind = "MULTIPART" -> PlainArg(kind, "FormData")
    [] OTHER              -> PlainArg(kind, input.of.ts)

DeclaredPath(item) ==
  [kind |-> "PATH", ts |-> "template", binds |-> "fields", parts |-> item.template]

Args(item) ==
  LET kept == SelectSeq(item.inputs, Classified) IN
  [i \in DOMAIN kept |-> ArgOf(kept[i])]
    \o (IF Declares(item) THEN <<DeclaredPath(item)>> ELSE <<>>)

ResponseOf(item) ==
  IF Linked(item) THEN [kind |-> "link", ts |-> "string"]
  ELSE IF item.output.shape = "json" THEN [kind |-> "json", ts |-> item.output.ts]
  ELSE [kind |-> "no_content", ts |-> "void"]

DescriptorOf(h, item) ==
  [fqname |-> <<h>>, args |-> Args(item), response |-> ResponseOf(item)]

Annotated(source) == {h \in DOMAIN source : source[h].client}

Compiles(source) == \A h \in Annotated(source) : Accepted(source[h])

\* A descriptor for every handler that has the attribute.
ExportedBy(source) == [h \in Annotated(source) |-> DescriptorOf(h, source[h])]
=============================================================================
