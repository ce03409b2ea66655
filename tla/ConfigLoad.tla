----------------------------- MODULE ConfigLoad -----------------------------
(* The load of common-config (lib.rs: load_from): arguments, then defaults,  *)
(* file, environment and arguments laid over each other field by field, then *)
(* one typed parse of every leaf and the rule of the deployment class. Every *)
(* stage may end the load with a refusal. Names and texts are opaque; a file *)
(* that cannot be read or parsed, or holds a key nobody registered or a      *)
(* value that is no scalar, is refused as one thing.                         *)
EXTENDS ConfigSchema, Integers, Sequences

CONSTANTS Field,         \* the leaves of the schema
          Deployment,    \* the one that is the root's deployment class
          Switch,        \* those of type bool
          Required, ProdRequired, DevOnly,
          Default,       \* a text, or None
          Valid,         \* the texts that parse as the field's type
          On, Off,       \* the texts of a bool, by what they parse as
          Text,
          AppCaps,       \* the app's name is declared in capitals
          MaxArgs        \* bound: the tokens of argv

\* A token that begins with two dashes is no value of the flag before it. `-h`
\* and other words may be.
Flag == {"--help", "--print-config", "--config", "unknown"} \cup Field
Word == {"-h", "word"}

\* `text` is what follows the `=` of a flag, or the word itself.
Token == [name : Flag, text : Text \cup {None}] \cup [name : Word, text : Text]

\* What a refusal is about.
Why == {"no value", "unknown", "file", "type", "class"}

\* What the derive made of the declaration.
Schema ==
  [field |-> Field, deployment |-> Deployment, switch |-> Switch, required |-> Required,
   prodRequired |-> ProdRequired, devOnly |-> DevOnly, default |-> Default]

ASSUME ConfigAssumption ==
  /\ None \notin Text \cup Why /\ "prod" \in Text
  /\ On \subseteq Text /\ Off \subseteq Text /\ On \cap Off = {} /\ "true" \in On
  /\ Field \cap ({"--help", "--print-config", "--config", "unknown", None} \cup Word) = {}
  /\ Default \in [Field -> Text \cup {None}]
  /\ Admitted(Schema, Off)
  /\ Valid \in [Field -> SUBSET Text]
  /\ \A f \in Switch : Valid[f] = On \cup Off
  /\ AppCaps \in BOOLEAN
  /\ MaxArgs \in Nat

VARIABLES input,    \* argv, the environment and the files
          stage,
          next,     \* the next token of argv
          parsed,
          entries,
          outcome

vars == <<input, stage, next, parsed, entries, outcome>>

Layer == [Field -> Text \cup {None}]

\* `config` is <APP>_CONFIG: in capitals, as every variable of a field is, and as
\* the app's name is declared, when that is another variable.
Input ==
  [argv : Seq(Token), env : Layer, config : [BOOLEAN -> Text \cup {None}],
   disk : [Text -> Layer \cup {None}]]

Origin == {"default", "file", "env", "arg"}

Entry == [text : Text, origin : Origin]

\* `args` holds the last text of each field: the merge lets later ones win.
Parsed ==
  [help : BOOLEAN, print : BOOLEAN, unknown : BOOLEAN, config : Text \cup {None}, args : Layer]

Outcome ==
  [kind : {"loading", "config", "help", "print"}, why : {None}, field : {None}]
  \cup [kind : {"refused"}, why : Why, field : Field \cup {None}]

Loading == [kind |-> "loading", why |-> None, field |-> None]

TypeOK ==
  /\ input \in Input
  /\ stage \in {"args", "file", "env", "arg", "merged", "class", "done"}
  /\ next \in Nat \ {0}
  /\ parsed \in Parsed
  /\ entries \in [Field -> Entry \cup {None}]
  /\ outcome \in Outcome

Nothing == [f \in Field |-> None]

\* The inputs an instance starts from: a subset of Input.
InitFrom(inputs) ==
  /\ input \in inputs
  /\ stage = "args" /\ next = 1
  /\ parsed = [help |-> FALSE, print |-> FALSE, unknown |-> FALSE, config |-> None,
               args |-> Nothing]
  /\ entries = Nothing
  /\ outcome = Loading

Ends(kind) ==
  /\ outcome' = [Loading EXCEPT !.kind = kind]
  /\ stage' = "done"
  /\ UNCHANGED <<input, next, parsed, entries>>

Refuses(why, field) ==
  /\ outcome' = [kind |-> "refused", why |-> why, field |-> field]
  /\ stage' = "done"
  /\ UNCHANGED <<input, next, parsed, entries>>

-----------------------------------------------------------------------------
(* args.rs                                                                   *)

TakesValue(token) == token.name \in {"--config"} \cup (Field \ Switch)

\* Mutant: whatever follows a flag is its value.
FollowerOfAnyKind(k) == IF k < Len(input.argv) THEN input.argv[k + 1].text ELSE None

\* take_value: the word after token k, if there is one.
Follower(k) ==
  IF k < Len(input.argv) /\ input.argv[k + 1].name \in Word THEN input.argv[k + 1].text ELSE None

\* The text a flag gives; a bare switch is on.
TextAt(k) ==
  LET token == input.argv[k]
  IN  IF token.text # None THEN token.text
      ELSE IF token.name \in Switch THEN "true" ELSE Follower(k)

\* Mutant: the value of a flag is looked at once more.
AfterOne(k) == k + 1

After(k) ==
  IF TakesValue(input.argv[k]) /\ input.argv[k].text = None THEN k + 2 ELSE k + 1

ParseToken ==
  LET token == input.argv[next]
      name  == token.name
  IN  /\ stage = "args" /\ next <= Len(input.argv)
      /\ TakesValue(token) => TextAt(next) # None
      /\ parsed' = [
           help    |-> parsed.help \/ name \in {"--help", "-h"},
           print   |-> parsed.print \/ name = "--print-config",
           unknown |-> parsed.unknown \/ name \in {"unknown", "word"},
           config  |-> IF name = "--config" THEN TextAt(next) ELSE parsed.config,
           args    |-> IF name \in Field THEN [parsed.args EXCEPT ![name] = TextAt(next)]
                       ELSE parsed.args]
      /\ next' = After(next)
      /\ UNCHANGED <<input, stage, entries, outcome>>

NoValue ==
  /\ stage = "args" /\ next <= Len(input.argv)
  /\ TakesValue(input.argv[next]) /\ TextAt(next) = None
  /\ Refuses("no value", IF input.argv[next].name \in Field THEN input.argv[next].name ELSE None)

\* help forgives unknown flags, and everything that comes after.
Help == stage = "args" /\ next > Len(input.argv) /\ parsed.help /\ Ends("help")

UnknownFlags ==
  /\ stage = "args" /\ next > Len(input.argv) /\ ~parsed.help /\ parsed.unknown
  /\ Refuses("unknown", None)

-----------------------------------------------------------------------------
(* layers.rs                                                                 *)

\* Mutant: a layer only fills in what is missing.
OverlayGaps(layer, origin) ==
  [f \in Field |-> IF entries[f] # None \/ layer[f] = None THEN entries[f]
                   ELSE [text |-> layer[f], origin |-> origin]]

\* Mutant: what a layer does not set, it sets to nothing.
OverlayBlind(layer, origin) ==
  [f \in Field |-> [text |-> layer[f], origin |-> origin]]

Overlay(layer, origin) ==
  [f \in Field |-> IF layer[f] # None THEN [text |-> layer[f], origin |-> origin]
                   ELSE entries[f]]

Merge(layer, origin, then) ==
  /\ entries' = Overlay(layer, origin)
  /\ stage' = then
  /\ UNCHANGED <<input, next, parsed, outcome>>

MergeDefaults ==
  /\ stage = "args" /\ next > Len(input.argv) /\ ~parsed.help /\ ~parsed.unknown
  /\ Merge(Default, "default", "file")

\* config_env takes the name as declared; Path::env would take it in capitals.
ConfigEnv == input.config[AppCaps]

ConfigFile == IF parsed.config # None THEN parsed.config ELSE ConfigEnv

MergeFile ==
  /\ stage = "file"
  /\ ConfigFile # None => input.disk[ConfigFile] # None
  /\ Merge(IF ConfigFile = None THEN Nothing ELSE input.disk[ConfigFile], "file", "env")

\* A file that is named must be one.
BadFile ==
  /\ stage = "file" /\ ConfigFile # None /\ input.disk[ConfigFile] = None
  /\ Refuses("file", None)

MergeEnv == stage = "env" /\ Merge(input.env, "env", "arg")

MergeArgs == stage = "arg" /\ Merge(parsed.args, "arg", "merged")

PrintConfig == stage = "merged" /\ parsed.print /\ Ends("print")

-----------------------------------------------------------------------------
(* values.rs and class.rs                                                    *)

\* Required and unset, or set to what does not parse.
BadLeaf(f) ==
  IF entries[f] = None THEN f \in Required ELSE entries[f].text \notin Valid[f]

\* The first bad leaf in the order of the schema, which is not modelled.
WrongType(f) ==
  /\ stage = "merged" /\ ~parsed.print /\ BadLeaf(f)
  /\ Refuses("type", f)

Typed ==
  /\ stage = "merged" /\ ~parsed.print /\ \A f \in Field : ~BadLeaf(f)
  /\ stage' = "class"
  /\ UNCHANGED <<input, next, parsed, entries, outcome>>

Enabled(f) == entries[f] # None /\ (f \in Switch => entries[f].text \in On)

\* Mutant: the class follows DEPLOYMENT_TYPE wherever else deployment was set.
OffendsByEnv(f) ==
  /\ input.env[Deployment] = "prod"
  /\ (f \in ProdRequired /\ entries[f] = None) \/ (f \in DevOnly /\ Enabled(f))

\* enforce: what prod demands of a field.
Offends(f) ==
  /\ entries[Deployment].text = "prod"
  /\ (f \in ProdRequired /\ entries[f] = None) \/ (f \in DevOnly /\ Enabled(f))

WrongClass(f) == stage = "class" /\ Offends(f) /\ Refuses("class", f)

Loaded == stage = "class" /\ (\A f \in Field : ~Offends(f)) /\ Ends("config")

Next ==
  \/ ParseToken \/ NoValue \/ Help \/ UnknownFlags
  \/ MergeDefaults \/ MergeFile \/ BadFile \/ MergeEnv \/ MergeArgs \/ PrintConfig
  \/ \E f \in Field : WrongType(f) \/ WrongClass(f)
  \/ Typed \/ Loaded

Init == InitFrom(Input)

Spec == Init /\ [][Next]_vars

-----------------------------------------------------------------------------
(* What the sources say, without an order of steps.                          *)

\* The word at k is the value of the flag before it.
IsValue(k) ==
  /\ input.argv[k].name \in Word /\ k > 1
  /\ TakesValue(input.argv[k - 1]) /\ input.argv[k - 1].text = None

Names(k, names) == input.argv[k].name \in names /\ ~IsValue(k)

Positions == 1..Len(input.argv)

Asked(names) == \E k \in Positions : Names(k, names)

\* The last token that gives `name` a value decides.
LastText(name) ==
  IF \E k \in Positions : input.argv[k].name = name
  THEN TextAt(CHOOSE k \in Positions : /\ input.argv[k].name = name
                                       /\ \A j \in Positions : input.argv[j].name = name => j <= k)
  ELSE None

\* The variables of a service are in capitals, whatever case its author chose.
NamedFile == IF LastText("--config") # None THEN LastText("--config") ELSE input.config[TRUE]

FileText(f) ==
  IF NamedFile = None \/ input.disk[NamedFile] = None THEN None ELSE input.disk[NamedFile][f]

Effective(f) ==
  IF LastText(f) # None THEN [text |-> LastText(f), origin |-> "arg"]
  ELSE IF input.env[f] # None THEN [text |-> input.env[f], origin |-> "env"]
  ELSE IF FileText(f) # None THEN [text |-> FileText(f), origin |-> "file"]
  ELSE IF Default[f] # None THEN [text |-> Default[f], origin |-> "default"]
  ELSE None

FlagsHaveValues == \A k \in Positions : TakesValue(input.argv[k]) => TextAt(k) # None

SourcesOK ==
  /\ FlagsHaveValues
  /\ ~Asked({"unknown", "word"})
  /\ NamedFile # None => input.disk[NamedFile] # None

LeavesOK ==
  \A f \in Field :
    IF Effective(f) = None THEN f \notin Required ELSE Effective(f).text \in Valid[f]

\* Under prod every prod-required value is set and nothing dev-only is enabled,
\* wherever these and the deployment itself were set.
ClassOK ==
  Effective(Deployment).text = "prod" =>
    /\ \A f \in ProdRequired : Effective(f) # None
    /\ \A f \in DevOnly :
         Effective(f) # None => f \in Switch /\ Effective(f).text \in Off

-----------------------------------------------------------------------------

\* "defaults < TOML file < environment < arguments, later wins per field", with
\* the origin a refusal will name: once merged, every field has the text of the
\* highest source that gives one, the last one of it among arguments.
HighestSourceWins ==
  stage \in {"merged", "class"} \/ outcome.why \in {"type", "class"}
      \/ outcome.kind \in {"config", "print"} =>
    \A f \in Field : entries[f] = Effective(f)

\* A service starts if and only if its sources, its leaves and its class are in
\* order; what is overridden does not matter; help forgives all but a flag
\* without a value, print-config what a source's form does not tell.
EndsAsTheInputsSay ==
  /\ outcome.kind = "config" =>
       /\ ~Asked({"--help", "-h", "--print-config"})
       /\ SourcesOK /\ LeavesOK /\ ClassOK
  /\ outcome.kind = "help" => Asked({"--help", "-h"}) /\ FlagsHaveValues
  /\ outcome.kind = "print" =>
       Asked({"--print-config"}) /\ ~Asked({"--help", "-h"}) /\ SourcesOK
  /\ outcome.kind = "refused" =>
       \/ ~FlagsHaveValues
       \/ ~Asked({"--help", "-h"}) /\ ~SourcesOK
       \/ ~Asked({"--help", "-h", "--print-config"}) /\ ~(LeavesOK /\ ClassOK)
=============================================================================
