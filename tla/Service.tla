------------------------------ MODULE Service -------------------------------
(* A service from the declaration of its configuration to its boot: what the *)
(* derive compiles is what the load takes its fields, presences and classes  *)
(* from (load_from in config/src/lib.rs calls T::schema first).              *)
EXTENDS Boot, ConfigDerive

CONSTANTS Own,       \* the declaration the constants of the load are of
          Programs   \* bound: the other declarations that are compiled

Program == [Struct -> Declaration]

ASSUME ServiceAssumption ==
  /\ Own \in Program /\ Programs \subseteq Program
  /\ InDots(SchemaOf(Compiled(Own))) = Schema
  /\ "false" \in Off

VARIABLES program, compiled

serviceVars == <<program, compiled>>

\* Of the other programs only the compilation is followed.
ServiceInit(inputs, one) ==
  \/ program = Own /\ compiled = {} /\ BootInit(inputs)
  \/ program \in Programs /\ compiled = {} /\ BootInit({one})

Derive ==
  /\ compiled = {}
  /\ compiled' = Compiled(program)
  /\ UNCHANGED program /\ UNCHANGED vars /\ UNCHANGED bootVars

Boots == program = Own /\ compiled \notin {{}, None} /\ BootNext /\ UNCHANGED serviceVars

ServiceNext == Derive \/ Boots

ServiceSpec ==
  (\E one \in Input : ServiceInit(Input, one))
    /\ [][ServiceNext]_<<vars, bootVars, serviceVars>>

-----------------------------------------------------------------------------

Built == compiled \notin {{}, None}

\* "A value required in prod is optional in dev, and what is dev-only is off": the
\* load and its proofs assume of a schema what any declaration that compiles
\* gives; otherwise a class could be declared that no deployment satisfies, or
\* that a default breaks before anybody set anything.
DerivedIsAdmitted == Built => Admitted(SchemaOf(compiled), Off)

\* The flags and the variable that the load itself reads.
BuiltinFlags == {<<"config">>, <<"help">>, <<"print", "-", "config">>}
BuiltinEnv == InCapitals(<<program["root"].app, "_", "config">>)

\* No source can give one leaf what was meant for another, nor for the load
\* itself: nothing checks the spellings, they are apart because of how segments
\* and words are joined, for plain names, one root, and no leaf at the top that
\* is named as a flag of the load.
SpellingsApart ==
  Built =>
    LET app   == program["root"].app
        plain == \A s \in Struct : \A f \in FieldsOf(program[s]) : PlainName(f.name)
        root  == \A s \in Struct \ {"root"} : program[s].app = None
    IN  plain /\ root /\ (\A l \in compiled : FlagOf(l) \notin BuiltinFlags) =>
          /\ \A l, k \in compiled :
               FlagOf(l) = FlagOf(k) \/ EnvOf(l, app) = EnvOf(k, app) => l = k
          /\ \A l \in compiled : EnvOf(l, app) # BuiltinEnv
=============================================================================
