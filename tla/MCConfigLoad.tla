---------------------------- MODULE MCConfigLoad ----------------------------
(* A schema with one field of each class: the deployment, a value that prod  *)
(* requires, of a nested struct, and a switch for development. Of the texts, *)
(* "x" is a file's path.                                                     *)
EXTENDS ConfigLoad

Sets(d, k, o) ==
  [f \in {"deployment", "auth.key", "open"} |->
     CASE f = "deployment" -> d [] f = "auth.key" -> k [] f = "open" -> o]

MCDefault == Sets(None, None, "false")

MCValid == Sets({"prod", "dev"}, {"dev", "x"}, {"true", "false"})

Plain(name) == [name |-> name, text |-> None]

Given(name, text) == [name |-> name, text |-> text]

MCTokens ==
  {Plain("--help"), Plain("--print-config"), Plain("--config"), Plain("unknown"),
   Plain("auth.key"), Plain("open"), Given("open", "false"), Given("deployment", "prod"),
   Given("deployment", "dev"), Given("-h", "x"), Given("word", "x")}

MCArgv == UNION {[1..n -> MCTokens] : n \in 0..MaxArgs}

MCEnv ==
  {Nothing, Sets("dev", None, "true"), Sets("prod", None, None), Sets("prod", "true", None),
   Sets("dev", "x", None), Sets(None, "dev", "false")}

\* None is a file that cannot be read, or not be taken.
MCFiles ==
  {None, Nothing, Sets("prod", None, None), Sets("prod", "dev", None), Sets(None, "dev", "true")}

MCInputs ==
  {[argv |-> a, env |-> e, config |-> [caps \in BOOLEAN |-> IF caps THEN c ELSE None],
    disk |-> [t \in Text |-> IF t = "x" THEN file ELSE None]] :
     a \in MCArgv, e \in MCEnv, c \in {None, "x"}, file \in MCFiles}

MCInit == InitFrom(MCInputs)

MCSpec == MCInit /\ [][Next]_vars
=============================================================================
