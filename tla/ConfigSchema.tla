---------------------------- MODULE ConfigSchema ----------------------------
(* What the derive of a service's configuration hands to the load of it      *)
(* (config/src/schema.rs): the leaves by presence, class and kind.           *)
EXTENDS Naturals

CONSTANT None

\* `deployment` is the leaf the class rule is applied by, `default` the text
\* of each leaf, or None; `off` are the texts of a bool that is not set.
Admitted(schema, off) ==
  /\ schema.deployment \in schema.required /\ schema.required \subseteq schema.field
  /\ schema.switch \subseteq schema.field \ {schema.deployment}
  \* a class is of an optional value, dev-only also of a bool
  /\ schema.prodRequired \subseteq schema.field \ schema.required
  /\ schema.devOnly \subseteq schema.field \ schema.required
  /\ schema.prodRequired \cap schema.devOnly = {}
  /\ \A f \in schema.prodRequired \cup schema.required : schema.default[f] = None
  /\ \A f \in schema.devOnly :
       schema.default[f] = None \/ (f \in schema.switch /\ schema.default[f] \in off)
=============================================================================
