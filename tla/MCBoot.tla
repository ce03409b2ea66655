------------------------------- MODULE MCBoot -------------------------------
(* The loads of MCConfigLoad, two modules that log, two designators; and the *)
(* declarations of one field in every form, and of structs of two fields in  *)
(* one another in every way their names can be spelled.                      *)
EXTENDS Service, MCConfigLoad

Default3 == [format |-> None, designators |-> None, rust |-> None]

Of(name, level) == [name |-> name, level |-> level]

MCLists ==
  {<<>>, <<Of(None, 2)>>, <<Of("auth", 4)>>, <<Of("startup", 0), Of(None, 3)>>,
   <<Of("auth", 1), Of(None, 0), Of("auth", 5)>>, <<Of(None, 4), Of(None, 1)>>,
   <<Of("auth", 4), Of(Malformed, 4)>>, <<Of("auth", Malformed)>>, <<Of(None, Malformed)>>}

MCEnvironment ==
  {[Default3 EXCEPT !.format = f] : f \in {None, Blank, "json", "human", Malformed}}
  \cup {[Default3 EXCEPT !.designators = d] : d \in {Blank} \cup MCLists}
  \cup {[Default3 EXCEPT !.rust = r] :
          r \in {Blank, Malformed, [t \in Target |-> IF t = "app" THEN 5 ELSE 0]}}
  \cup {[Default3 EXCEPT !.format = NotUnicode], [Default3 EXCEPT !.designators = NotUnicode],
        [Default3 EXCEPT !.rust = NotUnicode]}
  \cup {[format |-> Malformed, designators |-> <<Of(Malformed, 1)>>, rust |-> Malformed],
        [format |-> "json", designators |-> <<Of(Malformed, 1)>>, rust |-> Malformed],
        [format |-> "json", designators |-> <<Of("auth", 4)>>, rust |-> [t \in Target |-> 3]]}

MCParts ==
  [n \in FieldName |->
     CASE n = "a_b" -> <<"a", "_", "b">> [] n = "b_a" -> <<"b", "_", "a">> [] OTHER -> <<n>>]

MCSmall == {"deployment", "auth", "key", "open", "a", "b", "config"}

MCCapital ==
  [w \in MCSmall \cup {"_", "print", "svc", "SVC"} |->
     CASE w = "deployment" -> "DEPLOYMENT" [] w = "auth" -> "AUTH" [] w = "key" -> "KEY"
       [] w = "open" -> "OPEN" [] w = "a" -> "A" [] w = "b" -> "B" [] w = "config" -> "CONFIG"
       [] w = "print" -> "PRINT" [] w = "_" -> "_" [] OTHER -> "SVC"]

Leaf(name, type, keys, default) ==
  [name |-> name, type |-> type, inner |-> None, keys |-> keys, default |-> default]

Part(name, struct) ==
  [name |-> name, type |-> "struct", inner |-> struct, keys |-> {"nested"}, default |-> None]

Of3(root, one, two) == [s \in Struct |-> CASE s = "root" -> root [] s = "one" -> one [] s = "two" -> two]

Bare(fields) == [app |-> None, bin |-> FALSE, fields |-> fields]

RootOf(fields) == [app |-> "SVC", bin |-> FALSE, fields |-> fields]

TheDeployment == Leaf("deployment", "deployment", {}, None)

MCOwn ==
  Of3(RootOf(<<TheDeployment, Part("auth", "one"), Leaf("open", "bool", {"dev_only"}, None)>>),
      Bare(<<Leaf("key", "opt", {"prod_required"}, None)>>), Bare(<<>>))

MCKeys == Lone \cup {"nested", "unknown"}

OneField(name) ==
  {[Leaf(name, t, k, d) EXCEPT !.inner = IF "nested" \in k THEN "one" ELSE None] :
     t \in {"bool", "opt bool", "opt", "plain", "deployment", "struct"}, k \in SUBSET MCKeys,
     d \in DefaultText \cup {None}}

MCForms ==
  {Of3(RootOf(<<TheDeployment, f>>), Bare(<<Leaf("b", "bool", {}, None)>>), Bare(<<>>)) : f \in OneField("a")}
  \cup {Of3(RootOf(<<f>>), Bare(<<Leaf("b", "bool", {}, None)>>), Bare(<<>>)) : f \in OneField("deployment")}
  \cup {Of3([app |-> a, bin |-> b, fields |-> f], Bare(<<>>), Bare(<<>>)) :
          a \in AppName \cup {"", "a-b", None}, b \in BOOLEAN,
          f \in {<<TheDeployment>>, <<Leaf("deployment", "opt", {}, None)>>, <<>>}}

\* Two names of a struct, each a leaf or another struct.
Pairs(inner) ==
  LET Either(name) == {Leaf(name, "opt", {}, None), Leaf(name, "bool", {}, None)}
                      \cup IF inner = None THEN {} ELSE {Part(name, inner)}
  IN  UNION {Either(n[1]) \X Either(n[2]) :
               n \in {<<"a", "b">>, <<"a", "a_b">>, <<"a_b", "b">>, <<"a_b", "b_a">>, <<"a", "config">>,
                      <<"config", "b_a">>}}

MCSpellings ==
  {Of3(RootOf(<<TheDeployment>> \o r), one, Bare(<<Leaf(n, "opt", {}, None)>>)) :
     r \in Pairs("one"),
     one \in {Bare(f) : f \in Pairs("two")} \cup {RootOf(<<TheDeployment>>)},
     n \in {"a", "b", "a_b", "config"}}

\* What rustc refuses: a name given twice, a struct in itself.
MCIllFormed ==
  {Of3(RootOf(<<TheDeployment, Leaf("a", "opt", {}, None), Leaf("a", "bool", {}, None)>>),
       Bare(<<>>), Bare(<<>>))}
  \cup {Of3(RootOf(<<TheDeployment, Part("a", "one")>>), Bare(<<Part("b", s)>>), Bare(<<>>)) :
          s \in {"root", "one"}}

MCPrograms == (MCForms \cup MCSpellings \cup MCIllFormed) \ {MCOwn}

MCBootSpec ==
  ServiceInit(MCInputs, CHOOSE i \in MCInputs : i.argv = <<>>)
    /\ [][ServiceNext]_<<vars, bootVars, serviceVars>>
=============================================================================
