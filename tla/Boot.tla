-------------------------------- MODULE Boot --------------------------------
(* A service's start: boot_sealed of common-logging around the load of its   *)
(* configuration (logging/src/lib.rs), and what its log lets through after   *)
(* (filter.rs). A refusal anywhere is one line and the end of the process.   *)
(* The module paths of RUST_LOG, designators and their order in a list       *)
(* matter; the layout of a line does not.                                    *)
EXTENDS ConfigLoad

CONSTANTS Designator,  \* the stand's, and those that carry the prefix
          Target,      \* the modules that log
          Environment, \* bound: the values of the three variables that are tried
          Blank, Malformed, NotUnicode

\* off, error, warn, info, debug, trace
Level == 0..5

\* designator=level, or a level for the designators not named
Item == [name : Designator \cup {None, Malformed}, level : Level \cup {Malformed}]

\* LOG_FORMAT, LOG_DESIGNATORS and RUST_LOG; None is unset.
Formats == {None, Blank, "json", "human", Malformed}
Lists   == {None, Blank} \cup Seq(Item)
Filters == {None, Blank, Malformed} \cup [Target -> Level]

LogEnvironment == [format : Formats, designators : Lists, rust : Filters]

RawEnvironment ==
  [format : Formats \cup {NotUnicode}, designators : Lists \cup {NotUnicode},
   rust : Filters \cup {NotUnicode}]

ASSUME BootAssumption ==
  /\ Designator \cap {None, Malformed} = {}
  /\ {None, Malformed} \cap Level = {} /\ None # Malformed
  /\ Blank # None /\ NotUnicode \notin {None, Blank, "json", "human", Malformed}
  /\ None \notin {"config", "LOG_FORMAT", "LOG_DESIGNATORS", "RUST_LOG", "own"}
  /\ Environment \subseteq RawEnvironment

VARIABLES phase,
          environ,  \* the three variables, as they were at the start
          log,      \* what is read of them
          settings, \* LogConfig, and the filters of the global subscriber
          refused   \* what the refusal is about

bootVars == <<phase, environ, log, settings, refused>>

Filter == [unset : BOOLEAN, rules : [Designator -> Level \cup {None}], default : Level \cup {None}]

Settings == [rust : [Target -> Level], designators : Filter]

BootTypeOK ==
  /\ TypeOK
  /\ phase \in {"load", "format", "assemble", "install", "running", "exit 0", "exit 1"}
  /\ environ \in RawEnvironment
  /\ log \in LogEnvironment
  /\ settings \in Settings \cup {None}
  /\ refused \in {None, "config", "LOG_FORMAT", "LOG_DESIGNATORS", "RUST_LOG", "own"}

\* No variable is looked at before the configuration is loaded, so it is chosen
\* only then.
BootInit(inputs) ==
  /\ InitFrom(inputs)
  /\ phase = "load"
  /\ environ = [format |-> None, designators |-> None, rust |-> None]
  /\ log = environ
  /\ settings = None /\ refused = None

-----------------------------------------------------------------------------
(* filter.rs                                                                 *)

WellFormed(item) == item.name # Malformed /\ item.level # Malformed

\* Mutant: what was said first stays.
WithFirst(filter, item) ==
  IF item.name = None
  THEN [filter EXCEPT !.default = IF @ = None THEN item.level ELSE @]
  ELSE [filter EXCEPT !.rules[item.name] = IF @ = None THEN item.level ELSE @]

With(filter, item) ==
  IF item.name = None THEN [filter EXCEPT !.default = item.level]
  ELSE [filter EXCEPT !.rules[item.name] = item.level]

NoRules(unset) == [unset |-> unset, rules |-> [d \in Designator |-> None], default |-> None]

\* What the first n items make.
FilterUpTo(items) ==
  LET filter[n \in 0..Len(items)] ==
        IF n = 0 THEN NoRules(FALSE) ELSE With(filter[n-1], items[n])
  IN  filter

\* Designators::parse. A text of separators alone is a list without items.
ParsedFilter(text) ==
  IF text \in {None, Blank} THEN NoRules(TRUE) ELSE FilterUpTo(text)[Len(text)]

\* An event that has no designator is not this filter's business.
Admits(filter, designator, level) ==
  \/ filter.unset \/ designator = None
  \/ LET rule == filter.rules[designator]
         allowed == IF rule # None THEN rule ELSE filter.default
     IN  allowed # None /\ level <= allowed

Event == [target : Target, designator : Designator \cup {None}, level : Level \ {0}]

Passes(event) ==
  /\ event.level <= settings.rust[event.target]
  /\ Admits(settings.designators, event.designator, event.level)

-----------------------------------------------------------------------------
(* refuse.rs: one line, through a subscriber of its own without filters, and *)
(* exit 1.                                                                   *)

Refuse(what) ==
  /\ phase' = "exit 1" /\ refused' = what
  /\ UNCHANGED <<environ, log, settings>>

-----------------------------------------------------------------------------
(* boot_sealed                                                               *)

Goes(to) == phase' = to /\ UNCHANGED <<environ, log, settings, refused>>

Load == phase = "load" /\ Next /\ UNCHANGED bootVars

\* --help and --print-config
Prints ==
  /\ phase = "load" /\ outcome.kind \in {"help", "print"}
  /\ Goes("exit 0") /\ UNCHANGED vars

BadConfig ==
  /\ phase = "load" /\ outcome.kind = "refused"
  /\ Refuse("config") /\ UNCHANGED vars

\* std::env::var(..).ok(): what is not Unicode is as good as unset.
AsRead(value) == IF value = NotUnicode THEN None ELSE value

AllRead(raw) ==
  [format |-> AsRead(raw.format), designators |-> AsRead(raw.designators), rust |-> AsRead(raw.rust)]

ReadEnvironment ==
  /\ phase = "load" /\ outcome.kind = "config"
  /\ environ' \in Environment
  /\ log' = AllRead(environ')
  /\ phase' = "format"
  /\ UNCHANGED <<settings, refused>> /\ UNCHANGED vars

\* Mutant: LOG_FORMAT may be left empty like the others.
BadFormatUnlessBlank == log.format = Malformed

\* Format::parse
BadFormat == log.format \in {Blank, Malformed}

ReadFormat == phase = "format" /\ ~BadFormat /\ Goes("assemble") /\ UNCHANGED vars

RefuseFormat == phase = "format" /\ BadFormat /\ Refuse("LOG_FORMAT") /\ UNCHANGED vars

BadItem == log.designators \notin {None, Blank}
             /\ \E i \in DOMAIN log.designators : ~WellFormed(log.designators[i])

\* Mutant: the class is what DEPLOYMENT_TYPE says.
VerbosityOfVariable == IF input.env[Deployment] = "prod" THEN 3 ELSE 4

\* info under prod, debug under dev, wherever the deployment was set.
Verbosity == IF entries[Deployment].text = "prod" THEN 3 ELSE 4

\* LogConfig::assemble
Assemble ==
  /\ phase = "assemble" /\ ~BadItem /\ log.rust # Malformed
  /\ settings' = [rust |-> IF log.rust \in {None, Blank} THEN [t \in Target |-> Verbosity]
                           ELSE log.rust,
                  designators |-> ParsedFilter(log.designators)]
  /\ phase' = "install"
  /\ UNCHANGED <<environ, log, refused>> /\ UNCHANGED vars

RefuseDesignators ==
  /\ phase = "assemble" /\ BadItem
  /\ Refuse("LOG_DESIGNATORS") /\ UNCHANGED vars

RefuseRustLog ==
  /\ phase = "assemble" /\ ~BadItem /\ log.rust = Malformed
  /\ Refuse("RUST_LOG") /\ UNCHANGED vars

\* init_with and install; the service runs with the config.
Install == phase = "install" /\ Goes("running") /\ UNCHANGED vars

\* refuse! in main, after a check of its own.
RefuseOwnBoot == phase = "running" /\ Refuse("own") /\ UNCHANGED vars

BootNext ==
  \/ Load \/ Prints \/ BadConfig \/ ReadEnvironment \/ ReadFormat \/ RefuseFormat
  \/ Assemble \/ RefuseDesignators \/ RefuseRustLog \/ Install \/ RefuseOwnBoot

-----------------------------------------------------------------------------
(* What the variables say, without a filter.                                 *)

\* The last item about a name, or about all others.
Said(name) ==
  LET about == {i \in DOMAIN log.designators : log.designators[i].name = name}
  IN  IF about = {} THEN None
      ELSE log.designators[CHOOSE i \in about : \A j \in about : j <= i].level

Selected(designator, level) ==
  \/ log.designators \in {None, Blank}
  \/ designator = None
  \/ Said(designator) # None /\ level <= Said(designator)
  \/ Said(designator) = None /\ Said(None) # None /\ level <= Said(None)

Verbose(target, level) ==
  IF log.rust \in {None, Blank}
  THEN level <= (IF Effective(Deployment).text = "prod" THEN 3 ELSE 4)
  ELSE level <= log.rust[target]

ListOK(text) ==
  text \in {None, Blank}
    \/ \A i \in DOMAIN text :
         text[i].name \in Designator \cup {None} /\ text[i].level \in Level

\* "Two independent axes": a line of a running service appears if and only if
\* RUST_LOG lets its module through and LOG_DESIGNATORS its designator, the last
\* item about it or else about all others; unset, the verbosity is that of the
\* deployment, whichever source of the configuration gave it.
LinesAsNamed ==
  phase = "running" =>
    \A e \in Event :
      Passes(e) <=> Verbose(e.target, e.level) /\ Selected(e.designator, e.level)

\* "Set to something unrecognised means the process does not start"
\* (logging/README.md), and the refusal names the first of them: configuration,
\* format, designators, RUST_LOG. A value that is not Unicode is the exception
\* that the README does not make: it is never refused, and the service starts
\* with the default.
Unread(value) == value = NotUnicode

StartsOnlyWhenAllIsValid ==
  /\ phase = "running" \/ refused = "own" =>
       /\ outcome.kind = "config"
       /\ Unread(environ.format) \/ environ.format \in {None, "json", "human"}
       /\ Unread(environ.designators) \/ ListOK(environ.designators)
       /\ Unread(environ.rust) \/ environ.rust # Malformed
  /\ refused = "config" => outcome.kind = "refused"
  /\ refused = "LOG_FORMAT" => environ.format \in {Blank, Malformed} /\ outcome.kind = "config"
  /\ refused = "LOG_DESIGNATORS" =>
       /\ ~Unread(environ.designators) /\ ~ListOK(environ.designators)
       /\ environ.format \notin {Blank, Malformed}
  /\ refused = "RUST_LOG" =>
       /\ environ.rust = Malformed
       /\ Unread(environ.designators) \/ ListOK(environ.designators)
=============================================================================
