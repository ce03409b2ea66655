--------------------------- MODULE ServiceProofs ---------------------------
(* For every schema, argv and set of layers: each field ends with the text   *)
(* of its highest source, and the load ends as its inputs say. For every     *)
(* environment of the log: a service starts on valid variables only, its log *)
(* lets through what they say, and a refusal is one line. For every          *)
(* declaration that compiles: the load can rely on its leaves, and they are  *)
(* spelled apart.                                                            *)
EXTENDS Service, TLAPS, WellFoundedInduction

HelpWords == {"--help", "-h"}
PrintWords == {"--print-config"}
UnknownWords == {"unknown", "word"}

\* `text` is what the tokens before n give `name` last.
Latest(name, text, n) ==
  \/ /\ text = None
     /\ \A k \in Positions : k < n => input.argv[k].name # name
  \/ \E k \in Positions :
       /\ k < n /\ input.argv[k].name = name /\ text = TextAt(k)
       /\ \A j \in Positions : j < n /\ input.argv[j].name = name => j <= k

AskedBefore(n, names) == \E k \in Positions : k < n /\ Names(k, names)

ParsedOK ==
  /\ \A f \in Field : Latest(f, parsed.args[f], next)
  /\ Latest("--config", parsed.config, next)
  /\ \A k \in Positions : k < next /\ TakesValue(input.argv[k]) => TextAt(k) # None
  /\ next \in Positions => ~IsValue(next)
  /\ parsed.help <=> AskedBefore(next, HelpWords)
  /\ parsed.print <=> AskedBefore(next, PrintWords)
  /\ parsed.unknown <=> AskedBefore(next, UnknownWords)

\* What a field has once a layer is merged.
FromDefault(f) == IF Default[f] # None THEN [text |-> Default[f], origin |-> "default"] ELSE None
FromFile(f) ==
  IF FileText(f) # None THEN [text |-> FileText(f), origin |-> "file"] ELSE FromDefault(f)
FromEnv(f) ==
  IF input.env[f] # None THEN [text |-> input.env[f], origin |-> "env"] ELSE FromFile(f)

StageOK ==
  /\ stage # "done" => outcome = Loading
  /\ stage = "args" => \A f \in Field : entries[f] = None
  /\ stage \notin {"args", "done"} =>
       next > Len(input.argv) /\ ~parsed.help /\ ~parsed.unknown
  /\ stage = "file" => \A f \in Field : entries[f] = FromDefault(f)
  /\ stage = "env" => SourcesOK /\ \A f \in Field : entries[f] = FromFile(f)
  /\ stage = "arg" => SourcesOK /\ \A f \in Field : entries[f] = FromEnv(f)
  /\ stage \in {"merged", "class"} => SourcesOK /\ \A f \in Field : entries[f] = Effective(f)
  /\ stage = "class" => ~parsed.print /\ \A f \in Field : ~BadLeaf(f)

IInv == TypeOK /\ ParsedOK /\ StageOK /\ HighestSourceWins /\ EndsAsTheInputsSay

-----------------------------------------------------------------------------
(* Tokens and what was read of them.                                         *)

\* What the derive admits, of the constants.
LEMMA SchemaFacts ==
  /\ Deployment \in Required /\ Required \subseteq Field
  /\ Switch \subseteq Field \ {Deployment}
  /\ ProdRequired \subseteq Field \ Required /\ DevOnly \subseteq Field \ Required
  /\ \A f \in ProdRequired \cup Required : Default[f] = None
  /\ \A f \in DevOnly : Default[f] = None \/ (f \in Switch /\ Default[f] \in Off)
  BY ConfigAssumption DEF Admitted, Schema

LEMMA PositionsAreNat == ASSUME TypeOK PROVE Positions \subseteq Nat /\ Len(input.argv) \in Nat
  BY DEF TypeOK, Input, Positions

LEMMA TokenAt ==
  ASSUME TypeOK, NEW k \in Positions
  PROVE  /\ input.argv[k] \in Token
         /\ input.argv[k].name \in Flag \cup Word
         /\ input.argv[k].text \in Text \cup {None}
         /\ input.argv[k].name \in Word => input.argv[k].text \in Text /\ ~TakesValue(input.argv[k])
  <1>1. input.argv \in Seq(Token)
    BY DEF TypeOK, Input
  <1>2. input.argv[k] \in Token
    BY <1>1 DEF Positions
  <1>3. Word \cap Flag = {}
    BY ConfigAssumption DEF Word, Flag
  <1>4. {"--config"} \cup (Field \ Switch) \subseteq Flag
    BY DEF Flag
  <1>5. CASE input.argv[k] \in [name : Flag, text : Text \cup {None}]
    BY <1>2, <1>3, <1>5
  <1>6. CASE input.argv[k] \in [name : Word, text : Text]
    BY <1>2, <1>3, <1>4, <1>6 DEF TakesValue
  <1> QED
    BY <1>2, <1>5, <1>6 DEF Token

LEMMA TextAtTyped ==
  ASSUME TypeOK, NEW k \in Positions
  PROVE  TextAt(k) \in Text \cup {None}
  <1>1. Follower(k) \in Text \cup {None}
    <2>1. CASE k < Len(input.argv) /\ input.argv[k + 1].name \in Word
      <3>1. k + 1 \in Positions
        BY <2>1, PositionsAreNat DEF Positions
      <3> QED
        BY <2>1, <3>1, TokenAt DEF Follower
    <2>2. CASE ~(k < Len(input.argv) /\ input.argv[k + 1].name \in Word)
      BY <2>2 DEF Follower
    <2> QED
      BY <2>1, <2>2
  <1>2. "true" \in Text /\ input.argv[k].text \in Text \cup {None}
    BY ConfigAssumption, TokenAt
  <1> QED
    BY <1>1, <1>2 DEF TextAt

\* When every token is read, what was seen last is what decides.
LEMMA LatestDecides ==
  ASSUME TypeOK, NEW name, NEW text, NEW n \in Nat, n > Len(input.argv), Latest(name, text, n)
  PROVE  text = LastText(name)
  <1>1. \A k \in Positions : k < n /\ k \in Nat
    BY PositionsAreNat DEF Positions
  <1>2. CASE text = None /\ \A k \in Positions : k < n => input.argv[k].name # name
    BY <1>1, <1>2 DEF LastText
  <1>3. CASE \E k \in Positions :
               /\ k < n /\ input.argv[k].name = name /\ text = TextAt(k)
               /\ \A j \in Positions : j < n /\ input.argv[j].name = name => j <= k
    <2> DEFINE LastOf(k) == /\ input.argv[k].name = name
                            /\ \A j \in Positions : input.argv[j].name = name => j <= k
    <2>1. PICK k \in Positions : LastOf(k) /\ text = TextAt(k)
      BY <1>1, <1>3
    <2>2. \A j \in Positions : LastOf(j) => j = k
      BY <1>1, <2>1
    <2>3. (CHOOSE j \in Positions : LastOf(j)) = k
      BY <2>1, <2>2
    <2>4. \E j \in Positions : input.argv[j].name = name
      BY <2>1
    <2> QED
      BY <2>1, <2>3, <2>4 DEF LastText
  <1> QED
    BY <1>2, <1>3 DEF Latest

LEMMA EverythingRead ==
  ASSUME IInv, next > Len(input.argv)
  PROVE  /\ \A f \in Field : parsed.args[f] = LastText(f)
         /\ parsed.config = LastText("--config")
         /\ FlagsHaveValues
         /\ parsed.help <=> Asked(HelpWords)
         /\ parsed.print <=> Asked(PrintWords)
         /\ parsed.unknown <=> Asked(UnknownWords)
  <1>1. next \in Nat /\ TypeOK /\ ParsedOK
    BY DEF IInv, TypeOK
  <1>2. \A k \in Positions : k < next
    BY <1>1, PositionsAreNat DEF Positions
  <1>3. \A f \in Field : parsed.args[f] = LastText(f)
    BY <1>1, LatestDecides DEF ParsedOK
  <1>4. parsed.config = LastText("--config")
    BY <1>1, LatestDecides DEF ParsedOK
  <1>5. FlagsHaveValues
    BY <1>1, <1>2 DEF ParsedOK, FlagsHaveValues
  <1>6. \A names : AskedBefore(next, names) <=> Asked(names)
    BY <1>2 DEF AskedBefore, Asked
  <1> QED
    BY <1>1, <1>3, <1>4, <1>5, <1>6 DEF ParsedOK

-----------------------------------------------------------------------------
(* The argument stage.                                                       *)

\* A token adds to what the tokens before it gave.
LEMMA LatestStep ==
  ASSUME TypeOK, NEW k \in Positions, NEW n \in {k + 1, k + 2},
         n = k + 2 => k + 1 \notin Positions \/ input.argv[k + 1].name \in Word,
         NEW name, name \notin Word, NEW text, Latest(name, text, k)
  PROVE  Latest(name, IF input.argv[k].name = name THEN TextAt(k) ELSE text, n)
  <1>1. Positions \subseteq Nat
    BY PositionsAreNat
  <1>2. \A j \in Positions : j < n <=> j < k \/ j = k \/ (n = k + 2 /\ j = k + 1)
    BY <1>1
  <1>3. \A j \in Positions : n = k + 2 /\ j = k + 1 => input.argv[j].name # name
    OBVIOUS
  <1>4. CASE input.argv[k].name = name
    <2>1. \A j \in Positions : j < n /\ input.argv[j].name = name => j <= k
      BY <1>1, <1>2, <1>3
    <2>2. k < n
      BY <1>1
    <2> QED
      BY <1>4, <2>1, <2>2 DEF Latest
  <1>5. CASE input.argv[k].name # name
    <2>1. \A j \in Positions : j < n /\ input.argv[j].name = name <=> j < k /\ input.argv[j].name = name
      BY <1>2, <1>3, <1>5
    <2>2. CASE text = None /\ \A j \in Positions : j < k => input.argv[j].name # name
      BY <1>5, <2>1, <2>2 DEF Latest
    <2>3. CASE \E i \in Positions :
                 /\ i < k /\ input.argv[i].name = name /\ text = TextAt(i)
                 /\ \A j \in Positions : j < k /\ input.argv[j].name = name => j <= i
      <3>1. PICK i \in Positions :
                 /\ i < k /\ input.argv[i].name = name /\ text = TextAt(i)
                 /\ \A j \in Positions : j < k /\ input.argv[j].name = name => j <= i
        BY <2>3
      <3>2. i < n /\ \A j \in Positions : j < n /\ input.argv[j].name = name => j <= i
        BY <2>1, <3>1
      <3> QED
        BY <1>5, <3>1, <3>2 DEF Latest
    <2> QED
      BY <2>2, <2>3 DEF Latest
  <1> QED
    BY <1>4, <1>5

\* The word a flag consumes asks for nothing.
LEMMA AskedStep ==
  ASSUME TypeOK, NEW k \in Positions, NEW n \in {k + 1, k + 2},
         ~IsValue(k), n = k + 2 => k + 1 \notin Positions \/ IsValue(k + 1),
         NEW names
  PROVE  AskedBefore(n, names) <=> AskedBefore(k, names) \/ input.argv[k].name \in names
  <1>1. \A j \in Positions : j < n <=> j < k \/ j = k \/ (n = k + 2 /\ j = k + 1)
    BY PositionsAreNat
  <1>2. Names(k, names) <=> input.argv[k].name \in names
    BY DEF Names
  <1>3. \A j \in Positions : n = k + 2 /\ j = k + 1 => ~Names(j, names)
    BY DEF Names
  <1> QED
    BY <1>1, <1>2, <1>3 DEF AskedBefore
LEMMA InputStays ==
  ASSUME input' = input
  PROVE  /\ Positions' = Positions
         /\ \A k : (TextAt(k))' = TextAt(k)
         /\ \A k : (IsValue(k))' = IsValue(k)
         /\ \A names : (Asked(names))' = Asked(names)
         /\ \A name : (LastText(name))' = LastText(name)
         /\ \A f : (FileText(f))' = FileText(f) /\ (Effective(f))' = Effective(f)
         /\ FlagsHaveValues' = FlagsHaveValues /\ SourcesOK' = SourcesOK
         /\ LeavesOK' = LeavesOK /\ ClassOK' = ClassOK
  <1>1. /\ Positions' = Positions
        /\ \A k : (TextAt(k))' = TextAt(k)
        /\ \A k : (IsValue(k))' = IsValue(k)
    BY DEF Positions, TextAt, Follower, IsValue
  <1>2. \A names : (Asked(names))' = Asked(names)
    BY <1>1 DEF Asked, Names
  <1>3. \A name : (LastText(name))' = LastText(name)
    BY <1>1 DEF LastText
  <1>4. NamedFile' = NamedFile
    BY <1>3 DEF NamedFile
  <1>5. \A f : (FileText(f))' = FileText(f)
    BY <1>4 DEF FileText
  <1>6. \A f : (Effective(f))' = Effective(f)
    BY <1>3, <1>5 DEF Effective
  <1>7. FlagsHaveValues' = FlagsHaveValues
    BY <1>1 DEF FlagsHaveValues
  <1>8. SourcesOK' = SourcesOK
    BY <1>2, <1>4, <1>7 DEF SourcesOK
  <1>9. LeavesOK' = LeavesOK /\ ClassOK' = ClassOK
    BY <1>6 DEF LeavesOK, ClassOK
  <1> QED
    BY <1>1, <1>2, <1>3, <1>5, <1>6, <1>7, <1>8, <1>9

\* While argv is read nothing is decided.
LEMMA ReadingStep ==
  ASSUME IInv, ParseToken
  PROVE  IInv'
  <1> DEFINE token == input.argv[next]
  <1>1. /\ TypeOK /\ ParsedOK /\ StageOK
        /\ stage = "args" /\ outcome = Loading
        /\ next \in Positions /\ next \in Nat
        /\ input' = input /\ stage' = stage /\ entries' = entries /\ outcome' = outcome
        /\ next' = After(next)
    BY DEF IInv, ParseToken, TypeOK, StageOK, Positions
  <1>2. ~IsValue(next)
    BY <1>1 DEF ParsedOK
  <1>3. TakesValue(token) => TextAt(next) # None
    BY DEF ParseToken
  <1>4. /\ token.name \in Flag \cup Word /\ TextAt(next) \in Text \cup {None}
        /\ token.name \in Word => ~TakesValue(token)
    BY <1>1, TokenAt, TextAtTyped
  <1>5. "--config" \notin Field /\ "--config" \notin Word /\ Field \cap Word = {}
        /\ Switch \subseteq Field
    BY ConfigAssumption, SchemaFacts DEF Word
  <1>6. /\ next' \in {next + 1, next + 2}
        /\ next' = next + 2 => next + 1 \in Positions /\ input.argv[next + 1].name \in Word
                                /\ IsValue(next + 1)
        /\ next' = next + 1 => ~IsValue(next + 1)
    <2>1. CASE TakesValue(token) /\ token.text = None
      <3>1. token.name \notin Switch
        BY <1>5, <2>1 DEF TakesValue
      <3>2. next < Len(input.argv) /\ input.argv[next + 1].name \in Word
        BY <1>3, <2>1, <3>1 DEF TextAt, Follower
      <3>3. next + 1 \in Positions /\ next >= 1
        BY <1>1, <3>2, PositionsAreNat DEF Positions
      <3>4. (next + 1) - 1 = next /\ next' = next + 2
        BY <1>1, <2>1 DEF After
      <3> QED
        BY <1>1, <2>1, <3>2, <3>3, <3>4 DEF IsValue
    <2>2. CASE ~(TakesValue(token) /\ token.text = None)
      <3>1. (next + 1) - 1 = next /\ next' = next + 1
        BY <1>1, <2>2 DEF After
      <3> QED
        BY <1>1, <2>2, <3>1 DEF IsValue
    <2> QED
      BY <2>1, <2>2
  <1>7. \A f \in Field : Latest(f, parsed'.args[f], next')
    <2> TAKE f \in Field
    <2>1. parsed'.args[f] = IF token.name = f THEN TextAt(next) ELSE parsed.args[f]
      BY <1>1 DEF ParseToken, TypeOK, Parsed, Layer
    <2>2. Latest(f, parsed.args[f], next) /\ f \notin Word
      BY <1>1, <1>5 DEF ParsedOK
    <2> QED
      BY <1>1, <1>6, <2>1, <2>2, LatestStep
  <1>8. Latest("--config", parsed'.config, next')
    <2>1. parsed'.config = IF token.name = "--config" THEN TextAt(next) ELSE parsed.config
      BY <1>1 DEF ParseToken, TypeOK, Parsed
    <2>2. Latest("--config", parsed.config, next)
      BY <1>1 DEF ParsedOK
    <2> QED
      BY <1>1, <1>5, <1>6, <2>1, <2>2, LatestStep
  <1>9. \A j \in Positions : j < next' /\ TakesValue(input.argv[j]) => TextAt(j) # None
    <2>1. \A j \in Positions : j < next' => j < next \/ j = next \/ (j = next + 1 /\ next' = next + 2)
      BY <1>1, <1>6, PositionsAreNat
    <2>2. next' = next + 2 => ~TakesValue(input.argv[next + 1])
      BY <1>1, <1>6, TokenAt
    <2> QED
      BY <1>1, <1>3, <2>1, <2>2 DEF ParsedOK
  <1>10. next' \in Positions => ~IsValue(next')
    <2>1. CASE next' = next + 2
      <3>1. ~TakesValue(input.argv[next + 1]) /\ next' - 1 = next + 1
        BY <1>1, <1>6, <2>1, TokenAt
      <3> QED
        BY <3>1 DEF IsValue
    <2> QED
      BY <1>6, <2>1
  <1>11. \A names : AskedBefore(next', names)
                      <=> AskedBefore(next, names) \/ token.name \in names
    BY <1>1, <1>2, <1>6, AskedStep
  <1>12. /\ parsed'.help <=> AskedBefore(next', HelpWords)
         /\ parsed'.print <=> AskedBefore(next', PrintWords)
         /\ parsed'.unknown <=> AskedBefore(next', UnknownWords)
    <2>1. /\ parsed'.help = (parsed.help \/ token.name \in {"--help", "-h"})
          /\ parsed'.print = (parsed.print \/ token.name = "--print-config")
          /\ parsed'.unknown = (parsed.unknown \/ token.name \in {"unknown", "word"})
      BY <1>1 DEF ParseToken, TypeOK, Parsed
    <2> QED
      BY <1>1, <1>11, <2>1 DEF ParsedOK, HelpWords, PrintWords, UnknownWords
  <1>13. ParsedOK'
    <2>1. \A names : AskedBefore(next', names) <=> (AskedBefore(next, names))'
      BY <1>1, InputStays DEF AskedBefore, Names
    <2>2. \A f \in Field : (Latest(f, parsed.args[f], next))'
      BY <1>1, <1>7, InputStays DEF Latest
    <2>3. (Latest("--config", parsed.config, next))'
      BY <1>1, <1>8, InputStays DEF Latest
    <2>4. /\ \A j \in Positions' : j < next' /\ (TakesValue(input.argv[j]))' => (TextAt(j))' # None
          /\ next' \in Positions' => ~(IsValue(next))'
      BY <1>1, <1>9, <1>10, InputStays DEF TakesValue, IsValue
    <2> QED
      BY <1>12, <2>1, <2>2, <2>3, <2>4 DEF ParsedOK, HelpWords, PrintWords, UnknownWords
  <1>14. TypeOK'
    <2>1. parsed' \in Parsed
      <3>1. parsed \in Parsed
        BY <1>1 DEF TypeOK
      <3>2. token.name \in Field \/ token.name = "--config" => TextAt(next) \in Text \cup {None}
        BY <1>4
      <3> QED
        BY <3>1, <1>4 DEF ParseToken, Parsed, Layer
    <2>2. next' \in Nat \ {0}
      BY <1>1, <1>6
    <2> QED
      BY <1>1, <2>1, <2>2 DEF TypeOK
  <1>15. None \notin {"type", "class"}
    BY ConfigAssumption DEF Why
  <1>16. StageOK' /\ HighestSourceWins' /\ EndsAsTheInputsSay'
    BY <1>1, <1>15 DEF StageOK, HighestSourceWins, EndsAsTheInputsSay, Loading
  <1> QED
    BY <1>13, <1>14, <1>16 DEF IInv
-----------------------------------------------------------------------------
(* The layers.                                                               *)

LEMMA ParsedStays ==
  ASSUME ParsedOK, input' = input, next' = next, parsed' = parsed
  PROVE  ParsedOK'
  <1>1. \A name, text : (Latest(name, text, next))' <=> Latest(name, text, next)
    BY InputStays DEF Latest
  <1>2. \A f \in Field : (Latest(f, parsed.args[f], next))'
    BY InputStays DEF ParsedOK, Latest
  <1>3. (Latest("--config", parsed.config, next))'
    BY InputStays DEF ParsedOK, Latest
  <1>4. \A names : (AskedBefore(next, names))' <=> AskedBefore(next, names)
    BY InputStays DEF AskedBefore, Names
  <1>5. /\ \A k \in Positions' :
              k < next' /\ (TakesValue(input.argv[k]))' => (TextAt(k))' # None
        /\ next' \in Positions' => ~(IsValue(next))'
    BY InputStays DEF ParsedOK, TakesValue, IsValue
  <1> QED
    BY <1>2, <1>3, <1>4, <1>5 DEF ParsedOK, HelpWords, PrintWords, UnknownWords

\* The file that is read is the one that is named.
LEMMA TheNamedFile ==
  ASSUME IInv, AppCaps, next > Len(input.argv)
  PROVE  ConfigFile = NamedFile
  <1>1. AppCaps = TRUE
    BY ConfigAssumption
  <1> QED
    BY <1>1, EverythingRead DEF ConfigFile, ConfigEnv, NamedFile

LEMMA OverlayTyped ==
  ASSUME TypeOK, NEW layer \in Layer, NEW origin \in Origin
  PROVE  Overlay(layer, origin) \in [Field -> Entry \cup {None}]
  <1> SUFFICES ASSUME NEW f \in Field
      PROVE  (IF layer[f] # None THEN [text |-> layer[f], origin |-> origin] ELSE entries[f])
               \in Entry \cup {None}
    BY DEF Overlay
  <1>1. entries[f] \in Entry \cup {None} /\ layer[f] \in Text \cup {None}
    BY DEF TypeOK, Layer
  <1> QED
    BY <1>1 DEF Entry

\* A merge leaves what was asked for and read.
LEMMA MergeKeeps ==
  ASSUME IInv, NEW layer \in Layer, NEW origin \in Origin,
         NEW then \in {"file", "env", "arg", "merged"}, Merge(layer, origin, then),
         stage # "done"
  PROVE  /\ TypeOK' /\ ParsedOK' /\ EndsAsTheInputsSay'
         /\ input' = input /\ next' = next /\ parsed' = parsed
         /\ stage' = then /\ outcome' = Loading /\ outcome = Loading
         /\ \A f \in Field :
              entries'[f] = IF layer[f] # None THEN [text |-> layer[f], origin |-> origin]
                            ELSE entries[f]
  <1>1. TypeOK /\ ParsedOK /\ outcome = Loading
    BY DEF IInv, StageOK
  <1>2. /\ input' = input /\ next' = next /\ parsed' = parsed
        /\ stage' = then /\ outcome' = outcome /\ entries' = Overlay(layer, origin)
    BY DEF Merge
  <1>3. TypeOK'
    BY <1>1, <1>2, OverlayTyped DEF TypeOK
  <1>4. ParsedOK'
    BY <1>1, <1>2, ParsedStays
  <1>5. EndsAsTheInputsSay'
    BY <1>1, <1>2 DEF EndsAsTheInputsSay, Loading
  <1> QED
    BY <1>1, <1>2, <1>3, <1>4, <1>5 DEF Overlay

LEMMA LayersStay ==
  ASSUME input' = input
  PROVE  \A f : (FromFile(f))' = FromFile(f) /\ (FromEnv(f))' = FromEnv(f)
                 /\ (FromDefault(f))' = FromDefault(f)
  BY InputStays DEF FromFile, FromEnv, FromDefault

LEMMA DefaultsStep ==
  ASSUME IInv, MergeDefaults
  PROVE  IInv'
  <1>1. /\ stage = "args" /\ next > Len(input.argv) /\ ~parsed.help /\ ~parsed.unknown
        /\ Merge(Default, "default", "file")
    BY DEF MergeDefaults
  <1>2. Default \in Layer
    BY ConfigAssumption DEF Layer
  <1>3. /\ TypeOK' /\ ParsedOK' /\ EndsAsTheInputsSay'
        /\ input' = input /\ next' = next /\ parsed' = parsed
        /\ stage' = "file" /\ outcome' = Loading
        /\ \A f \in Field :
             entries'[f] = IF Default[f] # None
                           THEN [text |-> Default[f], origin |-> "default"] ELSE entries[f]
    BY <1>1, <1>2, MergeKeeps DEF Origin
  <1>4. \A f \in Field : entries'[f] = FromDefault(f)
    BY <1>1, <1>3 DEF IInv, StageOK, FromDefault
  <1>5. StageOK'
    BY <1>1, <1>3, <1>4, LayersStay DEF StageOK
  <1>6. HighestSourceWins'
    BY <1>3, ConfigAssumption DEF HighestSourceWins, Loading, Why
  <1> QED
    BY <1>3, <1>5, <1>6 DEF IInv

LEMMA FileStep ==
  ASSUME IInv, AppCaps, MergeFile
  PROVE  IInv'
  <1> DEFINE layer == IF ConfigFile = None THEN Nothing ELSE input.disk[ConfigFile]
  <1>1. /\ stage = "file"
        /\ ConfigFile # None => input.disk[ConfigFile] # None
        /\ Merge(layer, "file", "env")
    BY DEF MergeFile
  <1>2. /\ TypeOK /\ next > Len(input.argv) /\ ~parsed.help /\ ~parsed.unknown
        /\ \A f \in Field : entries[f] = FromDefault(f)
    BY <1>1 DEF IInv, StageOK
  <1>3. ConfigFile = NamedFile
    BY <1>2, TheNamedFile
  <1>4. layer \in Layer
    <2>1. ConfigFile \in Text \cup {None}
      BY <1>2, ConfigAssumption DEF TypeOK, Parsed, Input, ConfigFile, ConfigEnv
    <2>2. CASE ConfigFile = None
      BY <2>2 DEF Nothing, Layer
    <2>3. CASE ConfigFile # None
      BY <1>1, <1>2, <2>1, <2>3 DEF TypeOK, Input
    <2> QED
      BY <2>2, <2>3
  <1>5. \A f \in Field : layer[f] = FileText(f)
    BY <1>1, <1>3 DEF FileText, Nothing
  <1> HIDE DEF layer
  <1>6. /\ TypeOK' /\ ParsedOK' /\ EndsAsTheInputsSay'
        /\ input' = input /\ next' = next /\ parsed' = parsed
        /\ stage' = "env" /\ outcome' = Loading
        /\ \A f \in Field :
             entries'[f] = IF layer[f] # None
                           THEN [text |-> layer[f], origin |-> "file"] ELSE entries[f]
    BY <1>1, <1>4, MergeKeeps DEF Origin
  <1>7. \A f \in Field : entries'[f] = FromFile(f)
    BY <1>2, <1>5, <1>6 DEF FromFile
  <1>8. SourcesOK
    BY <1>1, <1>2, <1>3, EverythingRead DEF SourcesOK, UnknownWords
  <1>9. StageOK'
    BY <1>2, <1>6, <1>7, <1>8, LayersStay, InputStays DEF StageOK
  <1>10. HighestSourceWins'
    BY <1>6, ConfigAssumption DEF HighestSourceWins, Loading, Why
  <1> QED
    BY <1>6, <1>9, <1>10 DEF IInv

LEMMA EnvStep ==
  ASSUME IInv, MergeEnv
  PROVE  IInv'
  <1>1. stage = "env" /\ Merge(input.env, "env", "arg")
    BY DEF MergeEnv
  <1>2. /\ TypeOK /\ next > Len(input.argv) /\ ~parsed.help /\ ~parsed.unknown
        /\ SourcesOK /\ \A f \in Field : entries[f] = FromFile(f)
    BY <1>1 DEF IInv, StageOK
  <1>3. input.env \in Layer
    BY <1>2 DEF TypeOK, Input
  <1>4. /\ TypeOK' /\ ParsedOK' /\ EndsAsTheInputsSay'
        /\ input' = input /\ next' = next /\ parsed' = parsed
        /\ stage' = "arg" /\ outcome' = Loading
        /\ \A f \in Field :
             entries'[f] = IF input.env[f] # None
                           THEN [text |-> input.env[f], origin |-> "env"] ELSE entries[f]
    BY <1>1, <1>3, MergeKeeps DEF Origin
  <1>5. \A f \in Field : entries'[f] = FromEnv(f)
    BY <1>2, <1>4 DEF FromEnv
  <1>6. StageOK'
    BY <1>2, <1>4, <1>5, LayersStay, InputStays DEF StageOK
  <1>7. HighestSourceWins'
    BY <1>4, ConfigAssumption DEF HighestSourceWins, Loading, Why
  <1> QED
    BY <1>4, <1>6, <1>7 DEF IInv

LEMMA ArgsStep ==
  ASSUME IInv, MergeArgs
  PROVE  IInv'
  <1>1. stage = "arg" /\ Merge(parsed.args, "arg", "merged")
    BY DEF MergeArgs
  <1>2. /\ TypeOK /\ next > Len(input.argv) /\ ~parsed.help /\ ~parsed.unknown
        /\ SourcesOK /\ \A f \in Field : entries[f] = FromEnv(f)
    BY <1>1 DEF IInv, StageOK
  <1>3. parsed.args \in Layer /\ \A f \in Field : parsed.args[f] = LastText(f)
    BY <1>2, EverythingRead DEF TypeOK, Parsed
  <1>4. /\ TypeOK' /\ ParsedOK' /\ EndsAsTheInputsSay'
        /\ input' = input /\ next' = next /\ parsed' = parsed
        /\ stage' = "merged" /\ outcome' = Loading
        /\ \A f \in Field :
             entries'[f] = IF parsed.args[f] # None
                           THEN [text |-> parsed.args[f], origin |-> "arg"] ELSE entries[f]
    BY <1>1, <1>3, MergeKeeps DEF Origin
  <1>5. \A f \in Field : entries'[f] = Effective(f)
    BY <1>2, <1>3, <1>4 DEF FromEnv, FromFile, FromDefault, Effective
  <1>6. StageOK'
    BY <1>2, <1>4, <1>5, InputStays DEF StageOK
  <1>7. HighestSourceWins'
    BY <1>4, <1>5, InputStays DEF HighestSourceWins
  <1> QED
    BY <1>4, <1>6, <1>7 DEF IInv
-----------------------------------------------------------------------------
(* The ends.                                                                 *)

LEMMA RefusalStep ==
  ASSUME IInv, NEW why \in Why, NEW field \in Field \cup {None}, Refuses(why, field),
         \/ ~FlagsHaveValues
         \/ ~Asked(HelpWords) /\ ~SourcesOK
         \/ ~Asked(HelpWords \cup PrintWords) /\ ~(LeavesOK /\ ClassOK),
         why \in {"type", "class"} => \A f \in Field : entries[f] = Effective(f)
  PROVE  IInv'
  <1> DEFINE end == [kind |-> "refused", why |-> why, field |-> field]
  <1>1. /\ outcome' = end /\ stage' = "done"
        /\ input' = input /\ next' = next /\ parsed' = parsed /\ entries' = entries
    BY DEF Refuses
  <1>2. end \in Outcome
    BY DEF Outcome
  <1>3. TypeOK' /\ ParsedOK' /\ StageOK'
    <2>1. TypeOK'
      BY <1>1, <1>2 DEF IInv, TypeOK
    <2>2. ParsedOK'
      BY <1>1, ParsedStays DEF IInv
    <2> QED
      BY <1>1, <2>1, <2>2 DEF StageOK
  <1>4. HighestSourceWins'
    BY <1>1, InputStays DEF HighestSourceWins
  <1>5. EndsAsTheInputsSay'
    BY <1>1, InputStays DEF EndsAsTheInputsSay, HelpWords, PrintWords
  <1> QED
    BY <1>3, <1>4, <1>5 DEF IInv

LEMMA EndStep ==
  ASSUME IInv, NEW kind \in {"config", "help", "print"}, Ends(kind),
         kind # "help" => \A f \in Field : entries[f] = Effective(f),
         kind = "config" => /\ ~Asked(HelpWords \cup PrintWords)
                            /\ SourcesOK /\ LeavesOK /\ ClassOK,
         kind = "help" => Asked(HelpWords) /\ FlagsHaveValues,
         kind = "print" => Asked(PrintWords) /\ ~Asked(HelpWords) /\ SourcesOK
  PROVE  IInv'
  <1> DEFINE end == [Loading EXCEPT !.kind = kind]
  <1>1. /\ outcome' = end /\ stage' = "done"
        /\ input' = input /\ next' = next /\ parsed' = parsed /\ entries' = entries
    BY DEF Ends
  <1>2. end \in Outcome /\ end.kind = kind /\ end.why = None
    BY DEF Outcome, Loading
  <1>3. TypeOK' /\ ParsedOK' /\ StageOK'
    <2>1. TypeOK'
      BY <1>1, <1>2 DEF IInv, TypeOK
    <2>2. ParsedOK'
      BY <1>1, ParsedStays DEF IInv
    <2> QED
      BY <1>1, <2>1, <2>2 DEF StageOK
  <1>4. HighestSourceWins'
    BY <1>1, <1>2, InputStays, ConfigAssumption DEF HighestSourceWins, Why
  <1>5. EndsAsTheInputsSay'
    BY <1>1, <1>2, InputStays DEF EndsAsTheInputsSay, HelpWords, PrintWords
  <1> QED
    BY <1>3, <1>4, <1>5 DEF IInv
LEMMA ArgumentEnds ==
  ASSUME IInv, NoValue \/ Help \/ UnknownFlags
  PROVE  IInv'
  <1>1. CASE NoValue
    <2>1. PICK field \in Field \cup {None} : Refuses("no value", field)
      BY <1>1 DEF NoValue
    <2>2. next \in Positions
      <3>1. TypeOK /\ next \in Nat \ {0} /\ next <= Len(input.argv)
        BY <1>1 DEF NoValue, IInv, TypeOK
      <3> QED
        BY <3>1, PositionsAreNat DEF Positions
    <2>3. ~FlagsHaveValues
      BY <1>1, <2>2 DEF NoValue, FlagsHaveValues
    <2> QED
      BY <2>1, <2>3, RefusalStep DEF Why
  <1>2. CASE Help
    <2>1. Asked(HelpWords) /\ FlagsHaveValues
      BY <1>2, EverythingRead DEF Help
    <2> QED
      BY <1>2, <2>1, EndStep DEF Help
  <1>3. CASE UnknownFlags
    <2>1. ~Asked(HelpWords) /\ ~SourcesOK
      BY <1>3, EverythingRead DEF UnknownFlags, SourcesOK, UnknownWords
    <2> QED
      BY <1>3, <2>1, RefusalStep DEF UnknownFlags, Why
  <1> QED
    BY <1>1, <1>2, <1>3

LEMMA BadFileStep ==
  ASSUME IInv, AppCaps, BadFile
  PROVE  IInv'
  <1>1. next > Len(input.argv) /\ ~parsed.help
    BY DEF BadFile, IInv, StageOK
  <1>2. ConfigFile = NamedFile /\ ~Asked(HelpWords)
    BY <1>1, TheNamedFile, EverythingRead
  <1>3. ~SourcesOK
    BY <1>2 DEF BadFile, SourcesOK
  <1> QED
    BY <1>2, <1>3, RefusalStep DEF BadFile, Why

\* What is known once the layers are merged.
LEMMA Merged ==
  ASSUME IInv, stage \in {"merged", "class"}
  PROVE  /\ \A f \in Field : entries[f] = Effective(f)
         /\ SourcesOK /\ ~Asked(HelpWords)
         /\ parsed.print <=> Asked(PrintWords)
         /\ (~parsed.print => ~Asked(HelpWords \cup PrintWords))
  <1>1. /\ \A f \in Field : entries[f] = Effective(f)
        /\ SourcesOK /\ ~parsed.help /\ next > Len(input.argv)
    BY DEF IInv, StageOK
  <1>2. ~Asked(HelpWords) /\ (parsed.print <=> Asked(PrintWords))
    BY <1>1, EverythingRead
  <1>3. Asked(HelpWords \cup PrintWords) => Asked(HelpWords) \/ Asked(PrintWords)
    BY DEF Asked, Names
  <1> QED
    BY <1>1, <1>2, <1>3

LEMMA PrintStep ==
  ASSUME IInv, PrintConfig
  PROVE  IInv'
  BY Merged, EndStep DEF PrintConfig

LEMMA TypedStep ==
  ASSUME IInv, Typed
  PROVE  IInv'
  <1>1. /\ stage = "merged" /\ ~parsed.print /\ \A f \in Field : ~BadLeaf(f)
        /\ stage' = "class"
        /\ input' = input /\ next' = next /\ parsed' = parsed
        /\ entries' = entries /\ outcome' = outcome
    BY DEF Typed
  <1>2. TypeOK'
    BY <1>1 DEF IInv, TypeOK
  <1>3. ParsedOK'
    BY <1>1, ParsedStays DEF IInv
  <1>4. \A f \in Field : ~(BadLeaf(f))'
    BY <1>1 DEF BadLeaf
  <1>5. StageOK'
    BY <1>1, <1>4, InputStays DEF IInv, StageOK
  <1>6. HighestSourceWins'
    BY <1>1, Merged, InputStays DEF HighestSourceWins
  <1>7. EndsAsTheInputsSay'
    BY <1>1 DEF IInv, StageOK, EndsAsTheInputsSay, Loading
  <1> QED
    BY <1>2, <1>3, <1>5, <1>6, <1>7 DEF IInv

LEMMA TypeRefusal ==
  ASSUME IInv, NEW f \in Field, WrongType(f)
  PROVE  IInv'
  <1>1. stage = "merged" /\ ~parsed.print /\ BadLeaf(f) /\ Refuses("type", f)
    BY DEF WrongType
  <1>2. ~LeavesOK
    BY <1>1, Merged DEF BadLeaf, LeavesOK
  <1> QED
    BY <1>1, <1>2, Merged, RefusalStep DEF Why

LEMMA ClassRefusal ==
  ASSUME IInv, NEW f \in Field, WrongClass(f)
  PROVE  IInv'
  <1>1. stage = "class" /\ Offends(f) /\ Refuses("class", f) /\ ~parsed.print
    BY DEF WrongClass, IInv, StageOK
  <1>2. entries[Deployment] = Effective(Deployment) /\ entries[f] = Effective(f)
    BY <1>1, Merged, SchemaFacts
  <1>3. On \cap Off = {}
    BY ConfigAssumption
  <1>4. ~ClassOK
    BY <1>1, <1>2, <1>3 DEF Offends, Enabled, ClassOK
  <1> QED
    BY <1>1, <1>4, Merged, RefusalStep DEF Why

LEMMA LoadedStep ==
  ASSUME IInv, Loaded
  PROVE  IInv'
  <1>1. /\ stage = "class" /\ (\A f \in Field : ~Offends(f)) /\ Ends("config")
        /\ ~parsed.print /\ \A f \in Field : ~BadLeaf(f)
    BY DEF Loaded, IInv, StageOK
  <1>2. \A f \in Field : entries[f] = Effective(f)
    BY <1>1, Merged
  <1>3. LeavesOK
    BY <1>1, <1>2 DEF BadLeaf, LeavesOK
  <1>4. ClassOK
    <2>1. Deployment \in Field /\ ProdRequired \subseteq Field /\ DevOnly \subseteq Field
      BY SchemaFacts
    <2>2. SUFFICES ASSUME entries[Deployment].text = "prod"
                   PROVE  /\ \A f \in ProdRequired : entries[f] # None
                          /\ \A f \in DevOnly :
                               entries[f] # None => f \in Switch /\ entries[f].text \in Off
      BY <1>2, <2>1 DEF ClassOK
    <2>3. \A f \in ProdRequired : entries[f] # None
      BY <1>1, <2>1, <2>2 DEF Offends
    <2>4. ASSUME NEW f \in DevOnly, entries[f] # None
          PROVE  f \in Switch /\ entries[f].text \in Off
      <3>1. f \in Switch /\ entries[f].text \notin On
        BY <1>1, <2>1, <2>2, <2>4 DEF Offends, Enabled
      <3>2. entries[f].text \in Valid[f] /\ Valid[f] = On \cup Off
        BY <1>1, <2>1, <2>4, <3>1, ConfigAssumption DEF BadLeaf
      <3> QED
        BY <3>1, <3>2
    <2> QED
      BY <2>3, <2>4
  <1> QED
    BY <1>1, <1>2, <1>3, <1>4, Merged, EndStep

-----------------------------------------------------------------------------

LEMMA InitInv == Init => IInv
  <1> SUFFICES ASSUME Init PROVE IInv
    OBVIOUS
  <1>1. /\ input \in Input /\ stage = "args" /\ next = 1 /\ outcome = Loading
        /\ parsed = [help |-> FALSE, print |-> FALSE, unknown |-> FALSE, config |-> None,
                     args |-> Nothing]
        /\ entries = Nothing
    BY DEF Init, InitFrom
  <1>2. TypeOK
    <2>1. outcome \in Outcome
      BY <1>1 DEF Loading, Outcome
    <2>2. parsed \in Parsed
      BY <1>1 DEF Parsed, Nothing, Layer
    <2>3. entries \in [Field -> Entry \cup {None}]
      BY <1>1 DEF Nothing
    <2> QED
      BY <1>1, <2>1, <2>2, <2>3 DEF TypeOK
  <1>3. \A k \in Positions : ~(k < next)
    BY <1>1, <1>2, PositionsAreNat DEF Positions
  <1>4. \A f \in Field : parsed.args[f] = None /\ entries[f] = None
    BY <1>1 DEF Nothing
  <1>5. \A name : Latest(name, None, next)
    BY <1>3 DEF Latest
  <1>6. ~IsValue(next)
    BY <1>1 DEF IsValue
  <1>7. ParsedOK
    BY <1>1, <1>3, <1>4, <1>5, <1>6 DEF ParsedOK, AskedBefore
  <1>8. StageOK
    BY <1>1, <1>4 DEF StageOK
  <1>9. HighestSourceWins /\ EndsAsTheInputsSay
    BY <1>1, ConfigAssumption DEF HighestSourceWins, EndsAsTheInputsSay, Loading, Why
  <1> QED
    BY <1>2, <1>7, <1>8, <1>9 DEF IInv

LEMMA StepInv == AppCaps /\ IInv /\ [Next]_vars => IInv'
  <1> SUFFICES ASSUME AppCaps, IInv, [Next]_vars PROVE IInv'
    OBVIOUS
  <1>1. CASE ParseToken
    BY <1>1, ReadingStep
  <1>2. CASE NoValue \/ Help \/ UnknownFlags
    BY <1>2, ArgumentEnds
  <1>3. CASE MergeDefaults
    BY <1>3, DefaultsStep
  <1>4. CASE MergeFile
    BY <1>4, FileStep
  <1>5. CASE BadFile
    BY <1>5, BadFileStep
  <1>6. CASE MergeEnv
    BY <1>6, EnvStep
  <1>7. CASE MergeArgs
    BY <1>7, ArgsStep
  <1>8. CASE PrintConfig
    BY <1>8, PrintStep
  <1>9. CASE \E f \in Field : WrongType(f) \/ WrongClass(f)
    BY <1>9, TypeRefusal, ClassRefusal
  <1>10. CASE Typed
    BY <1>10, TypedStep
  <1>11. CASE Loaded
    BY <1>11, LoadedStep
  <1>12. CASE UNCHANGED vars
    <2>1. input' = input /\ stage' = stage /\ next' = next /\ parsed' = parsed
          /\ entries' = entries /\ outcome' = outcome
      BY <1>12 DEF vars
    <2>2. TypeOK' /\ ParsedOK'
      BY <2>1, ParsedStays DEF IInv, TypeOK
    <2>3. \A f \in Field : (BadLeaf(f))' <=> BadLeaf(f)
      BY <2>1 DEF BadLeaf
    <2>4. StageOK'
      BY <2>1, <2>3, InputStays, LayersStay DEF IInv, StageOK
    <2>5. HighestSourceWins' /\ EndsAsTheInputsSay'
      BY <2>1, InputStays DEF IInv, HighestSourceWins, EndsAsTheInputsSay
    <2> QED
      BY <2>2, <2>4, <2>5 DEF IInv
  <1> QED
    BY <1>1, <1>2, <1>3, <1>4, <1>5, <1>6, <1>7, <1>8, <1>9, <1>10, <1>11, <1>12 DEF Next

\* What was read and merged so far is what the inputs say of it, at every stage
\* of the load of an app whose name is in capitals.
THEOREM InductiveInvariant == AppCaps => (Spec => []IInv)
  <1> SUFFICES ASSUME AppCaps PROVE Spec => []IInv
    OBVIOUS
  <1>1. IInv /\ [Next]_vars => IInv'
    BY StepInv
  <1> QED
    BY <1>1, InitInv, PTL DEF Spec

\* For any schema and argv, a field has the text and the origin of the highest
\* source that sets it.
THEOREM HighestSource == AppCaps => (Spec => []HighestSourceWins)
  <1>1. IInv => HighestSourceWins
    BY DEF IInv
  <1> QED
    BY <1>1, InductiveInvariant, PTL

\* For any schema and argv, a load ends with a config, a text or a refusal
\* exactly where its sources, leaves and class call for it.
THEOREM EndsRight == AppCaps => (Spec => []EndsAsTheInputsSay)
  <1>1. IInv => EndsAsTheInputsSay
    BY DEF IInv
  <1> QED
    BY <1>1, InductiveInvariant, PTL

-----------------------------------------------------------------------------
(* The filter of LOG_DESIGNATORS: the last item about a name decides.        *)

\* A set of natural numbers that is not empty has a least one.
LEMMA LeastOf ==
  ASSUME NEW T \in SUBSET Nat, T # {}
  PROVE  \E n \in T : \A m \in T : n <= m
  <1>0. IsWellFoundedOn(OpToRel(<, Nat), Nat)
    BY ONLY NatLessThanWellFounded, ZenonT(60)
  <1>1. PICK x \in T : \A y \in T : ~ (<<y, x>> \in OpToRel(<, Nat))
    <2>1. T \subseteq Nat /\ T # {}
      OBVIOUS
    <2> QED
      BY ONLY <1>0, <2>1, WFMin, ZenonT(60)
  <1>2. \A y \in T : ~ (y < x)
    <2> TAKE y \in T
    <2>1. <<y, x>> \in Nat \X Nat /\ <<y, x>>[1] = y /\ <<y, x>>[2] = x
      OBVIOUS
    <2>2. y < x => <<y, x>> \in OpToRel(<, Nat)
      BY <2>1, ZenonT(60) DEF OpToRel
    <2> QED
      BY <1>1, <2>2
  <1> QED
    BY <1>2

\* Induction, over the set of the numbers that satisfy what is to be shown.
LEMMA InductionOverNat ==
  ASSUME NEW T \in SUBSET Nat, 0 \in T, \A n \in T : n + 1 \in T
  PROVE  T = Nat
  <1> SUFFICES ASSUME T # Nat PROVE FALSE
    OBVIOUS
  <1>1. PICK n \in Nat \ T : \A m \in Nat \ T : n <= m
    <2>1. Nat \ T \in SUBSET Nat /\ Nat \ T # {}
      OBVIOUS
    <2> QED
      BY <2>1, LeastOf
  <1>2. n # 0 /\ n - 1 \in T
    BY <1>1
  <1> QED
    BY <1>1, <1>2

\* The body of FilterUpTo.
FilterNext(filter, items, n) ==
  IF n = 0 THEN NoRules(FALSE) ELSE With(filter[n-1], items[n])

LEMMA FilterUnfold ==
  ASSUME NEW items, Len(items) \in Nat
  PROVE  FilterUpTo(items) = [n \in 0..Len(items) |-> FilterNext(FilterUpTo(items), items, n)]
  <1> DEFINE T == {k \in Nat : \E f : f = [n \in 0..k |-> FilterNext(f, items, n)]}
  <1>1. 0 \in T
    <2> DEFINE none == NoRules(FALSE)
               f == [n \in 0..0 |-> none]
    <2>1. \A g : FilterNext(g, items, 0) = none
      BY DEF FilterNext
    <2> HIDE DEF none
    <2>2. f = [n \in 0..0 |-> FilterNext(f, items, n)]
      BY <2>1
    <2> QED
      BY <2>2
  <1>2. ASSUME NEW k \in T PROVE k + 1 \in T
    <2>1. PICK f : f = [n \in 0..k |-> FilterNext(f, items, n)]
      OBVIOUS
    <2> DEFINE g == [n \in 0..k+1 |-> IF n = k + 1 THEN FilterNext(f, items, n) ELSE f[n]]
    <2>2. \A n \in 0..k+1 : n # 0 => g[n-1] = f[n-1]
      <3>1. \A n \in 0..k+1 : n # 0 => n - 1 \in 0..k+1 /\ n - 1 # k + 1
        OBVIOUS
      <3> QED
        BY <3>1
    <2>3. \A n \in 0..k+1 : FilterNext(g, items, n) = FilterNext(f, items, n)
      <3> HIDE DEF g
      <3> TAKE n \in 0..k+1
      <3>1. CASE n = 0
        BY <3>1 DEF FilterNext
      <3>2. CASE n # 0
        <4>1. g[n-1] = f[n-1]
          BY <2>2, <3>2
        <4> QED
          BY <3>2, <4>1 DEF FilterNext
      <3> QED
        BY <3>1, <3>2
    <2>4. \A n \in 0..k+1 : g[n] = FilterNext(g, items, n)
      <3> TAKE n \in 0..k+1
      <3>1. g[n] = IF n = k + 1 THEN FilterNext(f, items, n) ELSE f[n]
        OBVIOUS
      <3>2. n # k + 1 => f[n] = FilterNext(f, items, n)
        BY <2>1
      <3> HIDE DEF g
      <3> QED
        BY <3>1, <3>2, <2>3
    <2>5. g = [n \in 0..k+1 |-> FilterNext(g, items, n)]
      BY <2>4
    <2> HIDE DEF g
    <2> QED
      BY <2>5
  <1> HIDE DEF T
  <1>3. Len(items) \in T
    <2>1. T \in SUBSET Nat
      BY DEF T
    <2> QED
      BY <1>1, <1>2, <2>1, InductionOverNat
  <1>4. FilterUpTo(items) = CHOOSE f : f = [n \in 0..Len(items) |-> FilterNext(f, items, n)]
    BY DEF FilterUpTo, FilterNext
  <1> QED
    BY <1>3, <1>4 DEF T

\* `level` is what the first n items say last about a name.
SaidLast(items, name, n, level) ==
  \/ level = None /\ \A i \in 1..n : items[i].name # name
  \/ \E i \in 1..n :
       /\ items[i].name = name /\ level = items[i].level
       /\ \A j \in 1..n : items[j].name = name => j <= i

LEMMA SaidNext ==
  ASSUME NEW items, NEW n \in Nat, NEW name, NEW level, SaidLast(items, name, n, level)
  PROVE  SaidLast(items, name, n + 1,
                  IF items[n + 1].name = name THEN items[n + 1].level ELSE level)
  <1>1. \A i \in 1..n+1 : i \in 1..n \/ i = n + 1
    OBVIOUS
  <1>2. CASE items[n + 1].name = name
    BY <1>2 DEF SaidLast
  <1>3. CASE items[n + 1].name # name
    BY <1>1, <1>3 DEF SaidLast
  <1> QED
    BY <1>2, <1>3

GoodItem == [name : Designator \cup {None}, level : Level]

\* What the filter is after n items.
FilterIs(items, n) ==
  LET filter == FilterUpTo(items)[n] IN
  /\ filter \in Filter /\ ~filter.unset
  /\ SaidLast(items, None, n, filter.default)
  /\ \A d \in Designator : SaidLast(items, d, n, filter.rules[d])

LEMMA WithIs ==
  ASSUME NEW filter \in Filter, NEW item \in GoodItem
  PROVE  /\ With(filter, item) \in Filter /\ With(filter, item).unset = filter.unset
         /\ With(filter, item).default = IF item.name = None THEN item.level ELSE filter.default
         /\ \A d \in Designator :
              With(filter, item).rules[d] = IF item.name = d THEN item.level ELSE filter.rules[d]
  <1>1. None \notin Designator
    BY BootAssumption
  <1>2. CASE item.name = None
    BY <1>1, <1>2 DEF With, Filter, GoodItem
  <1>3. CASE item.name # None
    BY <1>1, <1>3 DEF With, Filter, GoodItem
  <1> QED
    BY <1>2, <1>3

LEMMA FilterOf ==
  ASSUME NEW items \in Seq(GoodItem)
  PROVE  FilterIs(items, Len(items))
  <1>1. Len(items) \in Nat /\ \A n \in 1..Len(items) : items[n] \in GoodItem
    OBVIOUS
  <1>2. \A n \in 0..Len(items) : FilterUpTo(items)[n] = FilterNext(FilterUpTo(items), items, n)
    BY <1>1, FilterUnfold
  <1> DEFINE T == {n \in Nat : n <= Len(items) => FilterIs(items, n)}
  <1>3. 0 \in T
    <2>1. FilterUpTo(items)[0] = NoRules(FALSE)
      <3>1. 0 \in 0..Len(items)
        BY <1>1
      <3>2. FilterUpTo(items)[0] = FilterNext(FilterUpTo(items), items, 0)
        BY <1>2, <3>1
      <3> QED
        BY <3>2, Zenon DEF FilterNext
    <2>2. NoRules(FALSE) \in Filter /\ ~NoRules(FALSE).unset /\ NoRules(FALSE).default = None
          /\ \A d \in Designator : NoRules(FALSE).rules[d] = None
      BY DEF NoRules, Filter
    <2>3. \A name : SaidLast(items, name, 0, None)
      BY DEF SaidLast
    <2> QED
      BY <2>1, <2>2, <2>3 DEF FilterIs
  <1>4. ASSUME NEW n \in T PROVE n + 1 \in T
    <2> SUFFICES ASSUME n + 1 <= Len(items) PROVE FilterIs(items, n + 1)
      OBVIOUS
    <2>1. FilterIs(items, n) /\ n \in Nat /\ n + 1 \in 1..Len(items)
      BY <1>1
    <2>2. FilterUpTo(items)[n + 1] = With(FilterUpTo(items)[n], items[n + 1])
      <3>1. n + 1 \in 0..Len(items) /\ n + 1 # 0 /\ (n + 1) - 1 = n
        BY <2>1
      <3> QED
        BY <1>2, <3>1 DEF FilterNext
    <2> DEFINE before == FilterUpTo(items)[n]
               after == FilterUpTo(items)[n + 1]
               item == items[n + 1]
    <2>3. before \in Filter /\ item \in GoodItem /\ ~before.unset
      BY <1>1, <2>1 DEF FilterIs
    <2>4. /\ after \in Filter /\ ~after.unset
          /\ after.default = IF item.name = None THEN item.level ELSE before.default
          /\ \A d \in Designator :
               after.rules[d] = IF item.name = d THEN item.level ELSE before.rules[d]
      BY <2>2, <2>3, WithIs
    <2>5. /\ SaidLast(items, None, n, before.default)
          /\ \A d \in Designator : SaidLast(items, d, n, before.rules[d])
      BY <2>1 DEF FilterIs
    <2>6. SaidLast(items, None, n + 1, after.default)
      BY <2>1, <2>4, <2>5, SaidNext
    <2>7. ASSUME NEW d \in Designator
          PROVE  SaidLast(items, d, n + 1, after.rules[d])
      BY <2>1, <2>4, <2>5, SaidNext
    <2> QED
      BY <2>4, <2>6, <2>7 DEF FilterIs
  <1> HIDE DEF T
  <1>5. T = Nat
    <2>1. T \in SUBSET Nat
      BY DEF T
    <2> QED
      BY <1>3, <1>4, <2>1, InductionOverNat
  <1> QED
    BY <1>1, <1>5 DEF T

-----------------------------------------------------------------------------
(* The boot around the load.                                                 *)

\* LogConfig, of the variables and the deployment.
Chosen ==
  [rust |-> IF log.rust \in {None, Blank} THEN [t \in Target |-> Verbosity] ELSE log.rust,
   designators |-> ParsedFilter(log.designators)]

ItemsOK == ListOK(log.designators)

\* What each phase has behind it.
PhaseOK ==
  /\ phase \in {"load", "format", "assemble", "install", "running", "exit 0", "exit 1"}
  /\ log \in LogEnvironment
  /\ phase \in {"format", "assemble", "install", "running"} => outcome.kind = "config"
  /\ phase \in {"assemble", "install", "running"} => ~BadFormat
  /\ phase \in {"install", "running"} => ItemsOK /\ log.rust # Malformed /\ settings = Chosen

RefusedOK == phase # "exit 1" => refused = None

\* StartsOnlyWhenAllIsValid, of what is read of the variables.
ReadIsValid ==
  /\ phase = "running" \/ refused = "own" =>
       outcome.kind = "config" /\ ~BadFormat /\ ItemsOK /\ log.rust # Malformed
  /\ refused = "config" => outcome.kind = "refused"
  /\ refused = "LOG_FORMAT" => BadFormat /\ outcome.kind = "config"
  /\ refused = "LOG_DESIGNATORS" => ~ItemsOK /\ ~BadFormat
  /\ refused = "RUST_LOG" => log.rust = Malformed /\ ItemsOK

ReadOK == environ \in RawEnvironment /\ log = AllRead(environ)

BootInv == PhaseOK /\ RefusedOK /\ ReadIsValid /\ ReadOK

LEMMA NamesOfRefusals ==
  None \notin {"config", "LOG_FORMAT", "LOG_DESIGNATORS", "RUST_LOG", "own"}
  BY BootAssumption

LEMMA ItemsAreOK ==
  ASSUME log \in LogEnvironment
  PROVE  BadItem <=> ~ItemsOK
  <1>1. CASE log.designators \in {None, Blank}
    BY <1>1 DEF BadItem, ItemsOK, ListOK
  <1>2. CASE log.designators \notin {None, Blank}
    <2>1. log.designators \in Seq(Item)
      BY <1>2 DEF LogEnvironment, Lists
    <2>2. \A i \in DOMAIN log.designators : log.designators[i] \in Item
      BY <2>1
    <2>3. \A i \in DOMAIN log.designators :
            WellFormed(log.designators[i])
              <=> /\ log.designators[i].name \in Designator \cup {None}
                  /\ log.designators[i].level \in Level
      <3> TAKE i \in DOMAIN log.designators
      <3> DEFINE item == log.designators[i]
      <3>1. item.name \in Designator \cup {None, Malformed} /\ item.level \in Level \cup {Malformed}
        BY <2>2 DEF Item
      <3>2. Malformed \notin Designator \cup {None} /\ Malformed \notin Level
        BY BootAssumption
      <3> QED
        BY <3>1, <3>2 DEF WellFormed
    <2> QED
      BY <1>2, <2>3 DEF BadItem, ItemsOK, ListOK
  <1> QED
    BY <1>1, <1>2

LEMMA ReadIsTyped == ReadOK => log \in LogEnvironment
  BY DEF ReadOK, AllRead, AsRead, RawEnvironment, LogEnvironment, Formats, Lists, Filters

LEMMA BootStarts ==
  ASSUME NEW inputs, BootInit(inputs)
  PROVE  BootInv
  <1>1. /\ phase = "load" /\ refused = None /\ log = environ
        /\ environ = [format |-> None, designators |-> None, rust |-> None]
    BY DEF BootInit
  <1>2. ReadOK
    BY <1>1 DEF ReadOK, AllRead, AsRead, RawEnvironment, Formats, Lists, Filters
  <1>3. PhaseOK /\ RefusedOK
    BY <1>1, <1>2, ReadIsTyped DEF PhaseOK, RefusedOK
  <1>4. ReadIsValid
    BY <1>1, NamesOfRefusals DEF ReadIsValid
  <1> QED
    BY <1>2, <1>3, <1>4 DEF BootInv

\* While the load goes on, nothing of the boot rests on it.
LEMMA LoadKeeps ==
  ASSUME BootInv, Load
  PROVE  BootInv'
  <1>1. /\ phase = "load" /\ phase' = "load" /\ log' = log /\ refused' = refused
        /\ environ' = environ
    BY DEF Load, bootVars
  <1>2. refused = None /\ log \in LogEnvironment /\ ReadOK
    BY <1>1 DEF BootInv, PhaseOK, RefusedOK
  <1>3. PhaseOK' /\ RefusedOK'
    BY <1>1, <1>2 DEF PhaseOK, RefusedOK
  <1>4. ReadIsValid'
    BY <1>1, <1>2, NamesOfRefusals DEF ReadIsValid
  <1>5. ReadOK'
    BY <1>1, <1>2 DEF ReadOK
  <1> QED
    BY <1>3, <1>4, <1>5 DEF BootInv

\* A phase that ends without a refusal.
LEMMA MovesOn ==
  ASSUME BootInv, refused' = None, phase' # "exit 1", PhaseOK', ReadOK',
         phase' = "running" => ReadIsValid'
  PROVE  BootInv'
  <1>1. RefusedOK'
    BY DEF RefusedOK
  <1>2. phase' # "running" => ReadIsValid'
    BY NamesOfRefusals DEF ReadIsValid
  <1> QED
    BY <1>1, <1>2 DEF BootInv

LEMMA ReadStays == BootInv /\ UNCHANGED <<environ, log>> => ReadOK'
  BY DEF BootInv, ReadOK

\* One that ends with a refusal.
LEMMA RefusalEnds ==
  ASSUME BootInv, phase # "exit 1", phase' = "exit 1", log' = log, environ' = environ, ReadIsValid'
  PROVE  BootInv'
  <1>1. log \in LogEnvironment
    BY DEF BootInv, PhaseOK
  <1>2. PhaseOK' /\ RefusedOK'
    BY <1>1 DEF PhaseOK, RefusedOK
  <1> QED
    BY <1>2, ReadStays DEF BootInv

LEMMA BootStepInv == BootInv /\ [BootNext]_<<vars, bootVars>> => BootInv'
  <1> SUFFICES ASSUME BootInv, [BootNext]_<<vars, bootVars>> PROVE BootInv'
    OBVIOUS
  <1>1. /\ log \in LogEnvironment
        /\ phase # "exit 1" => refused = None
    BY DEF BootInv, PhaseOK, RefusedOK
  <1> USE DEF Refuse, Goes
  <1>2. CASE Load
    BY <1>2, LoadKeeps
  <1>3. CASE Prints
    <2>1. PhaseOK'
      BY <1>1, <1>3 DEF Prints, PhaseOK
    <2> QED
      BY <1>1, <1>3, <2>1, ReadStays, MovesOn DEF Prints
  <1>4. CASE BadConfig
    <2>1. refused' = "config" /\ outcome' = outcome /\ outcome.kind = "refused"
      BY <1>4 DEF BadConfig, vars
    <2>2. ReadIsValid'
      BY <1>4, <2>1 DEF BadConfig, ReadIsValid
    <2> QED
      BY <1>4, <2>2, RefusalEnds DEF BadConfig
  <1>5. CASE ReadEnvironment
    <2>0. ReadOK'
      BY <1>5, BootAssumption DEF ReadEnvironment, ReadOK
    <2>1. log' \in LogEnvironment /\ outcome' = outcome
      <3>1. environ' \in RawEnvironment /\ log' = AllRead(environ')
        BY <2>0 DEF ReadOK
      <3>2. outcome' = outcome
        BY <1>5 DEF ReadEnvironment, vars
      <3> QED
        BY <3>1, <3>2
        DEF AllRead, AsRead, RawEnvironment, LogEnvironment, Formats, Lists, Filters
    <2>2. PhaseOK'
      BY <1>5, <2>1 DEF ReadEnvironment, PhaseOK
    <2> QED
      BY <1>1, <1>5, <2>0, <2>2, MovesOn DEF ReadEnvironment
  <1>6. CASE ReadFormat
    <2>1. outcome' = outcome /\ outcome.kind = "config"
      BY <1>6 DEF ReadFormat, vars, BootInv, PhaseOK
    <2>2. ~BadFormat'
      BY <1>6 DEF ReadFormat, BadFormat
    <2>3. PhaseOK'
      BY <1>1, <1>6, <2>1, <2>2 DEF ReadFormat, PhaseOK
    <2> QED
      BY <1>1, <1>6, <2>3, ReadStays, MovesOn DEF ReadFormat
  <1>7. CASE RefuseFormat
    <2>1. refused' = "LOG_FORMAT" /\ outcome' = outcome /\ outcome.kind = "config"
      BY <1>7 DEF RefuseFormat, vars, BootInv, PhaseOK
    <2>2. ReadIsValid'
      BY <1>7, <2>1 DEF RefuseFormat, BadFormat, ReadIsValid
    <2> QED
      BY <1>7, <2>2, RefusalEnds DEF RefuseFormat
  <1>8. CASE Assemble
    <2>1. /\ outcome' = outcome /\ entries' = entries /\ outcome.kind = "config" /\ log' = log
          /\ ~BadFormat
      BY <1>8 DEF Assemble, vars, BootInv, PhaseOK
    <2>2. ItemsOK /\ log.rust # Malformed
      BY <1>1, <1>8, ItemsAreOK DEF Assemble
    <2>3. settings' = Chosen
      BY <1>8 DEF Assemble, Chosen
    <2>4. Chosen' = Chosen
      BY <2>1 DEF Chosen, Verbosity
    <2>5. ItemsOK' /\ (~BadFormat)' /\ log'.rust # Malformed
      BY <2>1, <2>2 DEF ItemsOK, BadFormat
    <2>6. PhaseOK'
      BY <1>1, <1>8, <2>1, <2>3, <2>4, <2>5 DEF Assemble, PhaseOK
    <2> QED
      BY <1>1, <1>8, <2>6, ReadStays, MovesOn DEF Assemble
  <1>9. CASE RefuseDesignators
    <2>1. refused' = "LOG_DESIGNATORS" /\ log' = log /\ ~BadFormat /\ ~ItemsOK
      BY <1>1, <1>9, ItemsAreOK DEF RefuseDesignators, BootInv, PhaseOK
    <2>2. ~ItemsOK'
      BY <2>1 DEF ItemsOK
    <2>3. ReadIsValid'
      BY <1>9, <2>1, <2>2 DEF RefuseDesignators, BadFormat, ReadIsValid
    <2> QED
      BY <1>9, <2>3, RefusalEnds DEF RefuseDesignators
  <1>10. CASE RefuseRustLog
    <2>1. refused' = "RUST_LOG" /\ log' = log /\ log.rust = Malformed /\ ItemsOK
      BY <1>1, <1>10, ItemsAreOK DEF RefuseRustLog
    <2>2. ItemsOK'
      BY <2>1 DEF ItemsOK
    <2>3. ReadIsValid'
      BY <1>10, <2>1, <2>2 DEF RefuseRustLog, ReadIsValid
    <2> QED
      BY <1>10, <2>3, RefusalEnds DEF RefuseRustLog
  <1>11. CASE Install \/ RefuseOwnBoot
    <2>1. /\ phase \in {"install", "running"}
          /\ outcome' = outcome /\ entries' = entries /\ log' = log /\ settings' = settings
      BY <1>11 DEF Install, RefuseOwnBoot, vars
    <2>2. /\ outcome.kind = "config" /\ ~BadFormat
          /\ ItemsOK /\ log.rust # Malformed /\ settings = Chosen
      BY <2>1 DEF BootInv, PhaseOK
    <2>3. /\ ItemsOK' /\ (~BadFormat)' /\ log'.rust # Malformed /\ Chosen' = Chosen
      BY <1>1, <2>1, <2>2 DEF ItemsOK, BadFormat, Chosen, Verbosity
    <2>4. CASE Install
      <3>1. PhaseOK'
        BY <1>1, <2>1, <2>2, <2>3, <2>4 DEF Install, PhaseOK
      <3>2. refused' = None
        BY <1>1, <2>4 DEF Install
      <3>3. ReadIsValid'
        BY <2>1, <2>2, <2>3, <3>2, NamesOfRefusals DEF ReadIsValid
      <3> QED
        BY <1>1, <2>4, <3>1, <3>2, <3>3, ReadStays, MovesOn DEF Install
    <2>5. CASE RefuseOwnBoot
      <3>1. refused' = "own"
        BY <2>5 DEF RefuseOwnBoot
      <3>2. ReadIsValid'
        BY <2>1, <2>2, <2>3, <3>1 DEF ReadIsValid
      <3> QED
        BY <2>5, <3>2, RefusalEnds DEF RefuseOwnBoot
    <2> QED
      BY <1>11, <2>4, <2>5
  <1>12. CASE UNCHANGED <<vars, bootVars>>
    <2>1. /\ outcome' = outcome /\ entries' = entries /\ phase' = phase /\ log' = log
          /\ settings' = settings /\ refused' = refused /\ environ' = environ
      BY <1>12 DEF vars, bootVars
    <2>2. /\ ItemsOK' <=> ItemsOK
          /\ BadFormat' <=> BadFormat
          /\ Chosen' = Chosen
      BY <2>1 DEF ItemsOK, BadFormat, Chosen, Verbosity
    <2>3. PhaseOK' /\ RefusedOK'
      BY <2>1, <2>2 DEF BootInv, PhaseOK, RefusedOK
    <2>4. ReadIsValid'
      BY <2>1, <2>2 DEF BootInv, ReadIsValid
    <2> QED
      BY <2>1, <2>3, <2>4, ReadStays DEF BootInv
  <1> QED
    BY <1>2, <1>3, <1>4, <1>5, <1>6, <1>7, <1>8, <1>9, <1>10, <1>11, <1>12 DEF BootNext

ServiceStart == \E one \in Input : ServiceInit(Input, one)

LEMMA ServiceStarts == ServiceStart => IInv /\ BootInv
  <1> SUFFICES ASSUME NEW one \in Input, ServiceInit(Input, one) PROVE IInv /\ BootInv
    BY DEF ServiceStart
  <1>1. BootInit(Input) \/ BootInit({one})
    BY DEF ServiceInit
  <1>2. BootInv
    BY <1>1, BootStarts
  <1>3. Init
    BY <1>1 DEF BootInit, Init, InitFrom
  <1> QED
    BY <1>2, <1>3, InitInv

LEMMA ServiceStep ==
  ASSUME [ServiceNext]_<<vars, bootVars, serviceVars>>
  PROVE  [Next]_vars /\ [BootNext]_<<vars, bootVars>>
  <1>1. CASE Derive \/ UNCHANGED <<vars, bootVars, serviceVars>>
    <2>1. UNCHANGED vars /\ UNCHANGED bootVars
      BY <1>1 DEF Derive
    <2> QED
      BY <2>1
  <1>2. CASE Boots
    <2>1. BootNext
      BY <1>2 DEF Boots
    <2>2. Next \/ UNCHANGED vars
      BY <2>1 DEF BootNext, Load, Prints, BadConfig, ReadEnvironment, ReadFormat, RefuseFormat,
                  Assemble, RefuseDesignators, RefuseRustLog, Install, RefuseOwnBoot
    <2> QED
      BY <2>1, <2>2
  <1> QED
    BY <1>1, <1>2 DEF ServiceNext

\* What each phase of a boot has behind it, of any service and environment.
THEOREM BootInductive == ServiceSpec => []BootInv
  <1>1. BootInv /\ [ServiceNext]_<<vars, bootVars, serviceVars>> => BootInv'
    BY ServiceStep, BootStepInv
  <1> QED
    BY <1>1, ServiceStarts, PTL DEF ServiceSpec, ServiceStart

LEMMA AsReadOf ==
  ASSUME NEW value
  PROVE  \/ Unread(value) /\ AsRead(value) = None
         \/ ~Unread(value) /\ AsRead(value) = value
  BY DEF AsRead, Unread

\* For every environment, a service starts only on variables that are valid or
\* not Unicode, and what is refused is the first of them that is neither.
THEOREM StartsRight == ServiceSpec => []StartsOnlyWhenAllIsValid
  <1>1. BootInv => StartsOnlyWhenAllIsValid
    <2> SUFFICES ASSUME BootInv PROVE StartsOnlyWhenAllIsValid
      OBVIOUS
    <2>1. /\ log.format = AsRead(environ.format) /\ log.rust = AsRead(environ.rust)
          /\ log.designators = AsRead(environ.designators)
      BY DEF BootInv, ReadOK, AllRead
    <2>2. environ.format \in Formats \cup {NotUnicode}
      BY DEF BootInv, ReadOK, RawEnvironment
    <2>3. BadFormat <=> environ.format \in {Blank, Malformed}
      BY <2>1, AsReadOf, BootAssumption DEF BadFormat, Unread
    <2>4. ~BadFormat => Unread(environ.format) \/ environ.format \in {None, "json", "human"}
      BY <2>2, <2>3 DEF Formats, Unread
    <2>5. ItemsOK <=> Unread(environ.designators) \/ ListOK(environ.designators)
      <3>1. ListOK(None)
        BY DEF ListOK
      <3> QED
        BY <2>1, <3>1, AsReadOf DEF ItemsOK
    <2>6. log.rust = Malformed <=> environ.rust = Malformed
      BY <2>1, AsReadOf, BootAssumption DEF Unread
    <2> QED
      BY <2>3, <2>4, <2>5, <2>6 DEF BootInv, ReadIsValid, StartsOnlyWhenAllIsValid
  <1> QED
    BY <1>1, BootInductive, PTL

\* The load as a part of its service is the load alone.
THEOREM LoadsAsAlone == AppCaps => (ServiceSpec => []IInv)
  <1> SUFFICES ASSUME AppCaps PROVE ServiceSpec => []IInv
    OBVIOUS
  <1>1. IInv /\ [ServiceNext]_<<vars, bootVars, serviceVars>> => IInv'
    BY ServiceStep, StepInv
  <1> QED
    BY <1>1, ServiceStarts, PTL DEF ServiceSpec, ServiceStart

-----------------------------------------------------------------------------
(* What the log lets through.                                                *)

LEMMA SaidOf ==
  ASSUME log.designators \in Seq(GoodItem), NEW name, NEW level,
         SaidLast(log.designators, name, Len(log.designators), level)
  PROVE  Said(name) = level
  <1> DEFINE items == log.designators
             about == {i \in DOMAIN items : items[i].name = name}
             Greatest(i) == \A j \in about : j <= i
  <1>1. Len(items) \in Nat /\ DOMAIN items = 1..Len(items)
    OBVIOUS
  <1>2. CASE level = None /\ \A i \in 1..Len(items) : items[i].name # name
    BY <1>1, <1>2 DEF Said
  <1>3. CASE \E i \in 1..Len(items) :
               /\ items[i].name = name /\ level = items[i].level
               /\ \A j \in 1..Len(items) : items[j].name = name => j <= i
    <2>1. PICK i \in 1..Len(items) :
            /\ items[i].name = name /\ level = items[i].level
            /\ \A j \in 1..Len(items) : items[j].name = name => j <= i
      BY <1>3
    <2>2. i \in about /\ Greatest(i)
      BY <1>1, <2>1
    <2>3. \A k \in about : Greatest(k) => k = i
      BY <1>1, <2>2
    <2>4. (CHOOSE k \in about : Greatest(k)) = i
      BY <2>2, <2>3
    <2> QED
      BY <2>1, <2>2, <2>4 DEF Said
  <1> QED
    BY <1>2, <1>3 DEF SaidLast

LEMMA AdmitsAsSaid ==
  ASSUME log \in LogEnvironment, ItemsOK, NEW d \in Designator \cup {None}, NEW n \in Level
  PROVE  Admits(ParsedFilter(log.designators), d, n) <=> Selected(d, n)
  <1>1. CASE log.designators \in {None, Blank}
    BY <1>1 DEF ParsedFilter, NoRules, Admits, Selected
  <1>2. CASE log.designators \notin {None, Blank}
    <2> DEFINE items == log.designators
               filter == ParsedFilter(items)
    <2>1. items \in Seq(GoodItem)
      <3>1. items \in Seq(Item)
        BY <1>2 DEF LogEnvironment, Lists
      <3>2. \A i \in 1..Len(items) : items[i] \in GoodItem
        <4> TAKE i \in 1..Len(items)
        <4>1. items[i] \in Item
          BY <3>1
        <4>2. items[i].name \in Designator \cup {None} /\ items[i].level \in Level
          BY <1>2, <3>1 DEF ItemsOK, ListOK
        <4> QED
          BY <4>1, <4>2 DEF Item, GoodItem
      <3> QED
        BY <3>1, <3>2
    <2>2. FilterIs(items, Len(items)) /\ filter = FilterUpTo(items)[Len(items)]
      BY <1>2, <2>1, FilterOf DEF ParsedFilter
    <2>3. /\ filter \in Filter /\ ~filter.unset
          /\ Said(None) = filter.default
          /\ \A name \in Designator : Said(name) = filter.rules[name]
      BY <2>1, <2>2, SaidOf DEF FilterIs
    <2> HIDE DEF filter
    <2>4. CASE d = None
      BY <2>4 DEF Admits, Selected
    <2>5. CASE d # None
      <3>1. Admits(filter, d, n) <=>
              LET allowed == IF Said(d) # None THEN Said(d) ELSE Said(None)
              IN  allowed # None /\ n <= allowed
        <4>1. filter.rules[d] = Said(d) /\ filter.default = Said(None) /\ ~filter.unset
          BY <2>3, <2>5
        <4> QED
          BY <2>5, <4>1, Zenon DEF Admits
      <3>2. Selected(d, n) <=>
              \/ Said(d) # None /\ n <= Said(d)
              \/ Said(d) = None /\ Said(None) # None /\ n <= Said(None)
        BY <1>2, <2>5 DEF Selected
      <3> QED
        BY <3>1, <3>2 DEF filter
    <2> QED
      BY <2>4, <2>5 DEF filter
  <1> QED
    BY <1>1, <1>2

\* For every schema, argv and environment, a line of a running service appears
\* exactly where RUST_LOG and LOG_DESIGNATORS, or in their absence the
\* deployment, let it through.
THEOREM LinesFollow == AppCaps => (ServiceSpec => []LinesAsNamed)
  <1>1. IInv /\ BootInv => LinesAsNamed
    <2> SUFFICES ASSUME IInv, BootInv, phase = "running", NEW e \in Event
                 PROVE  Passes(e) <=> Verbose(e.target, e.level) /\ Selected(e.designator, e.level)
      BY DEF LinesAsNamed
    <2>1. /\ log \in LogEnvironment /\ outcome.kind = "config"
          /\ ItemsOK /\ log.rust # Malformed /\ settings = Chosen
      BY DEF BootInv, PhaseOK
    <2>2. e.target \in Target /\ e.designator \in Designator \cup {None} /\ e.level \in Level
      BY DEF Event
    <2>3. entries[Deployment] = Effective(Deployment)
      BY <2>1, SchemaFacts DEF IInv, HighestSourceWins
    <2>4. e.level <= settings.rust[e.target] <=> Verbose(e.target, e.level)
      <3>1. settings.rust = IF log.rust \in {None, Blank} THEN [t \in Target |-> Verbosity] ELSE log.rust
        BY <2>1 DEF Chosen
      <3>2. CASE log.rust \in {None, Blank}
        <4>1. settings.rust[e.target] = Verbosity
          BY <2>2, <3>1, <3>2
        <4> QED
          BY <2>3, <3>2, <4>1 DEF Verbose, Verbosity
      <3>3. CASE log.rust \notin {None, Blank}
        BY <3>1, <3>3 DEF Verbose
      <3> QED
        BY <3>2, <3>3
    <2>5. settings.designators = ParsedFilter(log.designators)
      BY <2>1 DEF Chosen
    <2>6. Admits(settings.designators, e.designator, e.level) <=> Selected(e.designator, e.level)
      BY <2>1, <2>2, <2>5, AdmitsAsSaid
    <2> QED
      BY <2>4, <2>6 DEF Passes
  <1> QED
    BY <1>1, BootInductive, LoadsAsAlone, PTL

-----------------------------------------------------------------------------
(* What the derive lets through.                                             *)

\* A leaf whose class some deployment can meet and whose default breaks no class.
CanBeMet(leaf) ==
  /\ leaf.presence.kind = "required" => leaf.presence.text = None /\ leaf.class = "neutral"
  /\ leaf.class = "prod required" => leaf.presence.kind = "optional" /\ leaf.presence.text = None
  /\ leaf.class = "dev only" =>
       \/ leaf.presence.kind = "optional" /\ leaf.presence.text = None
       \/ leaf.switch /\ leaf.presence = [kind |-> "default", text |-> "false"]

\* The checks of type, presence and class, made one by one (config-derive's
\* lib.rs), leave a leaf that can be met: prod-required is never required in dev
\* too, dev-only never on by default, and the deployment always required.
THEOREM DerivedCanBeMet ==
  ASSUME NEW declaration \in Declaration, NEW field \in FieldsOf(declaration),
         Expands(declaration), ~Nested(field)
  PROVE  /\ CanBeMet(LeafOf(declaration, field))
         /\ IsDeployment(declaration, field) =>
              LeafOf(declaration, field).presence.kind = "required"
  <1>1. LeafOk(declaration, field)
    BY DEF Expands
  <1>2. field.type \in {"bool", "opt bool", "opt", "plain", "deployment", "struct"}
    <2>1. declaration.fields \in Seq(Declared)
      BY DEF Declaration
    <2>2. field \in Declared
      BY <2>1 DEF FieldsOf
    <2> QED
      BY <2>2 DEF Declared
  <1> DEFINE leaf == LeafOf(declaration, field)
  <1>3. /\ leaf.presence = PresenceOf(declaration, field) /\ leaf.class = ClassOf(field)
        /\ field.type \in {"bool", "opt bool"} => leaf.switch
    BY DEF LeafOf
  <1> HIDE DEF leaf
  <1>4. /\ field.default # None => leaf.presence = [kind |-> "default", text |-> field.default]
        /\ field.default = None /\ IsRequired(declaration, field) =>
             leaf.presence = [kind |-> "required", text |-> None]
        /\ field.default = None /\ ~IsRequired(declaration, field) =>
             /\ field.type = "bool" => leaf.presence = [kind |-> "default", text |-> "false"]
             /\ field.type # "bool" => leaf.presence = [kind |-> "optional", text |-> None]
    BY <1>3 DEF PresenceOf
  <1>5. /\ ClassOf(field) = "prod required" => "prod_required" \in field.keys
        /\ ClassOf(field) = "dev only" => "dev_only" \in field.keys
        /\ "prod_required" \notin field.keys /\ "dev_only" \notin field.keys =>
             ClassOf(field) = "neutral"
    BY DEF ClassOf
  <1>6. /\ "prod_required" \in field.keys => field.type \in Optional /\ field.default = None
        /\ "dev_only" \in field.keys =>
             field.type \in Optional \cup {"bool"} /\ field.default \in {None, "false"}
        /\ "prod_required" \in field.keys \/ "dev_only" \in field.keys =>
             ~IsRequired(declaration, field)
    BY <1>1 DEF LeafOk, ClassOk
  <1>7. /\ field.type \in Optional => field.default = None
        /\ IsDeployment(declaration, field) => field.default = None
    BY <1>1 DEF LeafOk, PresenceOk, DeploymentOk
  <1>8. field.type = "bool" => field.type \notin Optional
    BY DEF Optional
  <1>9. CASE field.default # None
    <2>1. leaf.presence = [kind |-> "default", text |-> field.default]
      BY <1>4, <1>9
    <2>2. leaf.class = "dev only" => field.type = "bool" /\ field.default = "false"
      BY <1>3, <1>5, <1>6, <1>7, <1>9
    <2>3. leaf.class # "prod required"
      BY <1>3, <1>5, <1>6, <1>9
    <2>4. leaf.presence.kind = "default"
      BY <2>1
    <2> QED
      BY <1>3, <1>7, <1>9, <2>1, <2>2, <2>3, <2>4 DEF CanBeMet, leaf
  <1>10. CASE field.default = None /\ IsRequired(declaration, field)
    <2>1. leaf.presence.kind = "required" /\ leaf.presence.text = None
      <3>1. leaf.presence = [kind |-> "required", text |-> None]
        BY <1>4, <1>10
      <3> QED
        BY <3>1
    <2>2. leaf.class = "neutral"
      BY <1>3, <1>5, <1>6, <1>10
    <2> QED
      BY <2>1, <2>2 DEF CanBeMet, leaf
  <1>11. CASE field.default = None /\ ~IsRequired(declaration, field)
    <2>1. ~IsDeployment(declaration, field)
      BY <1>11 DEF IsRequired
    <2>2. CASE field.type = "bool"
      <3>1. leaf.presence = [kind |-> "default", text |-> "false"] /\ leaf.switch
        BY <1>3, <1>4, <1>11, <2>2 DEF Optional
      <3>2. leaf.presence.kind = "default"
        BY <3>1
      <3>3. leaf.class # "prod required"
        BY <1>3, <1>5, <1>6, <1>8, <2>2
      <3> QED
        BY <2>1, <3>1, <3>2, <3>3 DEF CanBeMet, leaf
    <2>3. CASE field.type # "bool"
      <3>1. leaf.presence.kind = "optional" /\ leaf.presence.text = None
        <4>1. leaf.presence = [kind |-> "optional", text |-> None]
          BY <1>4, <1>11, <2>3
        <4> QED
          BY <4>1
      <3> QED
        BY <2>1, <3>1 DEF CanBeMet, leaf
    <2> QED
      BY <2>2, <2>3
  <1> QED
    BY <1>9, <1>10, <1>11

-----------------------------------------------------------------------------
(* The leaves of an accepted declaration.                                    *)

Presence ==
  [kind : {"default", "required", "optional"}, text : DefaultText \cup {"false", None}]

Leaf ==
  [path : Seq(FieldName), presence : Presence,
   class : {"prod required", "dev only", "neutral"}, switch : BOOLEAN, shared : BOOLEAN]

\* The body of LeavesIn, and what one field gives.
LeavesOf(prog, leaves, f, s) ==
  IF Nested(f) THEN {Child(f.name, leaf) : leaf \in leaves[f.inner]} ELSE {LeafOf(prog[s], f)}

LeavesAt(prog, leaves, s) ==
  UNION {LeavesOf(prog, leaves, f, s) : f \in FieldsOf(prog[s])}

Compiles(prog) ==
  \A s \in Struct : prog[s] \in Declaration /\ Expands(prog[s]) /\ TypesCheck(prog[s])

\* A field of a declaration is a declared one.
LEMMA FieldTyped ==
  ASSUME NEW declaration \in Declaration, NEW f \in FieldsOf(declaration)
  PROVE  /\ f \in Declared /\ f.name \in FieldName
         /\ f.default \in DefaultText \cup {None}
  <1>1. declaration.fields \in Seq(Declared)
    BY DEF Declaration
  <1>2. f \in Declared
    BY <1>1 DEF FieldsOf
  <1> QED
    BY <1>2 DEF Declared

\* A struct's own leaf is a leaf.
LEMMA LeafTyped ==
  ASSUME NEW declaration \in Declaration, NEW f \in FieldsOf(declaration)
  PROVE  LeafOf(declaration, f) \in Leaf
  <1>1. f.name \in FieldName /\ f.default \in DefaultText \cup {None}
    BY FieldTyped
  <1>2. PresenceOf(declaration, f) \in Presence
    BY <1>1 DEF PresenceOf, Presence
  <1>3. ClassOf(f) \in {"prod required", "dev only", "neutral"}
    BY DEF ClassOf
  <1>4. <<f.name>> \in Seq(FieldName)
    BY <1>1
  <1>5. IsDeployment(declaration, f) \in BOOLEAN /\ (f.type \in {"bool", "opt bool"}) \in BOOLEAN
    BY DEF IsDeployment
  <1> QED
    BY <1>2, <1>3, <1>4, <1>5 DEF LeafOf, Leaf

\* A child goes by DEPLOYMENT_TYPE if its leaf does.
LEMMA ChildShared ==
  ASSUME NEW name, NEW l \in Leaf
  PROVE  Child(name, l).shared = l.shared
  BY DEF Child, Leaf

\* A child differs from its leaf by one name in front of the path.
LEMMA ChildTyped ==
  ASSUME NEW name \in FieldName, NEW l \in Leaf
  PROVE  /\ Child(name, l) \in Leaf
         /\ Child(name, l).path = <<name>> \o l.path
         /\ Child(name, l).presence = l.presence /\ Child(name, l).class = l.class
         /\ Child(name, l).switch = l.switch /\ Child(name, l).shared = l.shared
         /\ Len(Child(name, l).path) = Len(l.path) + 1
         /\ Child(name, l).path[1] = name
         /\ \A i \in 1..Len(l.path) : Child(name, l).path[i+1] = l.path[i]
  <1>1. l.path \in Seq(FieldName) /\ <<name>> \in Seq(FieldName)
    <2>1. l.path \in Seq(FieldName)
      BY DEF Leaf
    <2> QED
      BY <2>1
  <1>2. <<name>> \o l.path \in Seq(FieldName)
    BY <1>1
  <1>3. Child(name, l) \in Leaf
    BY <1>2 DEF Child, Leaf
  <1>4. /\ Child(name, l).path = <<name>> \o l.path
        /\ Child(name, l).presence = l.presence /\ Child(name, l).class = l.class
        /\ Child(name, l).switch = l.switch /\ Child(name, l).shared = l.shared
    BY DEF Child, Leaf
  <1>5. /\ Len(<<name>> \o l.path) = Len(l.path) + 1
        /\ (<<name>> \o l.path)[1] = name
        /\ \A i \in 1..Len(l.path) : (<<name>> \o l.path)[i+1] = l.path[i]
    BY <1>1
  <1> QED
    BY <1>3, <1>4, <1>5

\* What a field gives is leaves.
LEMMA FieldGives ==
  ASSUME NEW prog, Compiles(prog), NEW leaves \in [Struct -> SUBSET Leaf],
         NEW s \in Struct, NEW f \in FieldsOf(prog[s])
  PROVE  LeavesOf(prog, leaves, f, s) \subseteq Leaf
  <1>1. prog[s] \in Declaration /\ TypesCheck(prog[s])
    BY DEF Compiles
  <1>2. CASE Nested(f)
    <2>1. f.inner \in Struct /\ f.name \in FieldName
      BY <1>1, <1>2, FieldTyped DEF TypesCheck
    <2>2. \A l \in leaves[f.inner] : Child(f.name, l) \in Leaf
      BY <2>1, ChildTyped
    <2> QED
      BY <1>2, <2>2 DEF LeavesOf
  <1>3. CASE ~Nested(f)
    BY <1>1, <1>3, LeafTyped DEF LeavesOf
  <1> QED
    BY <1>2, <1>3

\* More leaves of the inner structs, more leaves.
LEMMA LeavesGrow ==
  ASSUME NEW prog, Compiles(prog),
         NEW some \in [Struct -> SUBSET Leaf], NEW more \in [Struct -> SUBSET Leaf],
         \A s \in Struct : some[s] \subseteq more[s], NEW s \in Struct
  PROVE  LeavesAt(prog, some, s) \subseteq LeavesAt(prog, more, s)
  <1> SUFFICES ASSUME NEW f \in FieldsOf(prog[s])
               PROVE  LeavesOf(prog, some, f, s) \subseteq LeavesOf(prog, more, f, s)
    BY DEF LeavesAt
  <1>1. Nested(f) => f.inner \in Struct
    BY DEF Compiles, TypesCheck
  <1> QED
    BY <1>1 DEF LeavesOf

\* The equations of LeavesIn have a solution: the least one.
LEMMA LeavesExist ==
  ASSUME NEW prog, Compiles(prog)
  PROVE  \E leaves : leaves = [s \in Struct |-> LeavesAt(prog, leaves, s)]
  <1> DEFINE All == [Struct -> SUBSET Leaf]
             Closed(g) == \A s \in Struct : LeavesAt(prog, g, s) \subseteq g[s]
             least == [s \in Struct |-> {l \in Leaf : \A g \in All : Closed(g) => l \in g[s]}]
             again == [s \in Struct |-> LeavesAt(prog, least, s)]
  <1>1. least \in All
    OBVIOUS
  <1>2. \A g \in All : Closed(g) => \A s \in Struct : least[s] \subseteq g[s]
    OBVIOUS
  <1>3. \A g \in All, s \in Struct : LeavesAt(prog, g, s) \subseteq Leaf
    BY FieldGives DEF LeavesAt
  <1>4. \A s \in Struct : LeavesAt(prog, least, s) \subseteq least[s]
    <2> SUFFICES ASSUME NEW s \in Struct, NEW l \in LeavesAt(prog, least, s) PROVE l \in least[s]
      OBVIOUS
    <2>1. l \in Leaf
      BY <1>1, <1>3
    <2>2. ASSUME NEW g \in All, Closed(g) PROVE l \in g[s]
      <3> HIDE DEF least
      <3>1. \A t \in Struct : least[t] \subseteq g[t]
        BY <1>2, <2>2
      <3>2. LeavesAt(prog, least, s) \subseteq LeavesAt(prog, g, s)
        BY <1>1, <3>1, LeavesGrow
      <3> QED
        BY <2>2, <3>2
    <2> HIDE DEF Closed, All
    <2> QED
      BY <2>1, <2>2
  <1>5. \A s \in Struct : least[s] \subseteq LeavesAt(prog, least, s)
    <2> HIDE DEF least
    <2>1. again \in All
      BY <1>1, <1>3
    <2>2. \A s \in Struct : again[s] \subseteq least[s]
      BY <1>4
    <2>3. \A s \in Struct : LeavesAt(prog, again, s) \subseteq again[s]
      <3> SUFFICES ASSUME NEW s \in Struct PROVE LeavesAt(prog, again, s) \subseteq again[s]
        OBVIOUS
      <3>1. again[s] = LeavesAt(prog, least, s)
        OBVIOUS
      <3> HIDE DEF again
      <3> QED
        BY <1>1, <2>1, <2>2, <3>1, LeavesGrow
    <2> QED
      BY <1>2, <2>1, <2>3
  <1>6. least = [s \in Struct |-> LeavesAt(prog, least, s)]
    <2>1. \A s \in Struct : least[s] = LeavesAt(prog, least, s)
      BY <1>4, <1>5
    <2>2. least = [s \in Struct |-> least[s]]
      BY <1>1
    <2> HIDE DEF least
    <2> QED
      BY <2>1, <2>2
  <1> QED
    BY <1>6

\* LeavesIn solves its equations, and its leaves are leaves: no struct is a part
\* of itself.
LEMMA LeavesUnfold ==
  ASSUME NEW prog, Compiles(prog), Sized(prog)
  PROVE  /\ LeavesIn(prog) \in [Struct -> SUBSET Leaf]
         /\ \A s \in Struct : LeavesIn(prog)[s] = LeavesAt(prog, LeavesIn(prog), s)
  <1> DEFINE L == LeavesIn(prog)
  <1>1. L = CHOOSE leaves : leaves = [s \in Struct |-> LeavesAt(prog, leaves, s)]
    BY DEF LeavesIn, LeavesAt, LeavesOf
  <1>2. L = [s \in Struct |-> LeavesAt(prog, L, s)]
    BY <1>1, LeavesExist
  <1> HIDE DEF L
  <1>3. \A s \in Struct : L[s] = LeavesAt(prog, L, s)
    BY <1>2
  <1>4. \A s \in Struct : L[s] \subseteq Leaf
    <2> DEFINE part == {s \in Struct : ~(L[s] \subseteq Leaf)}
    <2> SUFFICES ASSUME part # {} PROVE FALSE
      OBVIOUS
    <2>1. PICK s \in part : InnerOf(prog[s]) \cap part = {}
      BY DEF Sized
    <2>2. ASSUME NEW f \in FieldsOf(prog[s]) PROVE LeavesOf(prog, L, f, s) \subseteq Leaf
      <3>1. prog[s] \in Declaration /\ TypesCheck(prog[s])
        BY DEF Compiles
      <3>2. CASE Nested(f)
        <4>1. f.inner \in Struct /\ f.name \in FieldName /\ f.inner \in InnerOf(prog[s])
          BY <3>1, <3>2, FieldTyped DEF TypesCheck, InnerOf
        <4>2. L[f.inner] \subseteq Leaf
          BY <2>1, <4>1
        <4>3. \A l \in L[f.inner] : Child(f.name, l) \in Leaf
          BY <4>1, <4>2, ChildTyped
        <4> QED
          BY <3>2, <4>3 DEF LeavesOf
      <3>3. CASE ~Nested(f)
        BY <3>1, <3>3, LeafTyped DEF LeavesOf
      <3> QED
        BY <3>2, <3>3
    <2>3. LeavesAt(prog, L, s) \subseteq Leaf
      BY <2>2 DEF LeavesAt
    <2> QED
      BY <1>3, <2>3
  <1>5. L \in [Struct -> SUBSET Leaf]
    BY <1>2, <1>4
  <1> QED
    BY <1>3, <1>5 DEF L

\* Where a leaf of s comes from.
OwnLeaf(prog, s, f, l) == f \in FieldsOf(prog[s]) /\ ~Nested(f) /\ l = LeafOf(prog[s], f)

InnerLeaf(prog, s, f, l, k) ==
  /\ f \in FieldsOf(prog[s]) /\ Nested(f) /\ f.inner \in Struct /\ f.inner \in InnerOf(prog[s])
  /\ k \in LeavesIn(prog)[f.inner] /\ k \in Leaf /\ l = Child(f.name, k)

\* Each leaf is a struct's own or a child of an inner struct's.
LEMMA LeafComesFrom ==
  ASSUME NEW prog, Compiles(prog), Sized(prog), NEW s \in Struct, NEW l \in LeavesIn(prog)[s]
  PROVE  /\ l \in Leaf
         /\ \E f : OwnLeaf(prog, s, f, l) \/ \E k : InnerLeaf(prog, s, f, l, k)
  <1> DEFINE L == LeavesIn(prog)
  <1>1. L \in [Struct -> SUBSET Leaf] /\ L[s] = LeavesAt(prog, L, s)
    BY LeavesUnfold
  <1> HIDE DEF L
  <1>2. l \in L[s]
    BY DEF L
  <1>3. PICK f \in FieldsOf(prog[s]) : l \in LeavesOf(prog, L, f, s)
    BY <1>1, <1>2 DEF LeavesAt
  <1>4. CASE Nested(f)
    <2>1. f.inner \in Struct /\ f.inner \in InnerOf(prog[s])
      BY <1>4 DEF Compiles, TypesCheck, InnerOf
    <2>2. PICK k \in L[f.inner] : l = Child(f.name, k)
      BY <1>3, <1>4 DEF LeavesOf
    <2>3. k \in Leaf
      BY <1>1, <2>1
    <2>4. InnerLeaf(prog, s, f, l, k)
      BY <1>4, <2>1, <2>2, <2>3 DEF InnerLeaf, L
    <2> QED
      BY <1>1, <1>2, <2>4
  <1>5. CASE ~Nested(f)
    <2>1. OwnLeaf(prog, s, f, l)
      BY <1>3, <1>5 DEF OwnLeaf, LeavesOf
    <2> QED
      BY <1>1, <1>2, <2>1
  <1> QED
    BY <1>4, <1>5

\* A struct's own leaf has a path of one name, an inner one of more.
LEMMA OwnPath ==
  ASSUME NEW prog, NEW s, NEW f, NEW l, OwnLeaf(prog, s, f, l)
  PROVE  Len(l.path) = 1 /\ l.path[1] = f.name
  <1>1. l.path = <<f.name>>
    BY DEF OwnLeaf, LeafOf
  <1> QED
    BY <1>1

LEMMA InnerPath ==
  ASSUME NEW prog, Compiles(prog), NEW s \in Struct, NEW f, NEW l, NEW k, InnerLeaf(prog, s, f, l, k)
  PROVE  Len(l.path) = Len(k.path) + 1 /\ l.path[1] = f.name
  <1>1. f.name \in FieldName
    BY FieldTyped DEF InnerLeaf, Compiles
  <1> QED
    BY <1>1, ChildTyped DEF InnerLeaf

\* No two fields of a struct have a name, so the field is told by the path.
LEMMA FieldOfName ==
  ASSUME NEW prog, Compiles(prog), NEW s \in Struct,
         NEW f \in FieldsOf(prog[s]), NEW g \in FieldsOf(prog[s]), f.name = g.name
  PROVE  f = g
  BY DEF Compiles, TypesCheck, FieldsOf

\* What holds of a leaf wherever it is declared.
LeafOK(l) == CanBeMet(l) /\ Len(l.path) \in Nat \ {0}

\* Each leaf can be met, at any depth.
LEMMA LeavesCanBeMet ==
  ASSUME NEW prog, Compiles(prog), Sized(prog)
  PROVE  \A s \in Struct : \A l \in LeavesIn(prog)[s] : LeafOK(l)
  <1> DEFINE part == {s \in Struct : \E l \in LeavesIn(prog)[s] : ~LeafOK(l)}
  <1> SUFFICES ASSUME part # {} PROVE FALSE
    OBVIOUS
  <1>1. PICK s \in part : InnerOf(prog[s]) \cap part = {}
    BY DEF Sized
  <1>2. PICK l \in LeavesIn(prog)[s] : ~LeafOK(l)
    OBVIOUS
  <1>3. PICK f : OwnLeaf(prog, s, f, l) \/ \E k : InnerLeaf(prog, s, f, l, k)
    BY <1>2, LeafComesFrom
  <1>4. CASE OwnLeaf(prog, s, f, l)
    <2>1. CanBeMet(l)
      BY <1>4, DerivedCanBeMet DEF OwnLeaf, Compiles
    <2> QED
      BY <1>2, <1>4, <2>1, OwnPath, InnerPath DEF LeafOK
  <1>5. ASSUME NEW k, InnerLeaf(prog, s, f, l, k) PROVE FALSE
    <2>1. LeafOK(k)
      BY <1>1, <1>5 DEF InnerLeaf
    <2>2. f.name \in FieldName
      BY <1>5, FieldTyped DEF InnerLeaf, Compiles
    <2>3. CanBeMet(l)
      <3>1. l.presence = k.presence /\ l.class = k.class /\ l.switch = k.switch
        BY <1>5, <2>2, ChildTyped DEF InnerLeaf
      <3> QED
        BY <2>1, <3>1 DEF LeafOK, CanBeMet
    <2>4. Len(l.path) = Len(k.path) + 1
      BY <1>5, OwnPath, InnerPath
    <2> QED
      BY <1>2, <2>1, <2>3, <2>4 DEF LeafOK
  <1> QED
    BY <1>3, <1>4, <1>5

\* Leaves have paths of their own.
LEMMA PathsApart ==
  ASSUME NEW prog, Compiles(prog), Sized(prog)
  PROVE  \A s \in Struct : \A l, k \in LeavesIn(prog)[s] : l.path = k.path => l = k
  <1> DEFINE Apart(s) == \A l, k \in LeavesIn(prog)[s] : l.path = k.path => l = k
             part == {s \in Struct : ~Apart(s)}
  <1> SUFFICES ASSUME part # {} PROVE FALSE
    OBVIOUS
  <1>1. PICK s \in part : InnerOf(prog[s]) \cap part = {}
    BY DEF Sized
  <1>2. PICK l \in LeavesIn(prog)[s], k \in LeavesIn(prog)[s] : l.path = k.path /\ l # k
    OBVIOUS
  <1>3. PICK f : OwnLeaf(prog, s, f, l) \/ \E m : InnerLeaf(prog, s, f, l, m)
    BY <1>2, LeafComesFrom
  <1>4. PICK g : OwnLeaf(prog, s, g, k) \/ \E m : InnerLeaf(prog, s, g, k, m)
    BY <1>2, LeafComesFrom
  <1>5. /\ \A m : InnerLeaf(prog, s, f, l, m) => Len(m.path) \in Nat \ {0}
        /\ \A m : InnerLeaf(prog, s, g, k, m) => Len(m.path) \in Nat \ {0}
    BY LeavesCanBeMet DEF InnerLeaf, LeafOK
  <1>6. f.name = g.name
    <2>1. l.path[1] = f.name
      BY <1>3, OwnPath, InnerPath
    <2>2. k.path[1] = g.name
      BY <1>4, OwnPath, InnerPath
    <2> QED
      BY <1>2, <2>1, <2>2
  <1>7. f = g
    BY <1>3, <1>4, <1>6, FieldOfName DEF OwnLeaf, InnerLeaf
  <1>8. CASE OwnLeaf(prog, s, f, l)
    BY <1>2, <1>4, <1>7, <1>8 DEF OwnLeaf, InnerLeaf
  <1>9. ASSUME NEW m, InnerLeaf(prog, s, f, l, m) PROVE FALSE
    <2>1. PICK n : InnerLeaf(prog, s, g, k, n)
      BY <1>4, <1>7, <1>9 DEF OwnLeaf, InnerLeaf
    <2>2. m.path \in Seq(FieldName) /\ n.path \in Seq(FieldName) /\ f.name \in FieldName
      <3>1. f.name \in FieldName
        BY <1>9, FieldTyped DEF InnerLeaf, Compiles
      <3>2. m \in Leaf /\ n \in Leaf
        BY <1>9, <2>1 DEF InnerLeaf
      <3> QED
        BY <3>1, <3>2 DEF Leaf
    <2>3. <<f.name>> \o m.path = <<f.name>> \o n.path
      <3>1. l = Child(f.name, m) /\ m \in Leaf /\ k = Child(f.name, n) /\ n \in Leaf
        BY <1>7, <1>9, <2>1 DEF InnerLeaf
      <3>2. l.path = <<f.name>> \o m.path
        BY <2>2, <3>1, ChildTyped
      <3>3. k.path = <<f.name>> \o n.path
        BY <2>2, <3>1, ChildTyped
      <3> QED
        BY <1>2, <3>2, <3>3
    <2>4. m.path = n.path
      <3> DEFINE a == m.path
                 b == n.path
                 c == f.name
      <3>1. a \in Seq(FieldName) /\ b \in Seq(FieldName) /\ c \in FieldName /\ <<c>> \o a = <<c>> \o b
        BY <2>2, <2>3
      <3> HIDE DEF a, b, c
      <3>2. Len(a) = Len(b) /\ \A i \in 1..Len(a) : a[i] = (<<c>> \o a)[i+1] /\ b[i] = (<<c>> \o b)[i+1]
        BY <3>1
      <3>3. \A i \in 1..Len(a) : a[i] = b[i]
        BY <3>1, <3>2
      <3> QED
        BY <3>1, <3>2, <3>3 DEF a, b
    <2>5. m = n
      BY <1>1, <1>7, <1>9, <2>1, <2>4 DEF InnerLeaf
    <2> QED
      BY <1>2, <1>7, <1>9, <2>1, <2>5 DEF InnerLeaf
  <1> QED
    BY <1>3, <1>8, <1>9

-----------------------------------------------------------------------------
(* The load can rely on what is compiled.                                    *)

\* A struct's own leaf is among its leaves.
LEMMA OwnIsThere ==
  ASSUME NEW prog, Compiles(prog), Sized(prog), NEW s \in Struct,
         NEW f \in FieldsOf(prog[s]), ~Nested(f)
  PROVE  LeafOf(prog[s], f) \in LeavesIn(prog)[s]
  <1> DEFINE L == LeavesIn(prog)
  <1>1. L[s] = LeavesAt(prog, L, s)
    BY LeavesUnfold
  <1>2. LeafOf(prog[s], f) \in LeavesOf(prog, L, f, s)
    BY DEF LeavesOf
  <1> HIDE DEF L
  <1>3. LeafOf(prog[s], f) \in LeavesAt(prog, L, s)
    BY <1>2 DEF LeavesAt
  <1> QED
    BY <1>1, <1>3 DEF L

DeploymentPath == <<"deployment">>

\* A root's deployment is its own field, required, and no switch.
LEMMA DeploymentLeaf ==
  ASSUME NEW prog, Compiles(prog), Sized(prog), prog["root"].app # None
  PROVE  /\ \E l \in LeavesIn(prog)["root"] :
              l.path = DeploymentPath /\ l.presence.kind = "required"
         /\ \A l \in LeavesIn(prog)["root"] : l.path = DeploymentPath => ~l.switch
  <1> DEFINE d == prog["root"]
  <1>0. "root" \in Struct
    BY DeriveAssumption
  <1>1. d \in Declaration /\ Expands(d) /\ TypesCheck(d) /\ d.app # None
    BY <1>0 DEF Compiles
  <1>2. PICK f \in FieldsOf(d) : IsDeployment(d, f)
    BY <1>1 DEF Expands, RootOk
  <1>3. ~Nested(f) /\ f.name = "deployment" /\ f.type = "deployment"
    BY <1>1, <1>2 DEF IsDeployment, TypesCheck
  <1>4. LeafOf(d, f) \in LeavesIn(prog)["root"]
    BY <1>0, <1>3, OwnIsThere
  <1>5. LeafOf(d, f).path = DeploymentPath /\ LeafOf(d, f).presence.kind = "required"
    <2>1. LeafOf(d, f).presence.kind = "required"
      BY <1>1, <1>2, <1>3, DerivedCanBeMet
    <2>2. LeafOf(d, f).path = <<"deployment">>
      BY <1>3 DEF LeafOf
    <2> QED
      BY <2>1, <2>2 DEF DeploymentPath
  <1>6. ~LeafOf(d, f).switch
    BY <1>3 DEF LeafOf
  <1>7. \A l \in LeavesIn(prog)["root"] : l.path = DeploymentPath => l = LeafOf(d, f)
    BY <1>0, <1>4, <1>5, PathsApart
  <1> QED
    BY <1>4, <1>5, <1>6, <1>7

\* A schema of leaves that can each be met and have paths of their own.
LEMMA MetIsAdmitted ==
  ASSUME NEW L, NEW S,
         \A l \in L : CanBeMet(l),
         \A l, k \in L : l.path = k.path => l = k,
         \E l \in L : l.path = DeploymentPath /\ l.presence.kind = "required",
         \A l \in L : l.path = DeploymentPath => ~l.switch,
         S.deployment = DeploymentPath,
         \A l \in L : l.path \in S.field,
         \A l \in L : l.path \in S.switch <=> l.switch,
         \A l \in L : l.path \in S.required <=> l.presence.kind = "required",
         \A l \in L : l.path \in S.prodRequired <=> l.class = "prod required",
         \A l \in L : l.path \in S.devOnly <=> l.class = "dev only",
         \A p \in S.switch \cup S.required \cup S.prodRequired \cup S.devOnly :
           \E l \in L : l.path = p,
         \A l \in L : S.default[l.path] = l.presence.text
  PROVE  Admitted(S, Off)
  <1>2. \A p \in S.switch \cup S.required \cup S.prodRequired \cup S.devOnly : \E l \in L : l.path = p
    OBVIOUS
  <1>3. S.deployment \in S.required /\ S.deployment \notin S.switch
    OBVIOUS
  <1>4. /\ S.required \subseteq S.field /\ S.switch \subseteq S.field
        /\ S.prodRequired \subseteq S.field /\ S.devOnly \subseteq S.field
    <2> SUFFICES ASSUME NEW p \in S.switch \cup S.required \cup S.prodRequired \cup S.devOnly
                 PROVE  p \in S.field
      OBVIOUS
    <2> PICK l \in L : l.path = p
      BY <1>2
    <2> QED
      OBVIOUS
  <1>5. \A l \in L : l.class \in {"prod required", "dev only"} => l.presence.kind # "required"
    BY DEF CanBeMet
  <1>6. S.prodRequired \cap S.required = {} /\ S.devOnly \cap S.required = {}
    <2> SUFFICES ASSUME NEW p \in S.required, p \in S.prodRequired \cup S.devOnly PROVE FALSE
      OBVIOUS
    <2>1. PICK l \in L : l.path = p
      BY <1>2
    <2> QED
      BY <1>5, <2>1
  <1>7. S.prodRequired \cap S.devOnly = {}
    <2> SUFFICES ASSUME NEW p \in S.prodRequired, p \in S.devOnly PROVE FALSE
      OBVIOUS
    <2>1. PICK l \in L : l.path = p
      BY <1>2
    <2> QED
      BY <2>1
  <1>8. \A p \in S.prodRequired \cup S.required : S.default[p] = None
    <2> TAKE p \in S.prodRequired \cup S.required
    <2>1. PICK l \in L : l.path = p
      BY <1>2
    <2>2. l.presence.text = None
      BY <2>1 DEF CanBeMet
    <2> QED
      BY <2>1, <2>2
  <1>9. \A p \in S.devOnly : S.default[p] = None \/ (p \in S.switch /\ S.default[p] \in Off)
    <2> TAKE p \in S.devOnly
    <2>1. PICK l \in L : l.path = p
      BY <1>2
    <2>2. l.class = "dev only"
      BY <2>1
    <2>3. \/ l.presence.text = None
          \/ l.switch /\ l.presence = [kind |-> "default", text |-> "false"]
      BY <2>2 DEF CanBeMet
    <2>4. "false" \in Off
      BY ServiceAssumption
    <2>5. l.presence = [kind |-> "default", text |-> "false"] => l.presence.text \in Off
      BY ONLY <2>4
    <2> QED
      BY <2>1, <2>3, <2>5
  <1> QED
    BY <1>3, <1>4, <1>6, <1>7, <1>8, <1>9 DEF Admitted

\* What is accepted, the load can rely on.
LEMMA AcceptedIsAdmitted ==
  ASSUME NEW prog \in Program, Accepted(prog)
  PROVE  Admitted(SchemaOf(LeavesIn(prog)["root"]), Off)
  <1> DEFINE L == LeavesIn(prog)["root"]
             S == SchemaOf(L)
  <1>1. /\ "root" \in Struct
        /\ Compiles(prog) /\ Sized(prog) /\ prog["root"].app # None
    BY DeriveAssumption DEF Accepted, Compiles, Program
  <1>2. /\ \A l \in L : CanBeMet(l)
        /\ \A l, k \in L : l.path = k.path => l = k
        /\ \E l \in L : l.path = DeploymentPath /\ l.presence.kind = "required"
        /\ \A l \in L : l.path = DeploymentPath => ~l.switch
    BY <1>1, LeavesCanBeMet, PathsApart, DeploymentLeaf DEF LeafOK
  <1> HIDE DEF L
  <1>3. /\ S.field = {l.path : l \in {k \in L : TRUE}}
        /\ S.switch = {l.path : l \in {k \in L : k.switch}}
        /\ S.required = {l.path : l \in {k \in L : k.presence.kind = "required"}}
        /\ S.prodRequired = {l.path : l \in {k \in L : k.class = "prod required"}}
        /\ S.devOnly = {l.path : l \in {k \in L : k.class = "dev only"}}
        /\ S.deployment = DeploymentPath
    BY DEF SchemaOf, DeploymentPath
  <1>4. S.default = [p \in {l.path : l \in {k \in L : TRUE}} |->
                       (CHOOSE l \in L : l.path = p).presence.text]
    BY DEF SchemaOf
  <1> HIDE DEF S
  <1>5. \A l \in L : /\ l.path \in S.field
                     /\ l.path \in S.switch <=> l.switch
                     /\ l.path \in S.required <=> l.presence.kind = "required"
                     /\ l.path \in S.prodRequired <=> l.class = "prod required"
                     /\ l.path \in S.devOnly <=> l.class = "dev only"
    <2> TAKE l \in L
    <2>1. \A k \in L : k.path = l.path => k = l
      BY <1>2
    <2>2. l.path \in S.field
      BY <1>3
    <2>3. l.path \in S.switch <=> l.switch
      BY <1>3, <2>1
    <2>4. l.path \in S.required <=> l.presence.kind = "required"
      BY <1>3, <2>1
    <2>5. l.path \in S.prodRequired <=> l.class = "prod required"
      BY <1>3, <2>1
    <2>6. l.path \in S.devOnly <=> l.class = "dev only"
      BY <1>3, <2>1
    <2> QED
      BY <2>2, <2>3, <2>4, <2>5, <2>6
  <1>8. \A p \in S.switch \cup S.required \cup S.prodRequired \cup S.devOnly :
          \E l \in L : l.path = p
    BY <1>3
  <1>6. \A l \in L : S.default[l.path] = l.presence.text
    <2> TAKE l \in L
    <2>1. (CHOOSE k \in L : k.path = l.path) = l
      BY <1>2
    <2>2. S.default[l.path] = (CHOOSE k \in L : k.path = l.path).presence.text
      BY <1>4
    <2> QED
      BY <2>1, <2>2
  <1>7. Admitted(S, Off)
    BY <1>2, <1>3, <1>5, <1>6, <1>8, MetIsAdmitted
  <1> QED
    BY <1>7 DEF S, L

\* What was compiled is the program's.
CompiledOK == program \in Program /\ compiled \in {{}, Compiled(program)}

\* Inductive: the compilation is done once, of one program.
LEMMA CompiledAlways == ServiceSpec => []CompiledOK
  <1>1. ServiceStart => CompiledOK
    BY ServiceAssumption DEF ServiceStart, ServiceInit, CompiledOK
  <1>2. CompiledOK /\ [ServiceNext]_<<vars, bootVars, serviceVars>> => CompiledOK'
    BY DEF CompiledOK, ServiceNext, Derive, Boots, serviceVars
  <1> QED
    BY <1>1, <1>2, PTL DEF ServiceSpec, ServiceStart

\* What was compiled to leaves was accepted.
LEMMA BuiltIsAccepted ==
  ASSUME CompiledOK, Built
  PROVE  program \in Program /\ Accepted(program) /\ compiled = LeavesIn(program)["root"]
  BY DEF CompiledOK, Built, Compiled

\* For any declaration of any structs in one another: what the derive lets
\* through, leaf by leaf, is as a whole what the load assumes of a schema.
THEOREM AllDerivedIsAdmitted == ServiceSpec => []DerivedIsAdmitted
  <1>1. CompiledOK => DerivedIsAdmitted
    BY BuiltIsAccepted, AcceptedIsAdmitted DEF DerivedIsAdmitted
  <1> QED
    BY <1>1, CompiledAlways, PTL

\* Dotted names that are apart keep what the load relies on.
LEMMA DotsAdmitted ==
  ASSUME NEW S, NEW off, Admitted(S, off),
         \A p, q \in S.field : Dotted(p) = Dotted(q) => p = q
  PROVE  Admitted(InDots(S), off)
  <1> DEFINE All(paths) == {Dotted(p) : p \in paths}
             D == InDots(S)
  <1>1. /\ D.field = All(S.field) /\ D.deployment = Dotted(S.deployment)
        /\ D.switch = All(S.switch) /\ D.required = All(S.required)
        /\ D.prodRequired = All(S.prodRequired) /\ D.devOnly = All(S.devOnly)
    BY DEF InDots
  <1>2. D.default = [d \in All(S.field) |-> S.default[CHOOSE p \in S.field : Dotted(p) = d]]
    BY DEF InDots
  <1>3. \A p \in S.field : D.default[Dotted(p)] = S.default[p]
    <2> TAKE p \in S.field
    <2>1. (CHOOSE q \in S.field : Dotted(q) = Dotted(p)) = p
      OBVIOUS
    <2> QED
      BY <1>2, <2>1
  <1> HIDE DEF D
  <1>4. /\ S.deployment \in S.required /\ S.required \subseteq S.field
        /\ S.switch \subseteq S.field \ {S.deployment}
        /\ S.prodRequired \subseteq S.field \ S.required
        /\ S.devOnly \subseteq S.field \ S.required
        /\ S.prodRequired \cap S.devOnly = {}
        /\ \A f \in S.prodRequired \cup S.required : S.default[f] = None
        /\ \A f \in S.devOnly : S.default[f] = None \/ (f \in S.switch /\ S.default[f] \in off)
    BY DEF Admitted
  <1>5. D.deployment \in D.required /\ D.required \subseteq D.field
    BY <1>1, <1>4
  <1>6. D.switch \subseteq D.field \ {D.deployment}
    BY <1>1, <1>4
  <1>7. D.prodRequired \subseteq D.field \ D.required /\ D.devOnly \subseteq D.field \ D.required
    BY <1>1, <1>4
  <1>8. D.prodRequired \cap D.devOnly = {}
    BY <1>1, <1>4
  <1>9. \A f \in D.prodRequired \cup D.required : D.default[f] = None
    <2> TAKE f \in D.prodRequired \cup D.required
    <2>1. PICK p \in S.prodRequired \cup S.required : f = Dotted(p)
      BY <1>1
    <2> QED
      BY <1>3, <1>4, <2>1
  <1>10. \A f \in D.devOnly : D.default[f] = None \/ (f \in D.switch /\ D.default[f] \in off)
    <2> TAKE f \in D.devOnly
    <2>1. PICK p \in S.devOnly : f = Dotted(p)
      BY <1>1
    <2>2. D.default[f] = S.default[p]
      BY <1>3, <1>4, <2>1
    <2>3. p \in S.switch => f \in D.switch
      BY <1>1, <2>1
    <2> QED
      BY <1>4, <2>2, <2>3
  <1>11. Admitted(D, off)
    BY <1>5, <1>6, <1>7, <1>8, <1>9, <1>10 DEF Admitted
  <1> QED
    BY <1>11 DEF D

\* What the load assumes of its constants (ConfigAssumption) holds of the schema
\* of any declaration that compiles, by the names the file has for the leaves, as
\* long as these are apart: no Rust name has the dot that joins them.
THEOREM LoadMayRely ==
  ASSUME NEW prog \in Program, Compiled(prog) # None,
         \A l, k \in Compiled(prog) : Dotted(l.path) = Dotted(k.path) => l.path = k.path
  PROVE  Admitted(InDots(SchemaOf(Compiled(prog))), Off)
  <1>1. Accepted(prog) /\ Compiled(prog) = LeavesIn(prog)["root"]
    BY DEF Compiled
  <1>2. Admitted(SchemaOf(Compiled(prog)), Off)
    BY <1>1, AcceptedIsAdmitted
  <1> DEFINE L == Compiled(prog)
             S == SchemaOf(L)
  <1>3. S.field = {l.path : l \in {k \in L : TRUE}}
    BY DEF SchemaOf
  <1>4. \A l, k \in L : Dotted(l.path) = Dotted(k.path) => l.path = k.path
    OBVIOUS
  <1>5. \A p, q \in S.field : Dotted(p) = Dotted(q) => p = q
    <2> HIDE DEF L, S
    <2> SUFFICES ASSUME NEW p \in S.field, NEW q \in S.field, Dotted(p) = Dotted(q) PROVE p = q
      OBVIOUS
    <2>1. PICK l \in L : p = l.path
      BY <1>3
    <2>2. PICK k \in L : q = k.path
      BY <1>3
    <2> QED
      BY <1>4, <2>1, <2>2
  <1> HIDE DEF S
  <1>6. Admitted(InDots(S), Off)
    BY <1>2, <1>5, DotsAdmitted DEF S
  <1> QED
    BY <1>6 DEF S

-----------------------------------------------------------------------------
(* Short texts and their lengths.                                            *)

LEMMA SeqFacts ==
  ASSUME NEW W, NEW t \in Seq(W)
  PROVE  /\ DOMAIN t = 1..Len(t) /\ Len(t) \in Nat /\ \A i \in 1..Len(t) : t[i] \in W
         /\ \A V : W \subseteq V => t \in Seq(V)
  OBVIOUS

LEMMA ConcatFacts ==
  ASSUME NEW W, NEW a \in Seq(W), NEW b \in Seq(W)
  PROVE  /\ Len(a \o b) = Len(a) + Len(b) /\ Len(a) \in Nat /\ Len(b) \in Nat
         /\ \A i \in 1..Len(a) : (a \o b)[i] = a[i]
         /\ \A i \in 1..Len(b) : (a \o b)[Len(a) + i] = b[i]
  OBVIOUS

LEMMA OneText == ASSUME NEW W, NEW a \in Seq(W), NEW b \in Seq(W) PROVE a \o b \in Seq(W)
  OBVIOUS

LEMMA SameText ==
  ASSUME NEW W, NEW a \in Seq(W), NEW b \in Seq(W), Len(a) = Len(b),
         \A i \in 1..Len(a) : a[i] = b[i]
  PROVE  a = b
  OBVIOUS

LEMMA AfterTwo ==
  ASSUME NEW W, NEW a \in Seq(W), NEW t \in Seq(W)
  PROVE  Len(a) = 2 =>
           /\ a \o t \in Seq(W) /\ Len(a \o t) = Len(t) + 2
           /\ \A i \in 1..Len(t) : (a \o t)[i + 2] = t[i]
  <1>1. Len(a \o t) = Len(a) + Len(t) /\ Len(t) \in Nat
    OBVIOUS
  <1>2. \A i \in 1..Len(t) : (a \o t)[Len(a) + i] = t[i]
    OBVIOUS
  <1>3. Len(a) = 2 => \A i \in 1..Len(t) : i + 2 = Len(a) + i
    BY <1>1
  <1>4. a \o t \in Seq(W)
    OBVIOUS
  <1> QED
    BY <1>1, <1>2, <1>3, <1>4

LEMMA PairOf == ASSUME NEW W, NEW a \in W, NEW b \in W PROVE <<a, b>> \in Seq(W)
  OBVIOUS

LEMMA OneOf ==
  ASSUME NEW W, NEW t \in Seq(W), Len(t) = 1
  PROVE  1 \in DOMAIN t /\ t = <<t[1]>>
  OBVIOUS

LEMMA FunctionOfOne == ASSUME NEW c PROVE [i \in 1..1 |-> c] = <<c>>
  OBVIOUS

LEMMA LengthOfOne == ASSUME NEW c PROVE Len(<<c>>) = 1 /\ DOMAIN <<c>> = 1..1 /\ <<c>>[1] = c
  OBVIOUS

LEMMA JustOne == 1 \in 1..1 /\ \A i \in 1..1 : i = 1
  OBVIOUS

LEMMA ThreeOf == ASSUME NEW a, NEW b, NEW c PROVE DOMAIN <<a, b, c>> = 1..3 /\ <<a, b, c>>[3] = c
  OBVIOUS

LEMMA NothingAhead == ASSUME NEW c PROVE <<>> \o <<c>> = <<c>>
  <1> DEFINE W == {c}
  <1>1. <<>> \in Seq(W) /\ <<c>> \in Seq(W)
    OBVIOUS
  <1>2. Len(<<>>) = 0 /\ Len(<<c>>) = 1
    OBVIOUS
  <1>3. <<>> \o <<c>> \in Seq(W)
    BY <1>1, OneText
  <1>4. Len(<<>> \o <<c>>) = 1
    BY <1>1, <1>2
  <1>5. (<<>> \o <<c>>)[1] = <<c>>[1]
    BY <1>1, <1>2, <1>4
  <1> QED
    BY <1>1, <1>2, <1>3, <1>4, <1>5, SameText

LEMMA ThreeTogether == ASSUME NEW a, NEW b, NEW c PROVE <<a, b>> \o <<c>> = <<a, b, c>>
  <1> DEFINE W == {a, b, c}
             x == <<a, b>>
             y == <<c>>
             z == <<a, b, c>>
  <1>1. x \in Seq(W) /\ y \in Seq(W) /\ z \in Seq(W)
    OBVIOUS
  <1>2. Len(x) = 2 /\ Len(y) = 1 /\ Len(z) = 3
    OBVIOUS
  <1>3. x[1] = a /\ x[2] = b /\ y[1] = c /\ z[1] = a /\ z[2] = b /\ z[3] = c
    OBVIOUS
  <1> HIDE DEF W, x, y, z
  <1>4. x \o y \in Seq(W)
    BY <1>1, OneText
  <1>5. Len(x \o y) = 3
    <2>1. Len(x \o y) = Len(x) + Len(y)
      BY <1>1
    <2> QED
      BY <1>2, <2>1
  <1>6. \A i \in 1..Len(x) : (x \o y)[i] = x[i]
    BY <1>1
  <1>7. \A i \in 1..Len(y) : (x \o y)[Len(x) + i] = y[i]
    BY <1>1
  <1>8. (x \o y)[1] = a /\ (x \o y)[2] = b
    <2>1. 1 \in 1..Len(x) /\ 2 \in 1..Len(x)
      BY <1>2
    <2> QED
      BY <1>3, <1>6, <2>1, Zenon
  <1>9. (x \o y)[3] = c
    <2>1. 1 \in 1..Len(y) /\ Len(x) + 1 = 3
      BY <1>2
    <2> QED
      BY <1>3, <1>7, <2>1
  <1>10. \A i \in 1..3 : i = 1 \/ i = 2 \/ i = 3
    OBVIOUS
  <1>11. \A i \in 1..Len(x \o y) : (x \o y)[i] = z[i]
    BY <1>3, <1>5, <1>8, <1>9, <1>10
  <1>12. x \o y = z
    BY <1>1, <1>2, <1>4, <1>5, <1>11, SameText
  <1> QED
    BY <1>12 DEF x, y, z

LEMMA SameLength == ASSUME NEW a \in Nat, NEW b \in Nat, 1..a = 1..b PROVE a = b
  <1>1. ~(a < b)
    OBVIOUS
  <1>2. ~(b < a)
    OBVIOUS
  <1> QED
    BY <1>1, <1>2

LEMMA TwoMore == ASSUME NEW a \in Nat, NEW b \in Nat, a + 2 = b + 2 PROVE a = b
  OBVIOUS

LEMMA NoMore == ASSUME NEW a \in Nat \ {0} PROVE a + 1 # 1
  OBVIOUS

LEMMA OddsApart ==
  ASSUME NEW a \in Nat, NEW b \in Nat, a % 2 = 1, b % 2 = 1, a < b
  PROVE  b - a \in Nat /\ (b - a) % 2 = 0 /\ b - a >= 2 /\ b - a <= b
  OBVIOUS

LEMMA OneLess == ASSUME NEW a \in Nat, a % 2 = 0 PROVE (a - 1) % 2 # 0
  OBVIOUS

-----------------------------------------------------------------------------
(* Spellings.                                                                *)

Marks == {"-", "_"}

\* The words of a name are a sequence.
LEMMA PartFacts ==
  ASSUME NEW n \in FieldName
  PROVE  /\ Parts[n] \in Seq(DOMAIN Capital \ {"-"}) /\ Len(Parts[n]) \in Nat
         /\ DOMAIN Parts[n] = 1..Len(Parts[n])
  <1>1. Parts[n] \in Seq(DOMAIN Capital \ {"-"})
    BY DeriveAssumption
  <1> QED
    BY <1>1

\* The words of a plain name stand at the odd places, marks at the even.
PlainText(x, mark) ==
  /\ x \in Seq(Small \cup {mark}) /\ Len(x) \in Nat /\ Len(x) % 2 = 1
  /\ \A i \in 1..Len(x) : x[i] = mark <=> i % 2 = 0

\* Neither mark is a word.
LEMMA MarkIsNoWord == "-" \notin Small /\ "_" \notin Small
  BY DeriveAssumption

\* The segment of a plain name is plain.
LEMMA PlainSegment ==
  ASSUME NEW n \in FieldName, PlainName(n), NEW mark \in Marks
  PROVE  PlainText(Segment(n, mark), mark) /\ Len(Segment(n, mark)) = Len(Parts[n])
  <1> DEFINE x == Segment(n, mark)
             w == Parts[n]
  <1>1. w \in Seq(DOMAIN Capital \ {"-"}) /\ Len(w) \in Nat /\ DOMAIN w = 1..Len(w)
    BY PartFacts
  <1>2. x = [i \in DOMAIN w |-> IF w[i] = "_" THEN mark ELSE w[i]]
    BY DEF Segment
  <1>3. Len(w) % 2 = 1 /\ \A i \in DOMAIN w : IF i % 2 = 0 THEN w[i] = "_" ELSE w[i] \in Small
    BY DEF PlainName
  <1> HIDE DEF x, w
  <1>4. \A i \in 1..Len(w) : /\ i % 2 = 0 => x[i] = mark
                             /\ i % 2 # 0 => x[i] \in Small /\ x[i] # mark
    BY <1>1, <1>2, <1>3, MarkIsNoWord DEF Marks
  <1>5. x \in Seq(Small \cup {mark}) /\ Len(x) = Len(w)
    <2>1. x = [i \in 1..Len(w) |-> x[i]]
      BY <1>1, <1>2
    <2>2. \A i \in 1..Len(w) : x[i] \in Small \cup {mark}
      BY <1>4
    <2> QED
      BY <1>1, <2>1, <2>2
  <1>6. PlainText(x, mark)
    BY <1>1, <1>3, <1>4, <1>5 DEF PlainText
  <1> QED
    BY <1>5, <1>6 DEF x, w

\* A plain name is told by its segment.
LEMMA SegmentsApart ==
  ASSUME NEW n \in FieldName, PlainName(n), NEW m \in FieldName, PlainName(m), NEW mark \in Marks,
         Segment(n, mark) = Segment(m, mark)
  PROVE  n = m
  <1> DEFINE v == Parts[n]
             w == Parts[m]
  <1>1. /\ v \in Seq(DOMAIN Capital \ {"-"}) /\ Len(v) \in Nat /\ DOMAIN v = 1..Len(v)
        /\ w \in Seq(DOMAIN Capital \ {"-"}) /\ Len(w) \in Nat /\ DOMAIN w = 1..Len(w)
    BY PartFacts
  <1>2. Len(v) = Len(w)
    BY PlainSegment
  <1>3. \A i \in 1..Len(v) : Segment(n, mark)[i] = IF v[i] = "_" THEN mark ELSE v[i]
    BY <1>1 DEF Segment
  <1>4. \A i \in 1..Len(w) : Segment(m, mark)[i] = IF w[i] = "_" THEN mark ELSE w[i]
    BY <1>1 DEF Segment
  <1>5. /\ \A i \in DOMAIN v : IF i % 2 = 0 THEN v[i] = "_" ELSE v[i] \in Small
        /\ \A i \in DOMAIN w : IF i % 2 = 0 THEN w[i] = "_" ELSE w[i] \in Small
    BY DEF PlainName
  <1> HIDE DEF v, w
  <1>6. \A i \in 1..Len(v) : v[i] = w[i]
    BY <1>1, <1>2, <1>3, <1>4, <1>5, MarkIsNoWord
  <1>7. v = w
    BY <1>1, <1>2, <1>6
  <1> QED
    BY <1>7, DeriveAssumption DEF v, w

\* What a segment may follow: nothing, or two marks.
Ahead(u, mark, W) ==
  \/ u = <<>>
  \/ \E t \in Seq(W) : u = t \o <<mark, mark>>

\* The end of a text is read in one way: two marks are never a name's.
LEMMA LastSegmentLength ==
  ASSUME NEW W, NEW mark, NEW u \in Seq(W), NEW v \in Seq(W), NEW x \in Seq(W), NEW y \in Seq(W),
         Ahead(u, mark, W), mark \in W,
         Len(x) % 2 = 1, Len(y) % 2 = 1,
         \A i \in 1..Len(y) : y[i] = mark <=> i % 2 = 0,
         u \o x = v \o y
  PROVE  ~(Len(x) < Len(y))
  <1> SUFFICES ASSUME Len(x) < Len(y) PROVE FALSE
    OBVIOUS
  <1>1. Len(u) + Len(x) = Len(v) + Len(y) /\ Len(u) \in Nat /\ Len(v) \in Nat
        /\ Len(x) \in Nat /\ Len(y) \in Nat
    <2>1. Len(u \o x) = Len(u) + Len(x) /\ Len(v \o y) = Len(v) + Len(y)
      OBVIOUS
    <2> QED
      BY <2>1
  <1>2. PICK t \in Seq(W) : u = t \o <<mark, mark>>
    <2>1. u # <<>>
      BY <1>1
    <2> QED
      BY <2>1 DEF Ahead
  <1>3. Len(u) >= 2 /\ u[Len(u) - 1] = mark
    BY <1>2
  <1> DEFINE d == Len(y) - Len(x)
  <1>4. d \in Nat /\ d % 2 = 0 /\ d >= 2 /\ d <= Len(y)
    BY <1>1, OddsApart
  <1>10. Len(u) = Len(v) + d
    BY <1>1
  <1> HIDE DEF d
  <1>5. d - 1 \in 1..Len(y) /\ (d - 1) % 2 # 0
    <2>1. d - 1 \in Nat /\ d - 1 >= 1 /\ d - 1 <= Len(y)
      BY <1>1, <1>4
    <2> QED
      BY <1>1, <1>4, <2>1, OneLess
  <1>6. (u \o x)[Len(u) - 1] = u[Len(u) - 1]
    <2>1. \A i \in 1..Len(u) : (u \o x)[i] = u[i]
      OBVIOUS
    <2>2. Len(u) - 1 \in 1..Len(u)
      BY <1>1, <1>3
    <2> QED
      BY <2>1, <2>2
  <1>7. (v \o y)[Len(v) + (d - 1)] = y[d - 1]
    <2>1. \A i \in 1..Len(y) : (v \o y)[Len(v) + i] = y[i]
      OBVIOUS
    <2> QED
      BY <1>5, <2>1
  <1>8. Len(v) + (d - 1) = Len(u) - 1
    BY <1>1, <1>4, <1>10
  <1>9. y[d - 1] = mark
    BY <1>3, <1>6, <1>7, <1>8
  <1> QED
    BY <1>5, <1>9

\* A text that is u and a last segment x.
EndsIn(text, u, x, mark, W) ==
  /\ mark \in W /\ Small \subseteq W /\ u \in Seq(W)
  /\ Ahead(u, mark, W) /\ PlainText(x, mark) /\ text = u \o x

\* The last segment and what is ahead of it are told by the text.
LEMMA LastSegment ==
  ASSUME NEW mark, NEW W, NEW text, NEW u, NEW x, NEW v, NEW y,
         EndsIn(text, u, x, mark, W), EndsIn(text, v, y, mark, W)
  PROVE  u = v /\ x = y
  <1> SUFFICES ASSUME mark \in W, Small \subseteq W, u \in Seq(W), v \in Seq(W),
                      Ahead(u, mark, W), Ahead(v, mark, W),
                      PlainText(x, mark), PlainText(y, mark), u \o x = v \o y
               PROVE  u = v /\ x = y
    BY Zenon DEF EndsIn
  <1>1. x \in Seq(W) /\ y \in Seq(W)
    <2>1. \A z \in Seq(Small \cup {mark}) : z \in Seq(W)
      OBVIOUS
    <2> QED
      BY <2>1 DEF PlainText
  <1>2. Len(x) = Len(y)
    <2>1. ~(Len(x) < Len(y))
      BY <1>1, LastSegmentLength DEF PlainText
    <2>2. ~(Len(y) < Len(x))
      BY <1>1, LastSegmentLength DEF PlainText
    <2> QED
      BY <1>1, <2>1, <2>2
  <1>3. Len(u) = Len(v)
    <2>1. Len(u \o x) = Len(u) + Len(x) /\ Len(v \o y) = Len(v) + Len(y)
      BY <1>1
    <2> QED
      BY <1>1, <1>2, <2>1
  <1>4. \A i \in 1..Len(u) : u[i] = (u \o x)[i] /\ v[i] = (v \o y)[i]
    BY <1>1, <1>3
  <1>5. \A i \in 1..Len(x) : x[i] = (u \o x)[Len(u) + i] /\ y[i] = (v \o y)[Len(v) + i]
    BY <1>1, <1>2
  <1>6. u = v
    <2>1. \A i \in 1..Len(u) : u[i] = v[i]
      BY <1>3, <1>4
    <2>2. u \in Seq(W) /\ v \in Seq(W)
      OBVIOUS
    <2> QED
      BY ONLY <1>3, <2>1, <2>2, SameText
  <1>7. x = y
    <2> DEFINE a == u \o x
               b == v \o y
    <2>0. a = b
      OBVIOUS
    <2>1. ASSUME NEW i \in 1..Len(x) PROVE x[i] = y[i]
      <3>1. x[i] = a[Len(u) + i] /\ y[i] = b[Len(v) + i]
        BY <1>5, Zenon
      <3> HIDE DEF a, b
      <3> QED
        BY <1>3, <2>0, <3>1, Zenon
    <2> QED
      BY ONLY <1>1, <1>2, <2>1, SameText
  <1> QED
    BY <1>6, <1>7

\* The body of JoinedUpTo.
JoinedNext(text, path, mark, n) ==
  IF n = 0 THEN <<>>
  ELSE (IF n = 1 THEN <<>> ELSE text[n-1] \o <<mark, mark>>) \o Segment(path[n], mark)

\* JoinedUpTo solves its equations.
LEMMA JoinedUnfold ==
  ASSUME NEW path, Len(path) \in Nat, NEW mark
  PROVE  JoinedUpTo(path, mark) =
           [n \in 0..Len(path) |-> JoinedNext(JoinedUpTo(path, mark), path, mark, n)]
  <1> DEFINE T == {k \in Nat : \E f : f = [n \in 0..k |-> JoinedNext(f, path, mark, n)]}
  <1>1. 0 \in T
    <2> DEFINE f == [n \in 0..0 |-> <<>>]
    <2>1. \A n \in 0..0 : JoinedNext(f, path, mark, n) = <<>>
      BY DEF JoinedNext
    <2>2. f = [n \in 0..0 |-> JoinedNext(f, path, mark, n)]
      BY <2>1
    <2> QED
      BY <2>2
  <1>2. ASSUME NEW k \in T PROVE k + 1 \in T
    <2>1. PICK f : f = [n \in 0..k |-> JoinedNext(f, path, mark, n)]
      OBVIOUS
    <2> DEFINE g == [n \in 0..k+1 |-> IF n = k + 1 THEN JoinedNext(f, path, mark, n) ELSE f[n]]
    <2>2. \A n \in 0..k+1 : n # 0 => g[n-1] = f[n-1]
      <3>1. \A n \in 0..k+1 : n # 0 => n - 1 \in 0..k+1 /\ n - 1 # k + 1
        OBVIOUS
      <3> QED
        BY <3>1
    <2>3. \A n \in 0..k+1 : JoinedNext(g, path, mark, n) = JoinedNext(f, path, mark, n)
      <3> HIDE DEF g
      <3> TAKE n \in 0..k+1
      <3>1. n # 0 => g[n-1] = f[n-1]
        BY <2>2
      <3> QED
        BY <3>1 DEF JoinedNext
    <2>4. \A n \in 0..k+1 : g[n] = JoinedNext(g, path, mark, n)
      <3> TAKE n \in 0..k+1
      <3>1. g[n] = IF n = k + 1 THEN JoinedNext(f, path, mark, n) ELSE f[n]
        OBVIOUS
      <3>2. n # k + 1 => f[n] = JoinedNext(f, path, mark, n)
        BY <2>1
      <3> HIDE DEF g
      <3> QED
        BY <3>1, <3>2, <2>3
    <2>5. g = [n \in 0..k+1 |-> JoinedNext(g, path, mark, n)]
      BY <2>4
    <2> HIDE DEF g
    <2> QED
      BY <2>5
  <1> HIDE DEF T
  <1>3. Len(path) \in T
    <2>1. T \in SUBSET Nat
      BY DEF T
    <2> QED
      BY <1>1, <1>2, <2>1, InductionOverNat
  <1>4. JoinedUpTo(path, mark) = CHOOSE f : f = [n \in 0..Len(path) |-> JoinedNext(f, path, mark, n)]
    BY DEF JoinedUpTo, JoinedNext
  <1> QED
    BY <1>3, <1>4 DEF T

\* A path as leaves have it, of plain names.
PlainPath(path) ==
  /\ path \in Seq(FieldName) /\ Len(path) \in Nat \ {0}
  /\ \A i \in 1..Len(path) : path[i] \in FieldName /\ PlainName(path[i])

Before(path, mark, n) ==
  IF n = 1 THEN <<>> ELSE JoinedUpTo(path, mark)[n-1] \o <<mark, mark>>

\* Each text is its last segment behind nothing or behind two marks.
LEMMA JoinedAt ==
  ASSUME NEW path, PlainPath(path), NEW mark \in Marks
  PROVE  \A n \in 1..Len(path) :
           /\ JoinedUpTo(path, mark)[n] = Before(path, mark, n) \o Segment(path[n], mark)
           /\ Before(path, mark, n) \in Seq(Small \cup {mark})
           /\ Ahead(Before(path, mark, n), mark, Small \cup {mark})
           /\ JoinedUpTo(path, mark)[n] \in Seq(Small \cup {mark})
  <1> DEFINE text == JoinedUpTo(path, mark)
             W == Small \cup {mark}
             Good(n) == n \in 1..Len(path) =>
                          Before(path, mark, n) \in Seq(W) /\ text[n] \in Seq(W)
             T == {n \in Nat : Good(n)}
  <1>1. Len(path) \in Nat /\ \A n \in 1..Len(path) : PlainText(Segment(path[n], mark), mark)
    BY PlainSegment DEF PlainPath
  <1>2. \A n \in 1..Len(path) : text[n] = Before(path, mark, n) \o Segment(path[n], mark)
    <2>1. \A n \in 0..Len(path) : text[n] = JoinedNext(text, path, mark, n)
      <3> HIDE DEF text
      <3>1. text = [n \in 0..Len(path) |-> JoinedNext(text, path, mark, n)]
        BY <1>1, JoinedUnfold DEF text
      <3> QED
        BY <3>1
    <2> TAKE n \in 1..Len(path)
    <2>2. n \in 0..Len(path) /\ n # 0
      BY <1>1
    <2> QED
      BY <2>1, <2>2 DEF JoinedNext, Before
  <1> HIDE DEF text
  <1>3. \A n \in 1..Len(path) : Before(path, mark, n) \in Seq(W) => text[n] \in Seq(W)
    <2> TAKE n \in 1..Len(path)
    <2>1. Segment(path[n], mark) \in Seq(W)
      BY <1>1 DEF PlainText
    <2>2. text[n] = Before(path, mark, n) \o Segment(path[n], mark)
      BY <1>2
    <2> QED
      BY <2>1, <2>2, OneText
  <1>4. \A n \in 1..Len(path) : n # 1 => Before(path, mark, n) = text[n-1] \o <<mark, mark>>
    BY DEF Before, text
  <1>5. Before(path, mark, 1) = <<>>
    BY DEF Before
  <1>6. 0 \in T
    OBVIOUS
  <1>7. ASSUME NEW k \in T PROVE k + 1 \in T
    <2> SUFFICES ASSUME k + 1 \in 1..Len(path) PROVE Before(path, mark, k+1) \in Seq(W)
      BY <1>3
    <2>1. CASE k = 0
      <3>1. <<>> \in Seq(W) /\ k + 1 = 1
        BY <2>1
      <3> HIDE DEF W
      <3> QED
        BY <1>5, <3>1
    <2>2. CASE k # 0
      <3>1. k \in 1..Len(path) /\ k + 1 # 1 /\ (k + 1) - 1 = k
        BY <1>1, <2>2
      <3>2. text[k] \in Seq(W)
        BY <3>1
      <3>3. Before(path, mark, k+1) = text[k] \o <<mark, mark>>
        BY <1>4, <3>1
      <3>5. <<mark, mark>> \in Seq(W)
        OBVIOUS
      <3> QED
        BY <3>2, <3>3, <3>5, OneText
    <2> QED
      BY <2>1, <2>2
  <1>8. T = Nat
    <2> HIDE DEF Good
    <2>1. T \in SUBSET Nat
      OBVIOUS
    <2> HIDE DEF T
    <2> QED
      BY <1>6, <1>7, <2>1, InductionOverNat
  <1>9. \A n \in 1..Len(path) : Good(n)
    <2> HIDE DEF Good
    <2>1. \A n \in 1..Len(path) : n \in T
      BY <1>1, <1>8
    <2> QED
      BY <2>1
  <1>10. \A n \in 1..Len(path) : Ahead(Before(path, mark, n), mark, W)
    <2> TAKE n \in 1..Len(path)
    <2>1. CASE n = 1
      BY <1>5, <2>1 DEF Ahead
    <2>2. CASE n # 1
      <3>1. n - 1 \in 1..Len(path)
        BY <1>1, <2>2
      <3>2. text[n-1] \in Seq(W)
        BY <1>9, <3>1
      <3> QED
        BY <1>4, <2>2, <3>2 DEF Ahead
    <2> QED
      BY <2>1, <2>2
  <1> QED
    BY <1>2, <1>9, <1>10 DEF text

\* Two marks at an end can be taken off.
LEMMA MarksOff ==
  ASSUME NEW W, NEW mark \in W, NEW w \in Seq(W), NEW z \in Seq(W),
         w \o <<mark, mark>> = z \o <<mark, mark>>
  PROVE  w = z
  <1>1. <<mark, mark>> \in Seq(W) /\ Len(<<mark, mark>>) = 2
    OBVIOUS
  <1>2. Len(w) = Len(z) /\ Len(w) \in Nat
    BY <1>1, ConcatFacts
  <1>3. \A i \in 1..Len(w) : w[i] = z[i]
    BY <1>1, <1>2, ConcatFacts
  <1> QED
    BY <1>2, <1>3

\* A text is read in one way.
LEMMA TextsApart ==
  ASSUME NEW p, PlainPath(p), NEW q, PlainPath(q), NEW mark \in Marks
  PROVE  \A n \in 1..Len(p), k \in 1..Len(q) :
           JoinedUpTo(p, mark)[n] = JoinedUpTo(q, mark)[k] =>
             n = k /\ \A i \in 1..n : p[i] = q[i]
  <1> DEFINE Same(n, k) == JoinedUpTo(p, mark)[n] = JoinedUpTo(q, mark)[k]
             Fine(n, k) == n = k /\ \A i \in 1..n : p[i] = q[i]
             T == {n \in 1..Len(p) : \E k \in 1..Len(q) : Same(n, k) /\ ~Fine(n, k)}
  <1>0. Len(p) \in Nat /\ Len(q) \in Nat
    BY DEF PlainPath
  <1> SUFFICES ASSUME T # {} PROVE FALSE
    OBVIOUS
  <1>1. PICK n \in T : \A m \in T : n <= m
    <2>1. T \in SUBSET Nat
      BY <1>0
    <2> HIDE DEF T
    <2> QED
      BY <2>1, LeastOf
  <1>2. PICK k \in 1..Len(q) : Same(n, k) /\ ~Fine(n, k)
    OBVIOUS
  <1>3. n \in 1..Len(p) /\ n \in Nat /\ k \in Nat /\ n >= 1 /\ k >= 1
    BY <1>0
  <1> DEFINE u == Before(p, mark, n)
             v == Before(q, mark, k)
             x == Segment(p[n], mark)
             y == Segment(q[k], mark)
             W == Small \cup {mark}
  <1>4. u \o x = v \o y
    <2>1. JoinedUpTo(p, mark)[n] = Before(p, mark, n) \o Segment(p[n], mark)
      BY <1>3, JoinedAt
    <2>2. JoinedUpTo(q, mark)[k] = Before(q, mark, k) \o Segment(q[k], mark)
      <3>1. k \in 1..Len(q)
        BY <1>2
      <3> QED
        BY ONLY <3>1, JoinedAt, PlainPath(q), mark \in Marks
    <2>3. JoinedUpTo(p, mark)[n] = JoinedUpTo(q, mark)[k]
      BY <1>2
    <2> QED
      BY <2>1, <2>2, <2>3
  <1>5. /\ u \in Seq(W) /\ v \in Seq(W) /\ Ahead(u, mark, W) /\ Ahead(v, mark, W)
        /\ PlainText(x, mark) /\ PlainText(y, mark)
    BY <1>3, JoinedAt, PlainSegment DEF PlainPath
  <1>6. u = v /\ x = y
    <2>1. mark \in W /\ Small \subseteq W
      OBVIOUS
    <2> HIDE DEF u, v, x, y, W
    <2>2. EndsIn(u \o x, u, x, mark, W)
      BY ONLY <1>5, <2>1 DEF EndsIn
    <2>3. EndsIn(u \o x, v, y, mark, W)
      BY ONLY <1>4, <1>5, <2>1 DEF EndsIn
    <2> QED
      BY ONLY <2>2, <2>3, LastSegment, Zenon
  <1>7. p[n] = q[k]
    BY <1>3, <1>6, SegmentsApart DEF PlainPath
  <1>8. \A m \in 1..n-1 : \A j \in 1..Len(q) : Same(m, j) => Fine(m, j)
    <2> SUFFICES ASSUME NEW m \in 1..n-1, m \in T PROVE FALSE
      BY <1>0, <1>3
    <2> HIDE DEF T
    <2> QED
      BY <1>0, <1>1, <1>3
  <1>9. \A r : \A m \in Nat : m # 1 => Before(r, mark, m) = JoinedUpTo(r, mark)[m-1] \o <<mark, mark>>
    BY DEF Before
  <1>10. Before(p, mark, 1) = <<>> /\ Before(q, mark, 1) = <<>>
    BY DEF Before
  <1>11. \A w \in Seq(W) : w \o <<mark, mark>> # <<>>
    OBVIOUS
  <1>12. \A w, z \in Seq(W) : w \o <<mark, mark>> = z \o <<mark, mark>> => w = z
    <2>1. mark \in W
      OBVIOUS
    <2> HIDE DEF W
    <2> QED
      BY <2>1, MarksOff
  <1>13. /\ \A m \in 1..Len(p) : JoinedUpTo(p, mark)[m] \in Seq(W)
         /\ \A m \in 1..Len(q) : JoinedUpTo(q, mark)[m] \in Seq(W)
    BY JoinedAt
  <1> HIDE DEF W
  <1>14. CASE n = 1 /\ k = 1
    BY <1>2, <1>7, <1>14
  <1>15. CASE n = 1 /\ k # 1
    <2>1. k - 1 \in 1..Len(q)
      BY <1>0, <1>3, <1>15
    <2>2. JoinedUpTo(q, mark)[k-1] \o <<mark, mark>> = <<>>
      BY <1>3, <1>6, <1>9, <1>10, <1>15
    <2> QED
      BY <1>11, <1>13, <2>1, <2>2
  <1>16. CASE n # 1 /\ k = 1
    <2>1. n - 1 \in 1..Len(p)
      BY <1>0, <1>3, <1>16
    <2>2. JoinedUpTo(p, mark)[n-1] \o <<mark, mark>> = <<>>
      BY <1>3, <1>6, <1>9, <1>10, <1>16
    <2> QED
      BY <1>11, <1>13, <2>1, <2>2
  <1>17. CASE n # 1 /\ k # 1
    <2>1. n - 1 \in 1..Len(p) /\ k - 1 \in 1..Len(q) /\ n - 1 \in 1..n-1
      BY <1>0, <1>3, <1>17
    <2>2. JoinedUpTo(p, mark)[n-1] \o <<mark, mark>> = JoinedUpTo(q, mark)[k-1] \o <<mark, mark>>
      BY <1>3, <1>6, <1>9, <1>17
    <2>3. Same(n-1, k-1)
      BY <1>12, <1>13, <2>1, <2>2
    <2>4. Fine(n-1, k-1)
      <3> HIDE DEF Same, Fine
      <3> QED
        BY <1>8, <2>1, <2>3
    <2>5. n = k /\ \A i \in 1..n : i = n \/ i \in 1..n-1
      BY <1>3, <2>1, <2>4
    <2> QED
      BY <1>2, <1>7, <2>4, <2>5
  <1> QED
    BY <1>14, <1>15, <1>16, <1>17

\* A plain path is told by its text.
LEMMA PathsRead ==
  ASSUME NEW p, PlainPath(p), NEW q, PlainPath(q), NEW mark \in Marks,
         Joined(p, mark) = Joined(q, mark)
  PROVE  p = q
  <1>1. /\ p \in Seq(FieldName) /\ Len(p) \in 1..Len(p)
        /\ q \in Seq(FieldName) /\ Len(q) \in 1..Len(q)
    BY DEF PlainPath
  <1>2. Len(p) = Len(q) /\ \A i \in 1..Len(p) : p[i] = q[i]
    BY <1>1, TextsApart DEF Joined
  <1> QED
    BY <1>1, <1>2

\* The text of a plain path.
LEMMA JoinedTyped ==
  ASSUME NEW p, PlainPath(p), NEW mark \in Marks
  PROVE  Joined(p, mark) \in Seq(Small \cup {mark})
  <1>1. Len(p) \in 1..Len(p)
    BY DEF PlainPath
  <1> QED
    BY <1>1, JoinedAt DEF Joined

\* A text of one word is a path of one name of one word.
LEMMA OneWord ==
  ASSUME NEW p, PlainPath(p), NEW mark \in Marks, NEW w, Joined(p, mark) = <<w>>
  PROVE  p = <<p[1]>> /\ p[1] \in FieldName /\ PlainName(p[1]) /\ Parts[p[1]] = <<w>>
  <1>1. p \in Seq(FieldName) /\ Len(p) \in Nat \ {0} /\ Len(p) \in 1..Len(p)
    BY DEF PlainPath
  <1> DEFINE u == Before(p, mark, Len(p))
             x == Segment(p[Len(p)], mark)
             W == Small \cup {mark}
  <1>2. u \in Seq(W) /\ u \o x = <<w>> /\ PlainText(x, mark)
    BY <1>1, JoinedAt, PlainSegment DEF Joined, PlainPath
  <1>3. x \in Seq(W) /\ Len(x) \in Nat /\ Len(x) # 0
    BY <1>2 DEF PlainText
  <1>4. Len(u) + Len(x) = 1 /\ Len(u) \in Nat
    <2> HIDE DEF u, x, W
    <2>1. Len(u \o x) = Len(u) + Len(x) /\ Len(u) \in Nat
      BY <1>2, <1>3, ConcatFacts
    <2>2. Len(<<w>>) = 1
      OBVIOUS
    <2> QED
      BY <1>2, <2>1, <2>2
  <1>5. Len(p) = 1
    <2> SUFFICES ASSUME Len(p) # 1 PROVE FALSE
      OBVIOUS
    <2>1. Len(p) - 1 \in 1..Len(p)
      BY <1>1
    <2>2. JoinedUpTo(p, mark)[Len(p) - 1] \in Seq(W)
      BY <2>1, JoinedAt
    <2>3. u = JoinedUpTo(p, mark)[Len(p) - 1] \o <<mark, mark>>
      BY DEF Before
    <2>4. \A t \in Seq(W) : Len(t \o <<mark, mark>>) = Len(t) + 2 /\ Len(t) \in Nat
      OBVIOUS
    <2> HIDE DEF u, x, W
    <2> QED
      BY <1>3, <1>4, <2>2, <2>3, <2>4
  <1>6. x = <<w>>
    <2>1. u = <<>>
      BY <1>5 DEF Before
    <2> HIDE DEF u, x, W
    <2>2. <<>> \o x = x
      BY <1>3
    <2> QED
      BY <1>2, <2>1, <2>2
  <1>7. p = <<p[1]>> /\ p[1] \in FieldName /\ PlainName(p[1])
    BY <1>1, <1>5 DEF PlainPath
  <1>8. Len(Parts[p[1]]) = 1 /\ Segment(p[1], mark) = <<w>>
    <2>1. Len(<<w>>) = 1
      OBVIOUS
    <2> QED
      BY <1>5, <1>6, <1>7, <2>1, PlainSegment
  <1>9. Parts[p[1]] = <<w>>
    <2> DEFINE r == Parts[p[1]]
    <2>1. r \in Seq(DOMAIN Capital \ {"-"}) /\ DOMAIN r = 1..Len(r)
      BY <1>7, PartFacts
    <2>2. r[1] \in Small
      BY <1>7, <1>8, <2>1 DEF PlainName
    <2>3. Segment(p[1], mark)[1] = r[1]
      <3>1. r[1] # "_"
        BY <2>2, MarkIsNoWord
      <3>2. 1 \in DOMAIN r
        BY <1>8, <2>1
      <3> QED
        BY <3>1, <3>2 DEF Segment
    <2>4. r[1] = w
      BY <1>8, <2>3
    <2> HIDE DEF r
    <2>5. Len(r) = 1
      BY <1>8 DEF r
    <2>6. r = <<r[1]>>
      BY <2>1, <2>5
    <2> QED
      BY <2>4, <2>6 DEF r
  <1> QED
    BY <1>7, <1>9

-----------------------------------------------------------------------------
(* Capitals.                                                                 *)

EnvText == Seq(Small \cup {"_"})

\* Texts without capitals are told by their upper case.
LEMMA CapitalsApart ==
  ASSUME NEW t \in EnvText, NEW u \in EnvText, InCapitals(t) = InCapitals(u)
  PROVE  t = u
  <1>1. /\ t \in Seq(Small \cup {"_"}) /\ DOMAIN t = 1..Len(t) /\ Len(t) \in Nat
        /\ u \in Seq(Small \cup {"_"}) /\ DOMAIN u = 1..Len(u) /\ Len(u) \in Nat
        /\ \A i \in 1..Len(t) : t[i] \in Small \cup {"_"}
        /\ \A i \in 1..Len(u) : u[i] \in Small \cup {"_"}
    BY SeqFacts DEF EnvText
  <1>2. DOMAIN InCapitals(t) = 1..Len(t) /\ DOMAIN InCapitals(u) = 1..Len(u)
    BY <1>1 DEF InCapitals
  <1>3. Len(t) = Len(u)
    <2>1. 1..Len(t) = 1..Len(u)
      BY <1>2
    <2> QED
      BY <1>1, <2>1, SameLength
  <1>4. \A v, w \in Small \cup {"_"} : Capital[v] = Capital[w] => v = w
    BY DeriveAssumption
  <1>5. \A i \in 1..Len(t) : Capital[t[i]] = Capital[u[i]]
    <2> TAKE i \in 1..Len(t)
    <2>1. InCapitals(t)[i] = Capital[t[i]] /\ InCapitals(u)[i] = Capital[u[i]]
      BY <1>1, <1>3 DEF InCapitals
    <2> QED
      BY <2>1
  <1>6. \A i \in 1..Len(t) : t[i] = u[i]
    BY <1>1, <1>3, <1>4, <1>5
  <1> QED
    BY <1>1, <1>3, <1>6, SameText

\* The variable of a text under an app's name.
EnvName(app, t) == InCapitals(<<app, "_">> \o t)

\* What follows an app's name in a variable.
LEMMA EnvNames ==
  ASSUME NEW t \in EnvText, NEW app
  PROVE  /\ DOMAIN EnvName(app, t) = 1..Len(t) + 2
         /\ \A i \in 1..Len(t) : EnvName(app, t)[i + 2] = InCapitals(t)[i]
  <1> DEFINE W == Small \cup {"_", app}
             z == <<app, "_">> \o t
  <1>1. t \in Seq(W) /\ <<app, "_">> \in Seq(W)
    <2>1. Small \cup {"_"} \subseteq W /\ app \in W /\ "_" \in W
      OBVIOUS
    <2> HIDE DEF W
    <2>2. t \in Seq(W)
      BY <2>1, SeqFacts DEF EnvText
    <2>3. <<app, "_">> \in Seq(W)
      BY <2>1, PairOf
    <2> QED
      BY <2>2, <2>3
  <1> HIDE DEF W
  <1>2. z \in Seq(W) /\ Len(z) = Len(t) + 2 /\ \A i \in 1..Len(t) : z[i + 2] = t[i]
    <2>1. Len(<<app, "_">>) = 2
      OBVIOUS
    <2> DEFINE a == <<app, "_">>
    <2>2. a \in Seq(W) /\ Len(a) = 2 /\ z = a \o t
      BY <1>1, <2>1
    <2>3. t \in Seq(W)
      BY <1>1
    <2> HIDE DEF a, z
    <2>4. a \o t \in Seq(W) /\ Len(a \o t) = Len(t) + 2 /\ \A i \in 1..Len(t) : (a \o t)[i + 2] = t[i]
      BY ONLY <2>2, <2>3, AfterTwo
    <2> QED
      BY <2>2, <2>4, Zenon
  <1>3. DOMAIN z = 1..Len(t) + 2 /\ DOMAIN t = 1..Len(t) /\ Len(t) \in Nat
    <2> HIDE DEF z
    <2> QED
      BY <1>1, <1>2, SeqFacts
  <1> HIDE DEF z
  <1>4. \A i \in 1..Len(t) : i + 2 \in DOMAIN z /\ i \in DOMAIN t
    BY <1>3
  <1>5. InCapitals(z) = [i \in DOMAIN z |-> Capital[z[i]]]
    BY DEF InCapitals
  <1>6. \A i \in 1..Len(t) : InCapitals(z)[i + 2] = Capital[z[i + 2]] /\ InCapitals(t)[i] = Capital[t[i]]
    BY <1>4, <1>5 DEF InCapitals
  <1>7. DOMAIN InCapitals(z) = 1..Len(t) + 2
    BY <1>3, <1>5
  <1>8. EnvName(app, t) = InCapitals(z)
    BY DEF EnvName, z
  <1> QED
    BY <1>2, <1>6, <1>7, <1>8

\* Under one app's name, a text is told by its variable.
LEMMA EnvNamesApart ==
  ASSUME NEW t \in EnvText, NEW u \in EnvText, NEW app, EnvName(app, t) = EnvName(app, u)
  PROVE  t = u
  <1>1. /\ Len(t) \in Nat /\ DOMAIN t = 1..Len(t)
        /\ Len(u) \in Nat /\ DOMAIN u = 1..Len(u)
    BY SeqFacts DEF EnvText
  <1>2. Len(t) = Len(u)
    <2>1. 1..Len(t) + 2 = 1..Len(u) + 2
      BY EnvNames
    <2>2. Len(t) + 2 \in Nat /\ Len(u) + 2 \in Nat
      BY <1>1
    <2>3. Len(t) + 2 = Len(u) + 2
      BY <2>1, <2>2, SameLength
    <2> QED
      BY <1>1, <2>3, TwoMore
  <1>3. \A i \in 1..Len(t) : InCapitals(t)[i] = InCapitals(u)[i]
    BY <1>2, EnvNames
  <1>4. InCapitals(t) = InCapitals(u)
    BY <1>1, <1>2, <1>3 DEF InCapitals
  <1> QED
    BY <1>4, CapitalsApart

-----------------------------------------------------------------------------
(* The leaves of an accepted declaration are spelled apart.                  *)

AllPlain(prog) == \A s \in Struct : \A f \in FieldsOf(prog[s]) : PlainName(f.name)

OneRoot(prog) == \A s \in Struct \ {"root"} : prog[s].app = None

\* A plain name is a plain path.
LEMMA PathOfOne ==
  ASSUME NEW n \in FieldName, PlainName(n)
  PROVE  PlainPath(<<n>>)
  <1>1. <<n>> \in Seq(FieldName) /\ Len(<<n>>) = 1 /\ <<n>>[1] = n
    OBVIOUS
  <1> QED
    BY <1>1 DEF PlainPath

\* A plain name before a plain path is a plain path.
LEMMA PathOfMore ==
  ASSUME NEW n \in FieldName, PlainName(n), NEW p, PlainPath(p)
  PROVE  PlainPath(<<n>> \o p)
  <1> DEFINE z == <<n>> \o p
  <1>1. p \in Seq(FieldName) /\ Len(p) \in Nat \ {0} /\ \A i \in 1..Len(p) : PlainName(p[i])
    BY DEF PlainPath
  <1>2. <<n>> \in Seq(FieldName)
    OBVIOUS
  <1>3. /\ z \in Seq(FieldName) /\ Len(z) = Len(p) + 1
        /\ z[1] = n /\ \A i \in 1..Len(p) : z[i + 1] = p[i]
    BY <1>1, <1>2
  <1> HIDE DEF z
  <1>4. \A i \in 1..Len(z) : i = 1 \/ (i - 1 \in 1..Len(p) /\ i = (i - 1) + 1)
    BY <1>1, <1>3
  <1>5. \A i \in 1..Len(z) : PlainName(z[i])
    <2> TAKE i \in 1..Len(z)
    <2>1. CASE i = 1
      BY <1>3, <2>1
    <2>2. CASE i # 1
      <3> DEFINE j == i - 1
      <3>1. j \in 1..Len(p) /\ i = j + 1
        BY <1>4, <2>2
      <3> HIDE DEF j
      <3> QED
        BY <1>1, <1>3, <3>1
    <2> QED
      BY <2>1, <2>2
  <1>6. \A i \in 1..Len(z) : z[i] \in FieldName
    BY <1>3, SeqFacts
  <1>7. Len(z) \in Nat \ {0}
    BY <1>1, <1>3
  <1>8. PlainPath(z)
    BY <1>3, <1>5, <1>6, <1>7 DEF PlainPath
  <1> QED
    BY <1>8 DEF z

\* Leaves of plain names have plain paths.
LEMMA PathsArePlain ==
  ASSUME NEW prog, Compiles(prog), Sized(prog), AllPlain(prog)
  PROVE  \A s \in Struct : \A l \in LeavesIn(prog)[s] : PlainPath(l.path)
  <1> DEFINE part == {s \in Struct : \E l \in LeavesIn(prog)[s] : ~PlainPath(l.path)}
  <1> SUFFICES ASSUME part # {} PROVE FALSE
    OBVIOUS
  <1>1. PICK s \in part : InnerOf(prog[s]) \cap part = {}
    BY DEF Sized
  <1>2. PICK l \in LeavesIn(prog)[s] : ~PlainPath(l.path)
    OBVIOUS
  <1>3. PICK f : OwnLeaf(prog, s, f, l) \/ \E k : InnerLeaf(prog, s, f, l, k)
    BY <1>2, LeafComesFrom
  <1>4. f.name \in FieldName /\ PlainName(f.name)
    BY <1>3, FieldTyped DEF OwnLeaf, InnerLeaf, Compiles, AllPlain
  <1>5. CASE OwnLeaf(prog, s, f, l)
    <2>1. l.path = <<f.name>>
      BY <1>5 DEF OwnLeaf, LeafOf
    <2> QED
      BY <1>2, <1>4, <2>1, PathOfOne
  <1>6. ASSUME NEW k, InnerLeaf(prog, s, f, l, k) PROVE FALSE
    <2>1. PlainPath(k.path)
      BY <1>1, <1>6 DEF InnerLeaf
    <2>2. l.path = <<f.name>> \o k.path
      BY <1>4, <1>6, ChildTyped DEF InnerLeaf
    <2> QED
      BY <1>2, <1>4, <2>1, <2>2, PathOfMore
  <1> QED
    BY <1>3, <1>5, <1>6

\* With one root, the leaf that goes by DEPLOYMENT_TYPE is the root's own: a
\* root that were in a struct would be in itself.
LEMMA SharedIsTop ==
  ASSUME NEW prog, Compiles(prog), Sized(prog), OneRoot(prog)
  PROVE  \A l \in LeavesIn(prog)["root"] : l.shared => l.path = DeploymentPath
  <1> DEFINE Deep(s) == \E l \in LeavesIn(prog)[s] : l.shared /\ Len(l.path) # 1
             part == {s \in Struct : Deep(s)}
  <1>0. "root" \in Struct
    BY DeriveAssumption
  <1>1. \A s \in Struct : \A l, f : OwnLeaf(prog, s, f, l) /\ l.shared => s = "root" /\ l.path = DeploymentPath
    <2> SUFFICES ASSUME NEW s \in Struct, NEW l, NEW f, OwnLeaf(prog, s, f, l), l.shared
                 PROVE  s = "root" /\ l.path = DeploymentPath
      OBVIOUS
    <2>1. l = LeafOf(prog[s], f)
      BY DEF OwnLeaf
    <2>2. l.path = <<f.name>> /\ l.shared = IsDeployment(prog[s], f)
      BY <2>1 DEF LeafOf
    <2>3. prog[s].app # None /\ f.name = "deployment"
      BY <2>2 DEF IsDeployment
    <2> QED
      BY <2>2, <2>3 DEF OneRoot, DeploymentPath
  <1>2. \A s \in part : \E t \in InnerOf(prog[s]) : t \in part \cup {"root"}
    <2> SUFFICES ASSUME NEW s \in part PROVE \E t \in InnerOf(prog[s]) : t \in part \cup {"root"}
      OBVIOUS
    <2>1. PICK l \in LeavesIn(prog)[s] : l.shared /\ Len(l.path) # 1
      OBVIOUS
    <2>2. PICK f : OwnLeaf(prog, s, f, l) \/ \E k : InnerLeaf(prog, s, f, l, k)
      BY <2>1, LeafComesFrom
    <2>3. PICK k : InnerLeaf(prog, s, f, l, k)
      BY <2>1, <2>2, OwnPath
    <2>4. k.shared /\ f.inner \in Struct /\ f.inner \in InnerOf(prog[s]) /\ k \in LeavesIn(prog)[f.inner]
      <3>1. f.name \in FieldName
        BY <2>3, FieldTyped DEF InnerLeaf, Compiles
      <3>2. k \in Leaf /\ l = Child(f.name, k)
        BY <2>3 DEF InnerLeaf
      <3>3. Child(f.name, k).shared = k.shared
        BY <3>2, ChildShared
      <3>4. l.shared = k.shared
        BY <3>2, <3>3
      <3> QED
        BY <2>1, <2>3, <3>4 DEF InnerLeaf
    <2>5. CASE Len(k.path) # 1
      BY <2>4, <2>5
    <2>6. CASE Len(k.path) = 1
      <3>1. PICK g : OwnLeaf(prog, f.inner, g, k) \/ \E m : InnerLeaf(prog, f.inner, g, k, m)
        BY <2>4, LeafComesFrom
      <3>2. CASE OwnLeaf(prog, f.inner, g, k)
        BY <1>1, <2>4, <3>2
      <3>3. ASSUME NEW m, InnerLeaf(prog, f.inner, g, k, m) PROVE FALSE
        <4>1. Len(m.path) \in Nat \ {0} /\ Len(k.path) = Len(m.path) + 1
          BY <2>4, <3>3, InnerPath, LeavesCanBeMet DEF InnerLeaf, LeafOK
        <4> QED
          BY <2>6, <4>1, NoMore
      <3> QED
        BY <3>1, <3>2, <3>3
    <2> QED
      BY <2>5, <2>6
  <1>3. "root" \notin part
    <2> SUFFICES ASSUME "root" \in part PROVE FALSE
      OBVIOUS
    <2>1. PICK s \in part : InnerOf(prog[s]) \cap part = {}
      BY DEF Sized
    <2> HIDE DEF part
    <2> QED
      BY <1>2, <2>1
  <1>4. SUFFICES ASSUME NEW l \in LeavesIn(prog)["root"], l.shared PROVE l.path = DeploymentPath
    OBVIOUS
  <1>5. Len(l.path) = 1
    BY <1>0, <1>3, <1>4
  <1>6. PICK f : OwnLeaf(prog, "root", f, l) \/ \E k : InnerLeaf(prog, "root", f, l, k)
    BY <1>0, <1>4, LeafComesFrom
  <1>7. CASE OwnLeaf(prog, "root", f, l)
    BY <1>0, <1>1, <1>4, <1>7
  <1>8. ASSUME NEW k, InnerLeaf(prog, "root", f, l, k) PROVE FALSE
    <2>1. Len(k.path) \in Nat \ {0} /\ Len(l.path) = Len(k.path) + 1
      BY <1>0, <1>8, InnerPath, LeavesCanBeMet DEF InnerLeaf, LeafOK
    <2> QED
      BY <1>5, <2>1, NoMore
  <1> QED
    BY <1>6, <1>7, <1>8

DeploymentType == <<"DEPLOYMENT", "_", "TYPE">>

\* A variable is DEPLOYMENT_TYPE only for a text of one word that capitals make TYPE.
LEMMA TypeName ==
  ASSUME NEW t \in EnvText, NEW app, EnvName(app, t) = DeploymentType
  PROVE  t = <<t[1]>> /\ Capital[t[1]] = "TYPE"
  <1>0. t \in Seq(Small \cup {"_"})
    BY DEF EnvText
  <1>1. Len(t) \in Nat /\ DOMAIN t = 1..Len(t)
    BY <1>0, SeqFacts
  <1>2. Len(t) = 1
    <2>1. DOMAIN DeploymentType = 1..3
      BY ThreeOf DEF DeploymentType
    <2>2. 1..Len(t) + 2 = 1..3
      BY <2>1, EnvNames
    <2>3. Len(t) + 2 \in Nat /\ 3 \in Nat
      BY <1>1
    <2>4. Len(t) + 2 = 3
      BY <2>2, <2>3, SameLength
    <2>5. 3 = 1 + 2 /\ 1 \in Nat
      OBVIOUS
    <2> QED
      BY <1>1, <2>4, <2>5, TwoMore
  <1>3. EnvName(app, t)[3] = InCapitals(t)[1]
    <2>1. 1 \in 1..Len(t) /\ 1 + 2 = 3
      BY <1>2
    <2> QED
      BY <2>1, EnvNames
  <1>4. InCapitals(t)[1] = Capital[t[1]]
    <2>1. 1 \in DOMAIN t
      BY <1>0, <1>2, OneOf
    <2> QED
      BY <2>1 DEF InCapitals
  <1>5. DeploymentType[3] = "TYPE"
    BY ThreeOf DEF DeploymentType
  <1>6. t = <<t[1]>>
    BY <1>0, <1>2, OneOf
  <1> QED
    BY <1>3, <1>4, <1>5, <1>6

LEMMA InOneCapital == ASSUME NEW w PROVE InCapitals(<<w>>) = <<Capital[w]>>
  BY DEF InCapitals

LEMMA OneEnvWord ==
  ASSUME NEW p, PlainPath(p), NEW w, Joined(p, "_") = <<w>>
  PROVE  p[1] \in FieldName /\ PlainName(p[1]) /\ Parts[p[1]] = <<w>>
  BY OneWord DEF Marks

\* No plain path has it: `type` is a keyword.
LEMMA TypeIsKept ==
  ASSUME NEW p, PlainPath(p), NEW app
  PROVE  EnvName(app, Joined(p, "_")) # DeploymentType
  <1> SUFFICES ASSUME EnvName(app, Joined(p, "_")) = DeploymentType PROVE FALSE
    OBVIOUS
  <1> DEFINE t == Joined(p, "_")
  <1>0. "_" \in Marks
    BY DEF Marks
  <1>1. t \in EnvText
    BY <1>0, JoinedTyped DEF EnvText
  <1>2. t = <<t[1]>> /\ Capital[t[1]] = "TYPE"
    <2> HIDE DEF t
    <2>1. EnvName(app, t) = DeploymentType
      BY DEF t
    <2> QED
      BY <1>1, <2>1, TypeName
  <1> DEFINE w == t[1]
             n == p[1]
  <1>3. n \in FieldName /\ PlainName(n) /\ Parts[n] = <<w>>
    <2>1. Joined(p, "_") = <<w>>
      BY <1>2
    <2> HIDE DEF w, t
    <2> QED
      BY <2>1, OneEnvWord
  <1>4. InCapitals(Parts[n]) = <<"TYPE">>
    <2>1. Capital[w] = "TYPE"
      BY <1>2
    <2> HIDE DEF w, n
    <2> QED
      BY <1>3, <2>1, InOneCapital
  <1> HIDE DEF w, n
  <1> QED
    BY <1>3, <1>4, DeriveAssumption

\* The load's own variable is that of the text of one word.
LEMMA ConfigName ==
  ASSUME NEW app
  PROVE  InCapitals(<<app, "_", "config">>) = EnvName(app, <<"config">>) /\ <<"config">> \in EnvText
  <1>1. <<app, "_">> \o <<"config">> = <<app, "_", "config">>
    BY ThreeTogether
  <1>2. "config" \in Small \cup {"_"}
    BY DeriveAssumption
  <1>3. <<"config">> \in Seq(Small \cup {"_"})
    BY <1>2
  <1> QED
    BY <1>1, <1>3 DEF EnvName, EnvText

\* It is not DEPLOYMENT_TYPE.
LEMMA ConfigNoType ==
  ASSUME NEW app PROVE EnvName(app, <<"config">>) # DeploymentType
  <1> SUFFICES ASSUME EnvName(app, <<"config">>) = DeploymentType PROVE FALSE
    OBVIOUS
  <1>1. Capital[<<"config">>[1]] = "TYPE"
    BY ConfigName, TypeName
  <1>2. <<"config">>[1] = "config" /\ Capital["config"] = "CONFIG"
    BY DeriveAssumption
  <1> QED
    BY <1>1, <1>2

\* The leaf that had the variable of the load's own --config would have the flag.
LEMMA ConfigFlag ==
  ASSUME NEW p, PlainPath(p), Joined(p, "_") = <<"config">>
  PROVE  Joined(p, "-") = <<"config">>
  <1> DEFINE n == p[1]
  <1>1. p = <<n>> /\ n \in FieldName /\ PlainName(n) /\ Parts[n] = <<"config">>
    BY OneWord DEF Marks
  <1> HIDE DEF n
  <1>2. Segment(n, "-") = <<"config">>
    <2>1. DOMAIN Parts[n] = 1..1 /\ Parts[n][1] = "config"
      BY <1>1, LengthOfOne
    <2>2. \A i \in 1..1 : Parts[n][i] = "config"
      BY <2>1, JustOne
    <2>3. Segment(n, "-") = [i \in 1..1 |-> "config"]
      BY <2>1, <2>2 DEF Segment
    <2> QED
      BY <2>3, FunctionOfOne
  <1>3. Len(p) = 1 /\ p[1] = n
    BY <1>1, LengthOfOne
  <1>4. Joined(p, "-") = Before(p, "-", 1) \o Segment(n, "-")
    <2>1. 1 \in 1..Len(p) /\ "-" \in Marks
      BY <1>3, JustOne DEF Marks
    <2>2. JoinedUpTo(p, "-")[1] = Before(p, "-", 1) \o Segment(p[1], "-")
      BY <2>1, JoinedAt
    <2> QED
      BY <1>3, <2>2 DEF Joined
  <1>5. Before(p, "-", 1) = <<>>
    BY DEF Before
  <1>6. <<>> \o <<"config">> = <<"config">>
    BY NothingAhead
  <1> QED
    BY <1>2, <1>4, <1>5, <1>6

\* Under one app's name, a plain path is told by its variable.
LEMMA EnvsApart ==
  ASSUME NEW p, PlainPath(p), NEW q, PlainPath(q), NEW app,
         EnvName(app, Joined(p, "_")) = EnvName(app, Joined(q, "_"))
  PROVE  p = q
  <1>1. "_" \in Marks
    BY DEF Marks
  <1>2. Joined(p, "_") \in EnvText /\ Joined(q, "_") \in EnvText
    BY <1>1, JoinedTyped DEF EnvText
  <1>3. Joined(p, "_") = Joined(q, "_")
    BY <1>2, EnvNamesApart
  <1> QED
    BY <1>1, <1>3, PathsRead

LEMMA EnvOfLeaf ==
  ASSUME NEW l, NEW app
  PROVE  EnvOf(l, app) = IF l.shared THEN DeploymentType ELSE EnvName(app, Joined(l.path, "_"))
  BY DEF EnvOf, EnvName, DeploymentType

OwnFlags(L) == \A l \in L : FlagOf(l) \notin BuiltinFlags

SpelledApart(L, app) ==
  /\ \A l, k \in L : FlagOf(l) = FlagOf(k) \/ EnvOf(l, app) = EnvOf(k, app) => l = k
  /\ \A l \in L : EnvOf(l, app) # InCapitals(<<app, "_", "config">>)

\* The leaves of one accepted program of plain names and one root.
LEMMA LeavesSpelledApart ==
  ASSUME NEW prog \in Program, Accepted(prog), AllPlain(prog), OneRoot(prog), NEW app,
         OwnFlags(LeavesIn(prog)["root"])
  PROVE  SpelledApart(LeavesIn(prog)["root"], app)
  <1> DEFINE L == LeavesIn(prog)["root"]
  <1>1. Compiles(prog) /\ Sized(prog) /\ "root" \in Struct
    BY DeriveAssumption DEF Accepted, Compiles, Program
  <1>2. \A l \in L : PlainPath(l.path)
    BY <1>1, PathsArePlain
  <1>3. \A l, k \in L : l.path = k.path => l = k
    BY <1>1, PathsApart
  <1>4. \A l \in L : l.shared => l.path = DeploymentPath
    BY <1>1, SharedIsTop
  <1>5. \A l, k \in L : FlagOf(l) = FlagOf(k) => l = k
    <2> SUFFICES ASSUME NEW l \in L, NEW k \in L, FlagOf(l) = FlagOf(k) PROVE l.path = k.path
      BY <1>3
    <2>1. "-" \in Marks
      BY DEF Marks
    <2> QED
      BY <1>2, <2>1, PathsRead DEF FlagOf
  <1>6. \A l, k \in L : EnvOf(l, app) = EnvOf(k, app) => l = k
    <2> SUFFICES ASSUME NEW l \in L, NEW k \in L, EnvOf(l, app) = EnvOf(k, app)
                 PROVE  l.path = k.path
      BY <1>3
    <2>1. CASE l.shared /\ k.shared
      BY <1>4, <2>1
    <2>2. CASE l.shared /\ ~k.shared
      <3>1. EnvName(app, Joined(k.path, "_")) = DeploymentType
        BY <2>2, EnvOfLeaf
      <3> QED
        BY <1>2, <3>1, TypeIsKept
    <2>3. CASE ~l.shared /\ k.shared
      <3>1. EnvName(app, Joined(l.path, "_")) = DeploymentType
        BY <2>3, EnvOfLeaf
      <3> QED
        BY <1>2, <3>1, TypeIsKept
    <2>4. CASE ~l.shared /\ ~k.shared
      <3>1. EnvName(app, Joined(l.path, "_")) = EnvName(app, Joined(k.path, "_"))
        BY <2>4, EnvOfLeaf
      <3> QED
        BY <1>2, <3>1, EnvsApart
    <2> QED
      BY <2>1, <2>2, <2>3, <2>4
  <1>7. \A l \in L : EnvOf(l, app) # InCapitals(<<app, "_", "config">>)
    <2> SUFFICES ASSUME NEW l \in L, EnvOf(l, app) = EnvName(app, <<"config">>) PROVE FALSE
      BY ConfigName
    <2>1. CASE l.shared
      <3>1. EnvName(app, <<"config">>) = DeploymentType
        BY <2>1, EnvOfLeaf
      <3> QED
        BY <3>1, ConfigNoType
    <2>2. CASE ~l.shared
      <3>1. EnvName(app, Joined(l.path, "_")) = EnvName(app, <<"config">>)
        BY <2>2, EnvOfLeaf
      <3>2. PlainPath(l.path)
        BY <1>2
      <3>3. Joined(l.path, "_") \in EnvText /\ <<"config">> \in EnvText
        BY <3>2, JoinedTyped, ConfigName DEF EnvText, Marks
      <3>4. Joined(l.path, "_") = <<"config">>
        BY <3>1, <3>3, EnvNamesApart
      <3>5. FlagOf(l) = <<"config">>
        BY <3>2, <3>4, ConfigFlag DEF FlagOf
      <3> QED
        BY <3>5 DEF BuiltinFlags, OwnFlags
    <2> QED
      BY <2>1, <2>2
  <1> HIDE DEF L
  <1>8. SpelledApart(L, app)
    BY <1>5, <1>6, <1>7 DEF SpelledApart
  <1> QED
    BY <1>8 DEF L

\* For any declaration that compiles, of plain names, one root and no leaf with a
\* flag of the load, however deep: what path.rs and schema.rs join is read back in
\* one way, so no two leaves have a flag or a variable in common, and none has the
\* variable that names the file.
THEOREM AllSpelledApart == ServiceSpec => []SpellingsApart
  <1>1. ASSUME CompiledOK PROVE SpellingsApart
    <2> DEFINE app == program["root"].app
    <2>1. ASSUME Built, AllPlain(program), OneRoot(program), OwnFlags(compiled)
          PROVE  SpelledApart(compiled, app)
      <3>1. program \in Program /\ Accepted(program) /\ compiled = LeavesIn(program)["root"]
        BY <1>1, <2>1, BuiltIsAccepted
      <3> HIDE DEF app
      <3>2. OwnFlags(LeavesIn(program)["root"])
        BY <2>1, <3>1
      <3>3. SpelledApart(LeavesIn(program)["root"], app)
        BY <2>1, <3>1, <3>2, LeavesSpelledApart
      <3> QED
        BY <3>1, <3>3
    <2> QED
      BY <2>1 DEF SpellingsApart, AllPlain, OneRoot, OwnFlags, SpelledApart, BuiltinEnv
  <1> QED
    BY <1>1, CompiledAlways, PTL
=============================================================================
