SPECIFICATION MCBootSpec
CONSTANTS
  Field = {"deployment", "auth.key", "open"}
  Deployment = "deployment"
  Switch = {"open"}
  Required = {"deployment"}
  ProdRequired = {"auth.key"}
  DevOnly = {"open"}
  Default <- MCDefault
  Valid <- MCValid
  On = {"true"}
  Off = {"false"}
  Text = {"prod", "dev", "true", "false", "x"}
  AppCaps = TRUE
  MaxArgs = 3
  None = None
  Designator = {"startup", "auth"}
  Target = {"app", "sqlx"}
  Environment <- MCEnvironment
  Blank = Blank
  Malformed = Malformed
  NotUnicode = NotUnicode
  Struct = {"root", "one", "two"}
  FieldName = {"deployment", "auth", "key", "open", "a", "b", "a_b", "b_a", "config"}
  Parts <- MCParts
  Small <- MCSmall
  Capital <- MCCapital
  AppName = {"SVC", "svc"}
  DefaultText = {"false", "true"}
  Own <- MCOwn
  Programs <- MCPrograms
INVARIANTS
  HighestSourceWins
  EndsAsTheInputsSay
  LinesAsNamed
  StartsOnlyWhenAllIsValid
  DerivedIsAdmitted
  SpellingsApart
CHECK_DEADLOCK FALSE
