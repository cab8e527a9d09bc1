CONSTANTS
  None = None
  Missing = Missing
  NoTwilight = NoTwilight
  Anywhere = Anywhere
  Irises = {"Iris", "IrisMinToMax", "IrisMaxToMin"}
  FieldOf <- MCFieldOf
  IdentOf <- MCIdentOf
  TypeNameOf <- MCTypeNameOf
  UniverseSlots = 6
  DigitWords = {"1st", "1k"}
  Cities <- MCCities
  Instants <- MCInstants
  Offset <- MCOffset
  DayLength = 6
  Dusk <- MCDusk
  Dawn <- MCDawn
  Inputs <- MCInputs
SPECIFICATION Spec
INVARIANT VerdictIsRight OneAddressing StopIsHarmless DarkIsDark
CHECK_DEADLOCK FALSE
