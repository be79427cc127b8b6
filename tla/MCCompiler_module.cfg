SPECIFICATION CSpec
CONSTANTS
  EMPTY = ""
  Strings <- AllStrings
  StrLen <- Lengths
  HashOf <- Hashes
  Codes <- Nop
  Plain <- Plains
  DefaultRoom <- Room
  INIT_SLOT_COUNT = 1
  MaxNested = 2
  Names = {}
  Externals <- OneImport
  Rooms = {}
  LocalVars = {}
  MaxItems = 3
  Symbols = {"x", "l"}
  Functions <- OneFunction
  SymbolOf <- Names_
  Literals <- SomeLiterals
  Signatures <- Sigs
  File = "m"
  MaxBody = 4
INVARIANTS
  CompilerTypeOK
  CodeMeansSource
  OnlyErrorsAreRejected
CHECK_DEADLOCK FALSE
