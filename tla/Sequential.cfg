SPECIFICATION OneByOne
CONSTANTS
  Versions = {1, 2, 3}
  Names = {2, 3}
  MaxUpdates = 3
  Printable = {"a", "b"}
  Blank = " "
  MaxLine = 3
  HistMax = 2
  MaxDepth = 2
  MaxPar = 2
  Alphabet <- Parts
  Chars <- ReplyChars
  Tag <- SomeTag
  NameKey = "N"
  ContentKey = "C"
  Hold = 3
  CallNames = {"read_file", "write_file", "agent", "question", "screenshot", "final", "nothing", ""}
  CallArgs <- SomeArgs
  Texts <- SomeTexts
  Counts <- SomeCounts
  Numbers <- NumberOf
  Word <- WordOf
  Worlds <- SomeWorlds
  VerbMax = 3
  FilesMax = 2
  StatHist = 2
  ListMax = 2
  Builtin <- SomeCommands
  NameChars = {"x", "y"}
  Safe <- SessionChars
  Lower <- InLower
  Devices <- SomeDevices
  LineChars <- SomeLineChars
  CustomSets <- OneCustomSet
  FileSets <- OneFileSet
  Arguments <- SomeArguments
  SessionNames <- SomeNames
  ModelLists <- SomeModels
  Context = 1
  DiffMax = 4
  Searches <- SomeSearches
  Replacements <- SomeReplacements
  FileChars <- SomeFileChars
  Rewrites <- SomeRewrites
INVARIANTS  TellsTheTruth ScreenShowsTheLine ReplyIsShown  CallsAreUnderstood EditsAreExact PathsStayInside   
CHECK_DEADLOCK FALSE
