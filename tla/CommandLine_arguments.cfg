\* The options of the server; up to four arguments.
CONSTANTS
  Parsers <- MCParsers
  CommandLines <- MCCommandLines
  Reads <- MCReads
  Help = "help"
  HelpLetter = "?"
  NoLetter = NoLetter
  NoText = NoText
  IntMax = 99
SPECIFICATION Spec
INVARIANTS TypeOK OutcomeFits LastValueCounts RunsConfigured
CHECK_DEADLOCK FALSE
