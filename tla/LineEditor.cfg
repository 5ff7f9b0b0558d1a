CONSTANTS
  HIST_SIZE = 2
  LINE_MAX = 4
  Chars = {"a", " "}
  Blanks = {" "}
  MAXARGS = 2
  MaxCommands = 4
SPECIFICATION Spec
INVARIANTS
  HistoryIsTheLastLines
PROPERTIES
  ArrowsShowTheLine
  ArgumentsAreTheWords
