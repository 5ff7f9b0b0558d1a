CONSTANTS
  HIST_SIZE = 2
  LINE_MAX = 3
  Chars = {"a", "lf"}
  Blanks = {"lf"}
  MAXARGS = 2
  MaxCommands = 2
  Capacity = 3
SPECIFICATION ConsoleSpec
INVARIANT OnlyEnterRunsTheLine
