\* The parser against the language, and the processes that run a line.
SPECIFICATION Spec
CONSTANTS
  MAXARGS = 3
  Lines <- TypedLines
  None = None
INVARIANTS
  ParsesTheLanguage
  ProgramsGetTheirEnds
PROPERTY LineEnds
CHECK_DEADLOCK FALSE
