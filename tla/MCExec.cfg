CONSTANTS
  Starts <- MCStarts
  Code <- MCCode
  Private <- MCPrivate
  Garbage <- MCGarbage
  UnitValue = {}
  MEM_LIMIT <- MCMemLimit
  Readable = {}
  Writable = {}
SPECIFICATION ExecSpec
CHECK_DEADLOCK FALSE
INVARIANT
  StackKept
PROPERTIES
  ProgramRuns
  UserConfined
  Disciplined
