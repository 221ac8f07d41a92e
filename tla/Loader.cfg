CONSTANTS
  PGSIZE = 2
  NPROGPAGE = 5
  NFD = 3
  Program <- MCProgram
  MaxCalls = 3
SPECIFICATION Spec
INVARIANTS ProgramsIntact NothingLeftOver
CHECK_DEADLOCK FALSE
