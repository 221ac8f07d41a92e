CONSTANTS
  e1 = e1
  e2 = e2
  e3 = e3
  Env <- MCEnv
  Creator = e1
  May <- MCMay
  MAXFD = 3
  PIPEBUFSIZ = 2
  NCPU = 1
  NByte = 2
  MaxBytes = 4
  Nil = Nil
CHECK_DEADLOCK FALSE
SPECIFICATION Spec
 
PROPERTIES  PipeIsStream
