------------------------------- MODULE MCPipe -------------------------------
(* Model checking of Pipe: a writer that forks, a reader, and a third one  *)
(* that duplicates its descriptors.                                        *)
EXTENDS Pipe

CONSTANTS e1, e2, e3

MCEnv == {e1, e2, e3}
MCMay == {<<e1, "write">>, <<e1, "fork">>, <<e1, "exit">>,
          <<e2, "close">>, <<e2, "read">>, <<e2, "exit">>,
          <<e3, "dup">>, <<e3, "exit">>}
=============================================================================
