---------------------------- MODULE MCFileServer ----------------------------
EXTENDS FileServer

CONSTANTS c1, c2

Command == <<"motd", "script">>
BootedSizes == <<5, 0>>

(* The second client is forked by the first, or by nobody.                 *)
Calls == {<<c1, "open">>, <<c1, "read">>, <<c1, "stat">>, <<c1, "flush">>,
          <<c2, "read">>}
=============================================================================
