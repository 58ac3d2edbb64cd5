------------------------- MODULE MCRequestDispatcher -------------------------
(* Four commands: s is batched separately (as fetchnodes is), v and w are  *)
(* v3 commands whose replies may be seqtags, p is a plain command.         *)
EXTENDS RequestDispatcher

CONSTANTS s, v, w, p

MCCmds == {s, v, w, p}
MCBatchSeparate == {s}
MCV3Cmds == {v, w}
=============================================================================
