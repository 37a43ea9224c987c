---------------------------- MODULE MCWorktrees ----------------------------
(* Small instances of WorktreeSync for TLC: branch b is named after a path  *)
(* in branch a's, as in release and release/next.                           *)
EXTENDS WorktreeSync, TLC

CONSTANTS a, b, c, g1, g2

OneInAnother == {<<b, a>>}
Lexical == <<a, b, c>>
=============================================================================
