----------------------------- MODULE MCLifecycle -----------------------------
(***************************************************************************)
(* Small instances of Lifecycle: two servers, one of which may succeed     *)
(* the other, and the ask command, over a file that is new, of version 1 or current.  *)
(***************************************************************************)
EXTENDS Lifecycle, TLC

CONSTANTS s1, s2, c1, t1, t2

TwoServers == {s1, s2}
OneCommand == {c1}
MCTurns == {t1, t2}
MCSchemas == {EmptySchema, OldSchema, NewSchema}
=============================================================================
