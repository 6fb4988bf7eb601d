--------------------------- MODULE MCContextGuard ---------------------------
(* ContextGuard with one thread: the log is read for one thread at a time. *)
EXTENDS ContextGuard

CONSTANT t1
=============================================================================
