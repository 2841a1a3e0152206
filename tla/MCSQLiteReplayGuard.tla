------------------------- MODULE MCSQLiteReplayGuard -------------------------
(* Model-checking instance of SQLiteReplayGuard. *)
EXTENDS SQLiteReplayGuard
=============================================================================
