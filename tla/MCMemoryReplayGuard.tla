------------------------ MODULE MCMemoryReplayGuard ------------------------
(* Model-checking instance of MemoryReplayGuard. *)
EXTENDS MemoryReplayGuard
=============================================================================
