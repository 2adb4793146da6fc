---------------------------- MODULE MCSyncHeight ----------------------------
(* SyncHeight for TLC: every constant gets its value in the .cfg. *)
EXTENDS SyncHeight
=============================================================================
