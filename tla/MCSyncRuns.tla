----------------------------- MODULE MCSyncRuns -----------------------------
(* Small instances of SyncRuns. *)
EXTENDS SyncRuns
============================================================================
