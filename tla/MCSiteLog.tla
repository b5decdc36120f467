----------------------------- MODULE MCSiteLog ------------------------------
(***************************************************************************)
(* One site, four changes: enough for a compaction with records on either  *)
(* side of it, a power loss, a clear and a log that starts again.          *)
(***************************************************************************)
EXTENDS SiteLog
=============================================================================
