--------------------------- MODULE MCUploadManager --------------------------
(***************************************************************************)
(* Two calls of start_upload beside a user who stops, seeks or shuts down.  *)
(***************************************************************************)
EXTENDS UploadManager

CONSTANTS first, second
=============================================================================
