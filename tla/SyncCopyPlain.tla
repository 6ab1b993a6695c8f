--------------------------- MODULE SyncCopyPlain ----------------------------
(***************************************************************************)
(* Copy with paths that are given without a separator at the end, so that *)
(* the prefix that is cut off is the one the listing has.                  *)
(***************************************************************************)
EXTENDS SyncCopyProps

ASSUME PlainPaths == InputSlash = {} /\ OutputSlash = {}
=============================================================================
