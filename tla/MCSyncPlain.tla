----------------------------- MODULE MCSyncPlain ----------------------------
(***************************************************************************)
(* The instances in which no path is given with a separator at its end.    *)
(***************************************************************************)
EXTENDS MCSyncCopy, SyncCopyPlain
=============================================================================
