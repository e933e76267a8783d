----------------------------- MODULE MCSysVSem -----------------------------
(* SysVSem for TLC: the readers and the timing are in the .cfg files.      *)
EXTENDS SysVSem
=============================================================================
