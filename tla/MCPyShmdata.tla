---------------------------- MODULE MCPyShmdata ----------------------------
(* PyShmdata for TLC: the bounds are in the .cfg file.                     *)
EXTENDS PyShmdata
=============================================================================
