-------------------------- MODULE MCGstShmdataSrc --------------------------
(* GstShmdataSrc for TLC: an instance with bounded frames and connections. *)
EXTENDS GstShmdataSrc
=============================================================================
