-------------------------- MODULE MCGstShmdataSink -------------------------
(* GstShmdataSink for TLC: the bounds are in the .cfg file.                *)
EXTENDS GstShmdataSink
=============================================================================
