----------------------------- MODULE MCFollower -----------------------------
(* Follower for TLC: the bounds are in the .cfg files.                     *)
EXTENDS Follower
=============================================================================
