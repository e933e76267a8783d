---------------------------- MODULE MCUnixSocket ----------------------------
(* UnixSocket with model values for the clients (see the .cfg files).      *)
EXTENDS UnixSocket
=============================================================================
