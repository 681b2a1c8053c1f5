---------------------------- MODULE MCNetServer ----------------------------
(* Two descriptors for three connections of two messages, one object.       *)
EXTENDS NetServer
=============================================================================
