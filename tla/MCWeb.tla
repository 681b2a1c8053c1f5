------------------------------- MODULE MCWeb -------------------------------
(* Three requests: one may be refused, one may be resumed for want of an    *)
(* answer and the third take its place.                                     *)
EXTENDS Web
=============================================================================
