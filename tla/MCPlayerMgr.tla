---------------------------- MODULE MCPlayerMgr ----------------------------
(* PlayerMgr with one database proxy and one account. *)
EXTENDS PlayerMgr
=============================================================================
