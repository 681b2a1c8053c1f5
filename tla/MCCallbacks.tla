---------------------------- MODULE MCCallbacks ----------------------------
(* One object with one event and one schedule name: enough for walks that    *)
(* nest over one list and for a name that is removed and added again.        *)
EXTENDS Callbacks
MCCount == {-1, 0, 2}
=============================================================================
