---------------------------- MODULE MCVringKick ----------------------------
(* VringKick for TLC: two requests are enough for one to be published     *)
(* while the other is being dispatched.                                    *)
EXTENDS VringKick
=============================================================================
