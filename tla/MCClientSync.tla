---------------------------- MODULE MCClientSync ----------------------------
(* ClientSync for TLC: one key the loop subscribes, one that views do.      *)
EXTENDS ClientSync

CONSTANTS a, v

OneStanding == <<a>>
=============================================================================
