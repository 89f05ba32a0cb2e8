------------------------------- MODULE MCEstate -------------------------------
(***************************************************************************)
(* Estate with its third upset bounded: a server that redials before the   *)
(* global server has noticed the end of its old link does so within two.   *)
(***************************************************************************)
EXTENDS Estate

InBounds ==
  \A l \in globalEnd : l[2] < dialed[l[1]] => upsets < MaxUpsets

MCEstateSpec ==
  EstateInit /\ [][EstateNext /\ InBounds']_estateVars /\ Fairness /\ DataFairness
===============================================================================
