------------------------------ MODULE MCService ------------------------------
(***************************************************************************)
(* ServiceRunner with its last upset kept for the delayed schedule, whose  *)
(* tasks wait before they first look at their token.  Clients differ in    *)
(* nothing but their name, so that the first upset, if a call, is taken to *)
(* be that of the same one.                                                *)
(***************************************************************************)
EXTENDS ServiceRunner

FirstClient == CHOOSE c \in Clients : TRUE

InBounds ==
  /\ upsets = MaxUpsets => schedule = "delayed"
  /\ upsets = 1 => \A c \in Clients \ {FirstClient} : ~InCall(c)

MCServiceSpec ==
  ServiceInit /\ [][ServiceNext /\ InBounds']_serviceVars /\ ServiceFairness
===============================================================================
