------------------------------- MODULE MCEffects --------------------------------
(***************************************************************************)
(* A small instance of Effects for TLC: two elements.                      *)
(***************************************************************************)
EXTENDS Effects

CONSTANTS e1, e2

MCElements == {e1, e2}

===============================================================================
