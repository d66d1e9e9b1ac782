------------------------------- MODULE MCDeferred -------------------------------
(***************************************************************************)
(* Small instances of Deferred for TLC: a list by itself with each set of  *)
(* options that matters, or two deferreds.                                 *)
(***************************************************************************)
EXTENDS Deferred

MCPlainOptions ==
  {{}, {"once"}, {"memory"}, {"unique"}, {"stopOnFalse"}, {"once", "memory"},
   {"memory", "stopOnFalse"}, {"memory", "unique"}}

===============================================================================
