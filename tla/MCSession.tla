------------------------------- MODULE MCSession -------------------------------
(***************************************************************************)
(* Session with the symmetry of its streams: nothing tells two streams of  *)
(* one endpoint apart before they are given their ids.                     *)
(***************************************************************************)
EXTENDS Session, TLC

Symmetry == Permutations(Locals) \cup Permutations(Remotes)
================================================================================
