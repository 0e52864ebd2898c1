----------------------------- MODULE MCWILGraph -----------------------------
(***************************************************************************)
(* Small graphs for TLC: three nodes, and two with more slots and failing  *)
(* allocations.                                                            *)
(***************************************************************************)
EXTENDS WILGraph

MCScenarios ==
  {[oom |-> FALSE, nodes |-> 3, slots |-> 2], [oom |-> TRUE, nodes |-> 2, slots |-> 3]}
=============================================================================
