---------------------------- MODULE MCRegistry ----------------------------
(* Registry on a small instance, whose servers, and whose requests, are    *)
(* interchangeable.                                                        *)
EXTENDS Registry, TLC

Symmetry == Permutations(Id) \cup Permutations(Call)
=============================================================================
