----------------------------- MODULE MCSessions -----------------------------
(* Sessions with two clients of any kinds.  No definition chooses a client, a *)
(* path or a line by its name.                                                *)
EXTENDS Sessions, TLC

Symmetry == Permutations(Client) \cup Permutations(Path) \cup Permutations(Line)
=============================================================================
