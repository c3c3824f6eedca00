----------------------------- MODULE MCSessions -----------------------------
(* Instances of Sessions for TLC.                                          *)
EXTENDS Sessions, TLC

CONSTANTS phone, laptop, alice, r1, r2, r3

Symmetry == Permutations(Browsers) \union Permutations(Requests)
=============================================================================
