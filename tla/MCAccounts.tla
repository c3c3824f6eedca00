----------------------------- MODULE MCAccounts -----------------------------
(* Instances of Accounts for TLC.                                          *)
EXTENDS Accounts, TLC

CONSTANTS phone, laptop, r1, r2, r3, anna, anna2, bea, nobody

Claims(sub, email, verified) == [sub |-> sub, email |-> email, verified |-> verified]

\* Anna, for whom a row was seeded, with the `sub` of two realms; Bea, who has
\* not confirmed her address; and Anna once she has taken Bea's address.
MCIdentities ==
    {Claims(anna, "anna@", TRUE), Claims(anna2, "anna@", TRUE),
     Claims(bea, "bea@", FALSE), Claims(anna, "bea@", TRUE)}

MCSeed == <<[sub |-> nobody, email |-> "anna@", deleted |-> FALSE]>>

Symmetry == Permutations(Browsers) \union Permutations(Requests)
=============================================================================
