------------------------------- MODULE MCPages -------------------------------
(* An instance of Pages for TLC.                                           *)
EXTENDS Pages

CONSTANTS me, omitted, null

MCCatalog == [fiat |-> {"panda"}, bmw |-> {"x1"}]

Columns(make, model, km) == [make |-> make, model |-> model, mileageKm |-> km]

\* A vehicle with a suspended policy, whose insurer is noted, and a deadline of
\* the user's own.
MCStock ==
    <<[owner |-> me, deleted |-> FALSE,
       fields |-> Columns("fiat", "panda", 1),
       deadlines |->
         {[id |-> 1] @@ Dto("assicurazione", "", 1, "polizza", TRUE),
          [id |-> 2] @@ Dto("custom", "gomme", 1, "", FALSE)}]>>

\* The other device renews the insurance and adds the tax.
MCOtherBodies ==
    {[fields |-> NoFields, replaces |-> TRUE,
      deadlines |-> <<Dto("assicurazione", "", 2, "polizza", FALSE),
                      Dto("bollo", "", 1, "", FALSE)>>]}
=============================================================================
