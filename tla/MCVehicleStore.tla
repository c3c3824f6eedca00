--------------------------- MODULE MCVehicleStore ---------------------------
(* Instances of VehicleStore for TLC.                                      *)
EXTENDS VehicleStore, TLC

CONSTANTS null, omitted, malformed, r1, r2, r3, r4, alice, bob

\* One column stands for the four required ones, which the code treats alike.
MCRequiredFields == {"plate"}
MCValues == {0, 1}
MCStandardTypes == {"bollo", "revisione"}

Body(plate, mileage, replaces, dtos) ==
    [fields |-> ("plate" :> plate @@ "mileageKm" :> mileage),
     replaces |-> replaces, deadlines |-> dtos]

Bollo == [type |-> "bollo", titled |-> FALSE]
Revisione == [type |-> "revisione", titled |-> FALSE]
Gomme == [type |-> "custom", titled |-> TRUE]
Untitled == [type |-> "custom", titled |-> FALSE]

\* Three devices of two accounts acting at once: a new vehicle with or without
\* a deadline, one-field corrections, a first deadline, an empty list.
OverlapPayloads ==
    {Body(0, omitted, FALSE, <<>>),
     Body(0, 1, TRUE, <<Bollo>>),
     Body(omitted, 1, FALSE, <<>>),
     Body(omitted, omitted, TRUE, <<Gomme, Bollo>>)}

\* The same, with everything the two layers of validation turn down.
ExclusivePayloads ==
    {Body(0, omitted, FALSE, <<>>),
     Body(1, null, TRUE, <<Bollo, Gomme>>),
     Body(omitted, 1, FALSE, <<>>),
     Body(omitted, omitted, TRUE, <<>>),
     Body(omitted, omitted, TRUE, <<Gomme, Gomme>>),
     Body(0, 0, TRUE, <<Bollo, Bollo>>),
     Body(0, 0, TRUE, <<Untitled>>),
     Body(0, 0, TRUE, <<Gomme, Revisione, Bollo>>),
     Body(0, malformed, FALSE, <<>>)}

Symmetry == Permutations(Requests)
=============================================================================
