------------------------------- MODULE Garage -------------------------------
(***************************************************************************)
(* What VehiclesService promises: a garage of vehicles, each with its      *)
(* owner, its columns and its set of deadlines, where every request takes  *)
(* effect at once and whole, or not at all (a stuttering step).            *)
(*                                                                         *)
(* A PATCH changes the columns its payload brings and no other, and        *)
(* replaces the deadlines when the payload brings any; a DELETE hides the  *)
(* vehicle and its deadlines for good.                                     *)
(***************************************************************************)
EXTENDS Naturals, Sequences

CONSTANTS Users, RequiredFields, DefaultMileage, Null, Omitted, Payloads

VARIABLES
    garage,   \* the vehicles ever registered, by identifier
    issued    \* how many deadline identifiers have been handed out

Fields == RequiredFields \union {"mileageKm"}

\* The deadlines of a payload as it brings them, under the next identifiers.
Entries(p) ==
    {[f \in DOMAIN p.deadlines[i] \union {"id"} |->
        IF f = "id" THEN issued + i ELSE p.deadlines[i][f]] : i \in 1..Len(p.deadlines)}

Issue(p) == issued' = issued + Len(p.deadlines)

Init == garage = <<>> /\ issued = 0

Add(u, p) ==
    /\ garage' = Append(garage,
          [owner |-> u,
           fields |-> [f \in Fields |-> IF p.fields[f] \in {Null, Omitted}
                                        THEN DefaultMileage ELSE p.fields[f]],
           deadlines |-> Entries(p),
           deleted |-> FALSE])
    /\ Issue(p)

Edit(v, p) ==
    /\ ~garage[v].deleted
    /\ garage' = [garage EXCEPT
          ![v].fields = [f \in Fields |-> IF p.fields[f] = Omitted THEN @[f]
                                          ELSE p.fields[f]],
          ![v].deadlines = IF p.replaces THEN Entries(p) ELSE @]
    /\ Issue(p)

Remove(v) ==
    /\ ~garage[v].deleted
    /\ garage' = [garage EXCEPT ![v].deleted = TRUE, ![v].deadlines = {}]
    /\ UNCHANGED issued

Next ==
    \/ \E u \in Users, p \in Payloads : Add(u, p)
    \/ \E v \in DOMAIN garage, p \in Payloads : Edit(v, p)
    \/ \E v \in DOMAIN garage : Remove(v)

Spec == Init /\ [][Next]_<<garage, issued>>
=============================================================================
