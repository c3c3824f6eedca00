------------------------- MODULE VehicleStoreProofs -------------------------
(***************************************************************************)
(* Proofs about VehicleStore, for every set of requests, accounts, columns *)
(* and payloads: what holds whether or not requests on a vehicle overlap,  *)
(* then what holds where they do not.                                      *)
(***************************************************************************)
EXTENDS VehicleStore, FiniteSetTheorems, SequenceTheorems, TLAPS

\* What a handler in flight holds is about a vehicle of its own account, about
\* deadlines of that vehicle, and has been through both layers of validation.
Sound(h, cars, dues) ==
    h.phase \in {"loaded", "planned"} =>
        /\ h.vehicle \in DOMAIN cars
        /\ cars[h.vehicle].owner = h.user
        /\ \A d \in h.kept : d \in DOMAIN dues /\ dues[d].vehicle = h.vehicle
        /\ ValidUpdate(h.payload)
        /\ Buildable(h.payload.deadlines)
        /\ h.phase = "planned" => h.lifted \subseteq h.kept

HandlersSound == \A r \in Requests : Sound(handler[r], vehicles, deadlines)

\* deadlines.vehicle_id refers to vehicles.id.
ForeignKeys == \A d \in DOMAIN deadlines : deadlines[d].vehicle \in DOMAIN vehicles

IInv == TypeOK /\ DeadlineRules /\ HandlersSound /\ ForeignKeys

-----------------------------------------------------------------------------
(* The rows a payload becomes, and the tables that a commit writes.        *)

LEMMA BuiltRows ==
    ASSUME NEW v \in Nat, NEW dtos \in Seq(DeadlineDto)
    PROVE  /\ BuildDeadlines(v, dtos) \in Seq(DeadlineRow)
           /\ Len(BuildDeadlines(v, dtos)) = Len(dtos)
           /\ \A i \in 1..Len(dtos) :
                 /\ dtos[i] \in DeadlineDto
                 /\ BuildDeadlines(v, dtos)[i] = NewDeadline(v, dtos[i])
<1>1. Len(dtos) \in Nat /\ \A i \in 1..Len(dtos) : dtos[i] \in DeadlineDto
  BY LenProperties, ElementOfSeq
<1>2. \A i \in 1..Len(dtos) : NewDeadline(v, dtos[i]) \in DeadlineRow
  BY <1>1 DEF DeadlineDto, DeadlineRow, NewDeadline
<1>3. BuildDeadlines(v, dtos) \in [1..Len(dtos) -> DeadlineRow]
  BY <1>2 DEF BuildDeadlines
<1>4. /\ BuildDeadlines(v, dtos) \in Seq(DeadlineRow)
      /\ Len(BuildDeadlines(v, dtos)) = Len(dtos)
  BY <1>1, <1>3, SeqDef
<1>5. QED
  BY <1>1, <1>4 DEF BuildDeadlines

\* Appending the rows of a payload keeps the rows there are, and makes the
\* table's new rows those of the vehicle.
LEMMA AppendedRows ==
    ASSUME NEW rows \in Seq(DeadlineRow), NEW v \in Nat,
           NEW dtos \in Seq(DeadlineDto)
    PROVE  /\ rows \o BuildDeadlines(v, dtos) \in Seq(DeadlineRow)
           /\ DOMAIN rows \subseteq DOMAIN (rows \o BuildDeadlines(v, dtos))
           /\ \A d \in DOMAIN rows : (rows \o BuildDeadlines(v, dtos))[d] = rows[d]
           /\ \A d \in DOMAIN (rows \o BuildDeadlines(v, dtos)) \ DOMAIN rows :
                 \E i \in 1..Len(dtos) :
                    /\ dtos[i] \in DeadlineDto
                    /\ (rows \o BuildDeadlines(v, dtos))[d] = NewDeadline(v, dtos[i])
<1> DEFINE new == BuildDeadlines(v, dtos)
<1>1. /\ new \in Seq(DeadlineRow) /\ Len(new) = Len(dtos)
      /\ \A i \in 1..Len(dtos) : dtos[i] \in DeadlineDto /\ new[i] = NewDeadline(v, dtos[i])
  BY BuiltRows
<1> HIDE DEF new
<1>2. /\ rows \o new \in Seq(DeadlineRow)
      /\ Len(rows \o new) = Len(rows) + Len(new)
      /\ \A d \in 1..(Len(rows) + Len(new)) :
            (rows \o new)[d] = IF d <= Len(rows) THEN rows[d] ELSE new[d - Len(rows)]
  BY <1>1, ConcatProperties
<1>3. /\ Len(rows) \in Nat /\ Len(new) \in Nat
      /\ DOMAIN rows = 1..Len(rows)
      /\ DOMAIN (rows \o new) = 1..(Len(rows) + Len(new))
  BY <1>1, <1>2, LenProperties
<1>4. \A d \in DOMAIN (rows \o new) \ DOMAIN rows :
         d - Len(rows) \in 1..Len(dtos) /\ (rows \o new)[d] = new[d - Len(rows)]
  BY <1>1, <1>2, <1>3
<1>5. QED
  BY <1>1, <1>2, <1>3, <1>4 DEF new

\* A table rewritten row by row, each staying a row, stays a table.
LEMMA RewrittenRows ==
    ASSUME NEW rows, rows \in [1..Len(deadlines) -> DeadlineRow],
           deadlines \in Seq(DeadlineRow)
    PROVE  /\ rows \in Seq(DeadlineRow)
           /\ Len(rows) = Len(deadlines)
           /\ DOMAIN rows = DOMAIN deadlines
<1>1. Len(deadlines) \in Nat /\ DOMAIN deadlines = 1..Len(deadlines)
  BY LenProperties
<1>2. rows \in Seq(DeadlineRow)
  BY <1>1, SeqDef
<1>3. QED
  BY <1>1, <1>2

Handlers == {Idle} \union LoadedHandler \union PlannedHandler \union DoneHandler

LEMMA TablesTyped ==
    ASSUME TypeOK
    PROVE  /\ Len(vehicles) \in Nat /\ DOMAIN vehicles = 1..Len(vehicles)
           /\ Len(deadlines) \in Nat /\ DOMAIN deadlines = 1..Len(deadlines)
           /\ \A v \in DOMAIN vehicles : vehicles[v] \in VehicleRow
           /\ \A d \in DOMAIN deadlines : deadlines[d] \in DeadlineRow
BY LenProperties, ElementOfSeq DEF TypeOK

\* The deadlines table as a successful save leaves it.
LEMMA UpdatedTable ==
    ASSUME TypeOK, NEW h \in PlannedHandler, h.op = "update",
           h.payload.deadlines \in Seq(DeadlineDto)
    PROVE  /\ UpdatedDeadlines(h) \in Seq(DeadlineRow)
           /\ DOMAIN deadlines \subseteq DOMAIN UpdatedDeadlines(h)
           /\ \A d \in DOMAIN deadlines :
                 /\ UpdatedDeadlines(h)[d].vehicle = deadlines[d].vehicle
                 /\ UpdatedDeadlines(h)[d].type = deadlines[d].type
                 /\ UpdatedDeadlines(h)[d].titled = deadlines[d].titled
                 /\ d \notin h.lifted => UpdatedDeadlines(h)[d] = deadlines[d]
           /\ \A d \in DOMAIN UpdatedDeadlines(h) \ DOMAIN deadlines :
                 \E i \in 1..Len(h.payload.deadlines) :
                    /\ h.payload.deadlines[i] \in DeadlineDto
                    /\ UpdatedDeadlines(h)[d]
                         = NewDeadline(h.vehicle, h.payload.deadlines[i])
<1> DEFINE rows == [d \in 1..Len(deadlines) |->
              [deadlines[d] EXCEPT !.deleted = IF d \in h.lifted THEN FALSE ELSE @]]
<1>1. /\ Len(deadlines) \in Nat /\ DOMAIN deadlines = 1..Len(deadlines)
      /\ \A d \in DOMAIN deadlines : deadlines[d] \in DeadlineRow
      /\ deadlines \in Seq(DeadlineRow)
  BY TablesTyped DEF TypeOK
<1>2. \A d \in DOMAIN deadlines :
         /\ rows[d] \in DeadlineRow
         /\ rows[d].vehicle = deadlines[d].vehicle
         /\ rows[d].type = deadlines[d].type
         /\ rows[d].titled = deadlines[d].titled
         /\ d \notin h.lifted => rows[d] = deadlines[d]
  BY <1>1 DEF DeadlineRow
<1>3. rows \in [1..Len(deadlines) -> DeadlineRow]
  BY <1>1, <1>2
<1>4. UpdatedDeadlines(h) = rows \o BuildDeadlines(h.vehicle, h.payload.deadlines)
  BY DEF UpdatedDeadlines
<1>5. h.vehicle \in Nat
  BY DEF PlannedHandler
<1> HIDE DEF rows
<1>6. rows \in Seq(DeadlineRow) /\ DOMAIN rows = DOMAIN deadlines
  BY <1>1, <1>3, RewrittenRows
<1> DEFINE new == BuildDeadlines(h.vehicle, h.payload.deadlines)
<1>7. /\ rows \o new \in Seq(DeadlineRow)
      /\ DOMAIN rows \subseteq DOMAIN (rows \o new)
      /\ \A d \in DOMAIN rows : (rows \o new)[d] = rows[d]
      /\ \A d \in DOMAIN (rows \o new) \ DOMAIN rows :
            \E i \in 1..Len(h.payload.deadlines) :
               /\ h.payload.deadlines[i] \in DeadlineDto
               /\ (rows \o new)[d] = NewDeadline(h.vehicle, h.payload.deadlines[i])
  BY <1>5, <1>6, AppendedRows
<1>8. UpdatedDeadlines(h) = rows \o new
  BY <1>4
<1> HIDE DEF new
<1>9. QED
  BY <1>2, <1>6, <1>7, <1>8

\* The deadlines table as a successful softRemove leaves it.
LEMMA RemovedTable ==
    ASSUME TypeOK, NEW h \in PlannedHandler
    PROVE  /\ RemovedDeadlines(h) \in Seq(DeadlineRow)
           /\ DOMAIN RemovedDeadlines(h) = DOMAIN deadlines
           /\ \A d \in DOMAIN deadlines :
                 /\ RemovedDeadlines(h)[d].vehicle = deadlines[d].vehicle
                 /\ RemovedDeadlines(h)[d].type = deadlines[d].type
                 /\ RemovedDeadlines(h)[d].titled = deadlines[d].titled
                 /\ d \notin h.kept => RemovedDeadlines(h)[d] = deadlines[d]
                 /\ d \in h.kept => RemovedDeadlines(h)[d].deleted = TRUE
<1>1. /\ Len(deadlines) \in Nat /\ DOMAIN deadlines = 1..Len(deadlines)
      /\ \A d \in DOMAIN deadlines : deadlines[d] \in DeadlineRow
      /\ deadlines \in Seq(DeadlineRow)
  BY TablesTyped DEF TypeOK
<1>2. \A d \in DOMAIN deadlines : RemovedDeadlines(h)[d] =
          [deadlines[d] EXCEPT !.deleted = IF d \in h.kept THEN TRUE ELSE @]
  BY <1>1 DEF RemovedDeadlines
<1>3. \A d \in DOMAIN deadlines :
         /\ RemovedDeadlines(h)[d] \in DeadlineRow
         /\ RemovedDeadlines(h)[d].vehicle = deadlines[d].vehicle
         /\ RemovedDeadlines(h)[d].type = deadlines[d].type
         /\ RemovedDeadlines(h)[d].titled = deadlines[d].titled
         /\ d \notin h.kept => RemovedDeadlines(h)[d] = deadlines[d]
         /\ d \in h.kept => RemovedDeadlines(h)[d].deleted = TRUE
  BY <1>1, <1>2 DEF DeadlineRow
<1>4. RemovedDeadlines(h) \in [1..Len(deadlines) -> DeadlineRow]
  BY <1>1, <1>3 DEF RemovedDeadlines
<1>5. QED
  BY <1>1, <1>3, <1>4, RewrittenRows

-----------------------------------------------------------------------------
(* What a handler in flight is.                                            *)

LEMMA BodyTyped ==
    ASSUME NEW p \in Payloads \union {NoBody}
    PROVE  /\ p.fields \in [Fields -> Values \union {Null, Omitted, Malformed}]
           /\ p.replaces \in BOOLEAN
           /\ p.deadlines \in Seq(DeadlineDto)
           /\ ~p.replaces => p.deadlines = <<>>
<1>1. CASE p \in Payloads
  BY <1>1, PayloadsAssumption DEF PayloadType
<1>2. CASE p = NoBody
  BY <1>2, EmptySeq DEF NoBody
<1>3. QED
  BY <1>1, <1>2

LEMMA Planned ==
    ASSUME TypeOK, HandlersSound, NEW r \in Requests,
           handler[r].phase = "planned"
    PROVE  /\ handler[r] \in PlannedHandler
           /\ handler[r].payload.deadlines \in Seq(DeadlineDto)
           /\ handler[r].vehicle \in DOMAIN vehicles
           /\ vehicles[handler[r].vehicle].owner = handler[r].user
           /\ \A d \in handler[r].kept :
                 d \in DOMAIN deadlines /\ deadlines[d].vehicle = handler[r].vehicle
           /\ handler[r].lifted \subseteq handler[r].kept
           /\ ValidUpdate(handler[r].payload)
           /\ Buildable(handler[r].payload.deadlines)
<1>1. handler[r] \in PlannedHandler
  BY DEF TypeOK, Idle, LoadedHandler, PlannedHandler, DoneHandler
<1>2. handler[r].payload \in Payloads \union {NoBody}
  BY <1>1 DEF PlannedHandler
<1>3. Sound(handler[r], vehicles, deadlines)
  BY DEF HandlersSound
<1>4. QED
  BY <1>1, <1>2, <1>3, BodyTyped DEF Sound

LEMMA Loaded ==
    ASSUME TypeOK, NEW r \in Requests, handler[r].phase = "loaded"
    PROVE  handler[r] \in LoadedHandler
BY DEF TypeOK, Idle, LoadedHandler, PlannedHandler, DoneHandler

\* A row a save writes has every column, as the transaction fails on a null.
LEMMA UpdatedRowTyped ==
    ASSUME TypeOK, HandlersSound, NEW r \in Requests,
           handler[r].phase = "planned", ~SaveFails(handler[r])
    PROVE  /\ UpdatedRow(handler[r]) \in VehicleRow
           /\ UpdatedRow(handler[r]).owner = vehicles[handler[r].vehicle].owner
<1> DEFINE h == handler[r]
           row == vehicles[h.vehicle]
<1>1. /\ h \in PlannedHandler /\ ValidUpdate(h.payload)
      /\ h.vehicle \in DOMAIN vehicles
  BY Planned
<1>2. row \in VehicleRow
  BY <1>1, TablesTyped
<1>3. \A f \in h.changed : Entity(h)[f] # Null
  BY DEF SaveFails
<1>4. h.seen \in [Fields -> Values] /\ h.lift \in BOOLEAN /\ h.changed \subseteq Fields
  BY <1>1 DEF PlannedHandler
<1>5. \A f \in Fields : h.payload.fields[f] \in Values \union {Null, Omitted}
  BY <1>1 DEF ValidUpdate
<1> HIDE DEF h
<1>6. \A f \in h.changed : Entity(h)[f] \in Values
  <2>1. ASSUME NEW f \in h.changed PROVE Entity(h)[f] \in Values
    <3>1. f \in Fields /\ Entity(h)[f] # Null
      BY <1>3, <1>4
    <3>2. Entity(h)[f] = IF h.payload.fields[f] # Omitted THEN h.payload.fields[f]
                         ELSE h.seen[f]
      BY <3>1 DEF Entity
    <3>3. QED
      BY <3>1, <3>2, <1>4, <1>5
  <2>2. QED
    BY <2>1
<1> DEFINE written == [f \in Fields |-> IF f \in h.changed THEN Entity(h)[f]
                                        ELSE row.fields[f]]
<1>7. written \in [Fields -> Values]
  BY <1>2, <1>6 DEF VehicleRow
<1>8. UpdatedRow(h) = [owner |-> row.owner, fields |-> written,
                       deleted |-> IF h.lift THEN FALSE ELSE row.deleted]
  BY DEF UpdatedRow
<1> HIDE DEF written, row
<1>9. (IF h.lift THEN FALSE ELSE row.deleted) \in BOOLEAN
  BY <1>2, <1>4 DEF VehicleRow
<1>10. UpdatedRow(h) \in VehicleRow /\ UpdatedRow(h).owner = row.owner
  <2> DEFINE mark == IF h.lift THEN FALSE ELSE row.deleted
  <2>1. UpdatedRow(h) = [owner |-> row.owner, fields |-> written, deleted |-> mark]
    BY <1>8
  <2>2. mark \in BOOLEAN
    BY <1>9
  <2>3. row.owner \in Users
    BY <1>2 DEF VehicleRow
  <2> HIDE DEF mark
  <2>4. QED
    BY <2>1, <2>2, <2>3, <1>7 DEF VehicleRow
<1>11. QED
  BY <1>10 DEF h, row

-----------------------------------------------------------------------------
(* The tables: what each step writes.                                      *)

TablesOK ==
    /\ vehicles \in Seq(VehicleRow)
    /\ deadlines \in Seq(DeadlineRow)
    /\ DeadlineRules
    /\ ForeignKeys

\* The index and the title check together are DeadlineRules.
LEMMA RulesFromIndex ==
    ASSUME NEW rows, UniqueKinds(rows)
    PROVE  \A d, e \in DOMAIN rows :
              /\ ~rows[d].deleted /\ ~rows[e].deleted
              /\ rows[d].vehicle = rows[e].vehicle
              /\ rows[d].type = rows[e].type
              /\ rows[d].type \in StandardTypes
              => d = e
BY TypesAssumption DEF UniqueKinds

LEMMA NewDeadlineVehicle == \A v, dto : NewDeadline(v, dto).vehicle = v
BY DEF NewDeadline

LEMMA NewDeadlineFields ==
    ASSUME NEW v \in Nat, NEW dtos, Buildable(dtos), NEW i \in DOMAIN dtos,
           dtos[i] \in DeadlineDto
    PROVE  /\ NewDeadline(v, dtos[i]).vehicle = v
           /\ NewDeadline(v, dtos[i]).titled <=> NewDeadline(v, dtos[i]).type = Custom
<1>1. dtos[i].titled <=> dtos[i].type = Custom
  BY DEF Buildable
<1>2. dtos[i].titled \in BOOLEAN
  BY DEF DeadlineDto
<1>3. CASE dtos[i].type = Custom
  BY <1>1, <1>2, <1>3 DEF NewDeadline
<1>4. CASE dtos[i].type # Custom
  BY <1>4 DEF NewDeadline
<1>5. QED
  BY <1>3, <1>4

LEMMA CreateTables ==
    ASSUME IInv, NEW r \in Requests, NEW u \in Users, NEW p \in Payloads,
           Create(r, u, p)
    PROVE  KeepsRows /\ TablesOK'
<1> DEFINE v == Len(vehicles) + 1
           rows == deadlines \o BuildDeadlines(v, p.deadlines)
           car == [owner |-> u, fields |-> CreatedFields(p), deleted |-> FALSE]
<1>1. CASE UNCHANGED <<vehicles, deadlines>>
  BY <1>1 DEF IInv, TypeOK, KeepsRows, TablesOK, DeadlineRules, ForeignKeys
<1>2. CASE /\ UniqueKinds(rows) /\ deadlines' = rows
           /\ vehicles' = Append(vehicles, car)
  <2>1. /\ Len(vehicles) \in Nat /\ DOMAIN vehicles = 1..Len(vehicles)
        /\ vehicles \in Seq(VehicleRow) /\ deadlines \in Seq(DeadlineRow)
    BY TablesTyped DEF IInv, TypeOK
  <2>2. p.deadlines \in Seq(DeadlineDto) /\ DOMAIN p.deadlines = 1..Len(p.deadlines)
    BY BodyTyped, LenProperties
  <2>3. Buildable(p.deadlines) /\ ValidCreate(p)
    BY DEF Create
  <2>4. CreatedFields(p) \in [Fields -> Values]
    BY <2>3, BodyTyped, FieldsAssumption DEF CreatedFields, ValidCreate, Fields
  <2>5. car \in VehicleRow
    BY <2>4 DEF VehicleRow
  <2> HIDE DEF car
  <2>6. /\ vehicles' \in Seq(VehicleRow)
        /\ DOMAIN vehicles' = 1..v
        /\ \A w \in DOMAIN vehicles : vehicles'[w] = vehicles[w]
    BY <1>2, <2>1, <2>5
  <2>7. /\ rows \in Seq(DeadlineRow)
        /\ DOMAIN deadlines \subseteq DOMAIN rows
        /\ \A d \in DOMAIN deadlines : rows[d] = deadlines[d]
        /\ \A d \in DOMAIN rows \ DOMAIN deadlines :
              \E i \in 1..Len(p.deadlines) :
                 /\ p.deadlines[i] \in DeadlineDto
                 /\ rows[d] = NewDeadline(v, p.deadlines[i])
    <3>1. v \in Nat
      BY <2>1
    <3> HIDE DEF v
    <3>2. QED
      BY <2>1, <2>2, <3>1, AppendedRows
  <2> HIDE DEF rows, v
  <2>8. ASSUME NEW d \in DOMAIN rows
        PROVE  /\ (rows[d].titled <=> rows[d].type = Custom)
               /\ rows[d].vehicle \in DOMAIN vehicles \union {v}
    <3>1. CASE d \in DOMAIN deadlines
      <4>1. rows[d] = deadlines[d]
        BY <2>7, <3>1
      <4>2. /\ deadlines[d].titled <=> deadlines[d].type = Custom
            /\ deadlines[d].vehicle \in DOMAIN vehicles
        BY <3>1 DEF IInv, DeadlineRules, ForeignKeys
      <4>3. QED
        BY <4>1, <4>2
    <3>2. CASE d \notin DOMAIN deadlines
      <4>1. PICK i \in 1..Len(p.deadlines) :
               /\ p.deadlines[i] \in DeadlineDto
               /\ rows[d] = NewDeadline(v, p.deadlines[i])
        BY <2>7, <3>2
      <4>2. v \in Nat
        BY <2>1 DEF v
      <4>3. QED
        BY <2>2, <2>3, <4>1, <4>2, NewDeadlineFields
    <3>3. QED
      BY <3>1, <3>2
  <2>9. DOMAIN vehicles' = DOMAIN vehicles \union {v}
    BY <2>1, <2>6 DEF v
  <2>10. KeepsRows
    BY <1>2, <2>6, <2>7, <2>9 DEF KeepsRows
  <2>11. TablesOK'
    <3>1. UniqueKinds(rows) /\ deadlines' = rows
      BY <1>2
    <3>2. DeadlineRules'
      BY <2>8, <3>1, RulesFromIndex DEF DeadlineRules
    <3>3. ForeignKeys'
      BY <2>8, <2>9, <3>1 DEF ForeignKeys
    <3>4. QED
      BY <2>6, <2>7, <3>1, <3>2, <3>3 DEF TablesOK
  <2>12. QED
    BY <2>10, <2>11
<1>3. QED
  BY <1>1, <1>2 DEF Create, Refuse

LEMMA CommitUpdateTables ==
    ASSUME IInv, NEW r \in Requests, CommitUpdate(r)
    PROVE  KeepsRows /\ TablesOK'
<1> DEFINE h == handler[r]
           rows == UpdatedDeadlines(h)
<1>1. /\ h.phase = "planned" /\ h.op = "update" /\ ~SaveFails(h)
      /\ vehicles' = [vehicles EXCEPT ![h.vehicle] = UpdatedRow(h)]
      /\ deadlines' = rows
  BY DEF CommitUpdate
<1>2. TypeOK /\ HandlersSound /\ DeadlineRules /\ ForeignKeys
  BY DEF IInv
<1>3. /\ h \in PlannedHandler /\ h.payload.deadlines \in Seq(DeadlineDto)
      /\ h.vehicle \in DOMAIN vehicles /\ Buildable(h.payload.deadlines)
  BY <1>1, <1>2, Planned
<1>4. UpdatedRow(h) \in VehicleRow /\ UpdatedRow(h).owner = vehicles[h.vehicle].owner
  BY <1>1, <1>2, UpdatedRowTyped
<1>5. UniqueKinds(rows)
  BY <1>1 DEF SaveFails
<1> HIDE DEF h
<1>6. /\ vehicles' \in Seq(VehicleRow) /\ DOMAIN vehicles' = DOMAIN vehicles
      /\ \A v \in DOMAIN vehicles : vehicles'[v].owner = vehicles[v].owner
  BY <1>1, <1>2, <1>3, <1>4, TablesTyped, ExceptSeq DEF TypeOK
<1>7. /\ rows \in Seq(DeadlineRow)
      /\ DOMAIN deadlines \subseteq DOMAIN rows
      /\ \A d \in DOMAIN deadlines : /\ rows[d].vehicle = deadlines[d].vehicle
                                     /\ rows[d].type = deadlines[d].type
                                     /\ rows[d].titled = deadlines[d].titled
      /\ \A d \in DOMAIN rows \ DOMAIN deadlines :
            \E i \in 1..Len(h.payload.deadlines) :
               /\ h.payload.deadlines[i] \in DeadlineDto
               /\ rows[d] = NewDeadline(h.vehicle, h.payload.deadlines[i])
  BY <1>1, <1>2, <1>3, UpdatedTable
<1> HIDE DEF rows
<1>8. ASSUME NEW d \in DOMAIN rows
      PROVE  /\ (rows[d].titled <=> rows[d].type = Custom)
             /\ rows[d].vehicle \in DOMAIN vehicles
  <2>1. CASE d \in DOMAIN deadlines
    <3>1. /\ deadlines[d].titled <=> deadlines[d].type = Custom
          /\ deadlines[d].vehicle \in DOMAIN vehicles
      BY <1>2, <2>1 DEF DeadlineRules, ForeignKeys
    <3>2. QED
      BY <1>7, <2>1, <3>1
  <2>2. CASE d \notin DOMAIN deadlines
    <3>1. PICK i \in 1..Len(h.payload.deadlines) :
             /\ h.payload.deadlines[i] \in DeadlineDto
             /\ rows[d] = NewDeadline(h.vehicle, h.payload.deadlines[i])
      BY <1>7, <2>2
    <3>2. h.vehicle \in Nat /\ DOMAIN h.payload.deadlines = 1..Len(h.payload.deadlines)
      BY <1>2, <1>3, TablesTyped, LenProperties
    <3>3. QED
      BY <1>3, <3>1, <3>2, NewDeadlineFields
  <2>3. QED
    BY <2>1, <2>2
<1>9. KeepsRows
  BY <1>1, <1>6, <1>7 DEF KeepsRows
<1>10. DeadlineRules'
  BY <1>1, <1>5, <1>8, RulesFromIndex DEF DeadlineRules
<1>11. ForeignKeys'
  BY <1>1, <1>6, <1>8 DEF ForeignKeys
<1>12. QED
  BY <1>1, <1>6, <1>7, <1>9, <1>10, <1>11 DEF TablesOK

LEMMA CommitRemoveTables ==
    ASSUME IInv, NEW r \in Requests, CommitRemove(r)
    PROVE  KeepsRows /\ TablesOK'
<1> DEFINE h == handler[r]
           rows == RemovedDeadlines(h)
           car == [vehicles[h.vehicle] EXCEPT !.deleted = TRUE]
<1>1. /\ h.phase = "planned" /\ h.op = "remove"
      /\ vehicles' = [vehicles EXCEPT ![h.vehicle] = car]
      /\ deadlines' = rows
  BY DEF CommitRemove
<1>2. TypeOK /\ HandlersSound /\ DeadlineRules /\ ForeignKeys
  BY DEF IInv
<1>3. h \in PlannedHandler /\ h.vehicle \in DOMAIN vehicles
  BY <1>1, <1>2, Planned
<1>4. car \in VehicleRow /\ car.owner = vehicles[h.vehicle].owner
  BY <1>2, <1>3, TablesTyped DEF VehicleRow
<1> HIDE DEF h, car
<1>5. /\ vehicles' \in Seq(VehicleRow) /\ DOMAIN vehicles' = DOMAIN vehicles
      /\ \A v \in DOMAIN vehicles : vehicles'[v].owner = vehicles[v].owner
  BY <1>1, <1>2, <1>3, <1>4, TablesTyped, ExceptSeq DEF TypeOK
<1>6. /\ rows \in Seq(DeadlineRow) /\ DOMAIN rows = DOMAIN deadlines
      /\ \A d \in DOMAIN deadlines :
            /\ rows[d].vehicle = deadlines[d].vehicle
            /\ rows[d].type = deadlines[d].type
            /\ rows[d].titled = deadlines[d].titled
            /\ d \notin h.kept => rows[d] = deadlines[d]
            /\ d \in h.kept => rows[d].deleted = TRUE
  BY <1>2, <1>3, RemovedTable
<1> HIDE DEF rows
<1>7. \A d \in DOMAIN deadlines : ~rows[d].deleted => ~deadlines[d].deleted
  BY <1>6
<1>8. DeadlineRules'
  BY <1>1, <1>2, <1>6, <1>7 DEF DeadlineRules
<1>9. ForeignKeys'
  BY <1>1, <1>2, <1>5, <1>6 DEF ForeignKeys
<1>10. KeepsRows
  BY <1>1, <1>5, <1>6 DEF KeepsRows
<1>11. QED
  BY <1>1, <1>5, <1>6, <1>8, <1>9, <1>10 DEF TablesOK

\* Every step but three leaves the tables alone.
LEMMA StepCases ==
    ASSUME [Next]_vars
    PROVE  \/ UNCHANGED <<vehicles, deadlines>>
           \/ \E r \in Requests, u \in Users, p \in Payloads : Create(r, u, p)
           \/ \E r \in Requests : CommitUpdate(r)
           \/ \E r \in Requests : CommitRemove(r)
BY DEF Next, vars, RefuseCreate, RefuseUpdate, LoadForUpdate, RefuseRemove,
       LoadForRemove, Proceed, Reload, RollBackUpdate, RollBackRemove, Restart,
       Refuse

LEMMA StepTables ==
    ASSUME IInv, [Next]_vars
    PROVE  KeepsRows /\ TablesOK'
<1>1. CASE UNCHANGED <<vehicles, deadlines>>
  BY <1>1 DEF IInv, TypeOK, KeepsRows, TablesOK, DeadlineRules, ForeignKeys
<1>2. CASE \E r \in Requests, u \in Users, p \in Payloads : Create(r, u, p)
  BY <1>2, CreateTables
<1>3. CASE \E r \in Requests : CommitUpdate(r)
  BY <1>3, CommitUpdateTables
<1>4. CASE \E r \in Requests : CommitRemove(r)
  BY <1>4, CommitRemoveTables
<1>5. QED
  BY <1>1, <1>2, <1>3, <1>4, StepCases

-----------------------------------------------------------------------------
(* The handlers: what each step leaves in them.                            *)

HandlersOK == handler \in [Requests -> Handlers] /\ HandlersSound

\* A handler that a step does not touch stays sound: rows keep their owners.
LEMMA SoundStays ==
    ASSUME KeepsRows, NEW h, Sound(h, vehicles, deadlines)
    PROVE  Sound(h, vehicles', deadlines')
BY DEF KeepsRows, Sound

LEMMA OneHandler ==
    ASSUME IInv, KeepsRows, NEW r \in Requests, NEW x \in Handlers,
           handler' = [handler EXCEPT ![r] = x],
           Sound(x, vehicles', deadlines')
    PROVE  HandlersOK'
<1>1. handler \in [Requests -> Handlers] /\ HandlersSound
  BY DEF IInv, TypeOK, Handlers
<1>2. handler' \in [Requests -> Handlers]
  BY <1>1
<1>3. ASSUME NEW q \in Requests PROVE Sound(handler'[q], vehicles', deadlines')
  <2>1. CASE q = r
    BY <1>1, <2>1
  <2>2. CASE q # r
    <3>1. handler'[q] = handler[q]
      BY <1>1, <2>2
    <3>2. Sound(handler[q], vehicles, deadlines)
      BY <1>1 DEF HandlersSound
    <3>3. QED
      BY <3>1, <3>2, SoundStays
  <2>3. QED
    BY <2>1, <2>2
<1>4. QED
  BY <1>2, <1>3 DEF HandlersOK, HandlersSound

\* An answer holds nothing.
LEMMA AnswerHandlers ==
    ASSUME IInv, KeepsRows, NEW r \in Requests,
           NEW op \in {"create", "update", "remove"}, NEW u \in Users,
           NEW v \in Nat, NEW status \in Statuses,
           Answer(r, op, u, v, status)
    PROVE  HandlersOK'
<1> DEFINE x == Answered(op, u, v, status)
<1>1. x \in Handlers
  BY DEF Answered, Handlers, DoneHandler
<1>2. Sound(x, vehicles', deadlines')
  BY DEF Answered, Sound
<1>3. handler' = [handler EXCEPT ![r] = x]
  BY DEF Answer
<1> HIDE DEF x
<1>4. QED
  BY <1>1, <1>2, <1>3, OneHandler

LEMMA BuildableNothing == Buildable(<<>>)
BY DEF Buildable

LEMMA LoadForUpdateHandlers ==
    ASSUME IInv, KeepsRows, NEW r \in Requests, NEW u \in Users,
           NEW v \in VehicleIds, NEW p \in Payloads, LoadForUpdate(r, u, v, p)
    PROVE  HandlersOK'
<1> DEFINE kept == IF p.replaces THEN {} ELSE LiveDeadlinesOf(v)
           x == [phase |-> "loaded", op |-> "update", user |-> u, vehicle |-> v,
                 payload |-> p, seen |-> vehicles[v].fields, kept |-> kept]
<1>1. /\ v \in DOMAIN vehicles /\ vehicles[v].owner = u
      /\ v \in Nat /\ vehicles[v].fields \in [Fields -> Values]
  BY VehicleIdsAssumption, TablesTyped DEF IInv, LoadForUpdate, FindAll, VehicleRow
<1>2. kept \subseteq Nat
      /\ \A d \in kept : d \in DOMAIN deadlines /\ deadlines[d].vehicle = v
  BY TablesTyped DEF IInv, LiveDeadlinesOf
<1>3. ValidUpdate(p) /\ Buildable(p.deadlines)
  BY BodyTyped, BuildableNothing DEF LoadForUpdate
<1>4. handler' = [handler EXCEPT ![r] = x] /\ UNCHANGED <<vehicles, deadlines>>
  BY DEF LoadForUpdate
<1> HIDE DEF kept
<1>5. x \in Handlers
  BY <1>1, <1>2 DEF Handlers, LoadedHandler
<1>6. Sound(x, vehicles', deadlines')
  BY <1>1, <1>2, <1>3, <1>4 DEF Sound
<1> HIDE DEF x
<1>7. QED
  BY <1>4, <1>5, <1>6, OneHandler

LEMMA LoadForRemoveHandlers ==
    ASSUME IInv, KeepsRows, NEW r \in Requests, NEW u \in Users,
           NEW v \in VehicleIds, LoadForRemove(r, u, v)
    PROVE  HandlersOK'
<1> DEFINE kept == LiveDeadlinesOf(v)
           x == [phase |-> "loaded", op |-> "remove", user |-> u, vehicle |-> v,
                 payload |-> NoBody, seen |-> vehicles[v].fields, kept |-> kept]
<1>1. /\ v \in DOMAIN vehicles /\ vehicles[v].owner = u
      /\ v \in Nat /\ vehicles[v].fields \in [Fields -> Values]
  BY VehicleIdsAssumption, TablesTyped DEF IInv, LoadForRemove, FindAll, VehicleRow
<1>2. kept \subseteq Nat
      /\ \A d \in kept : d \in DOMAIN deadlines /\ deadlines[d].vehicle = v
  BY TablesTyped DEF IInv, LiveDeadlinesOf
<1>3. ValidUpdate(NoBody) /\ Buildable(NoBody.deadlines)
  BY BuildableNothing, MaxDeadlinesAssumption, EmptySeq DEF NoBody, ValidUpdate
<1>4. handler' = [handler EXCEPT ![r] = x] /\ UNCHANGED <<vehicles, deadlines>>
  BY DEF LoadForRemove
<1> HIDE DEF kept
<1>5. x \in Handlers
  BY <1>1, <1>2 DEF Handlers, LoadedHandler
<1>6. Sound(x, vehicles', deadlines')
  BY <1>1, <1>2, <1>3, <1>4 DEF Sound
<1> HIDE DEF x
<1>7. QED
  BY <1>4, <1>5, <1>6, OneHandler

LEMMA ReloadHandlers ==
    ASSUME IInv, KeepsRows, NEW r \in Requests, Reload(r)
    PROVE  HandlersOK'
<1> DEFINE h == handler[r]
           v == h.vehicle
           changed == {f \in Fields : /\ h.op = "update"
                                      /\ Entity(h)[f] # vehicles[v].fields[f]}
           lift == h.op = "update" /\ vehicles[v].deleted
           lifted == {d \in h.kept : h.op = "update" /\ deadlines[d].deleted}
           plan(related) ==
              [phase |-> "planned", op |-> h.op, user |-> h.user,
               vehicle |-> v, payload |-> h.payload, seen |-> h.seen,
               kept |-> h.kept, changed |-> changed, lift |-> lift,
               lifted |-> lifted, orphans |-> related \ h.kept]
<1>1. PICK related \in {DeadlinesOf(v), LiveDeadlinesOf(v)} :
         handler' = [handler EXCEPT ![r] = plan(related)]
  BY DEF Reload
<1>2. h.phase = "loaded" /\ UNCHANGED <<vehicles, deadlines>>
  BY DEF Reload
<1>3. TypeOK /\ HandlersSound
  BY DEF IInv
<1>4. h \in LoadedHandler /\ Sound(h, vehicles, deadlines)
  BY <1>2, <1>3, Loaded DEF HandlersSound
<1> HIDE DEF h
<1>5. related \subseteq Nat
  BY <1>3, TablesTyped DEF DeadlinesOf, LiveDeadlinesOf
<1>6. changed \subseteq Fields /\ lift \in BOOLEAN /\ lifted \subseteq h.kept
  OBVIOUS
<1> HIDE DEF changed, lift, lifted
<1>7. plan(related) \in Handlers
  BY <1>4, <1>5, <1>6 DEF Handlers, LoadedHandler, PlannedHandler
<1>8. Sound(plan(related), vehicles', deadlines')
  BY <1>2, <1>4, <1>6 DEF Sound
<1> HIDE DEF plan
<1>9. QED
  BY <1>1, <1>7, <1>8, OneHandler

\* A restart answers every handler in flight and touches no other.
LEMMA RestartHandlers ==
    ASSUME IInv, KeepsRows, Restart
    PROVE  HandlersOK'
<1>1. handler \in [Requests -> Handlers] /\ HandlersSound
  BY DEF IInv, TypeOK, Handlers
<1>2. ASSUME NEW q \in Requests
      PROVE  handler'[q] \in Handlers /\ Sound(handler'[q], vehicles', deadlines')
  <2> DEFINE x == Answered(handler[q].op, handler[q].user, handler[q].vehicle, Lost)
  <2>1. CASE InFlight(q)
    <3>1. handler'[q] = x
      BY <2>1 DEF Restart
    <3>2. handler[q] \in LoadedHandler \union PlannedHandler
      BY <1>1, <2>1 DEF InFlight, Handlers, Idle, DoneHandler
    <3>3. /\ handler[q].op \in {"update", "remove"}
          /\ handler[q].user \in Users /\ handler[q].vehicle \in Nat
      BY <3>2 DEF LoadedHandler, PlannedHandler
    <3>4. x \in Handlers
      BY <3>3 DEF Answered, Handlers, DoneHandler, Statuses
    <3>5. Sound(x, vehicles', deadlines')
      BY DEF Answered, Sound
    <3>6. QED
      BY <3>1, <3>4, <3>5
  <2>2. CASE ~InFlight(q)
    <3>1. handler'[q] = handler[q]
      BY <2>2 DEF Restart
    <3>2. QED
      BY <1>1, <3>1, SoundStays DEF HandlersSound
  <2>3. QED
    BY <2>1, <2>2
<1>3. handler' \in [Requests -> Handlers]
  BY <1>2 DEF Restart
<1>4. QED
  BY <1>2, <1>3 DEF HandlersOK, HandlersSound

\* The commits and roll-backs answer for what the handler held.
LEMMA FinishHandlers ==
    ASSUME IInv, KeepsRows, NEW r \in Requests,
           CommitUpdate(r) \/ RollBackUpdate(r) \/ CommitRemove(r) \/ RollBackRemove(r)
    PROVE  HandlersOK'
<1> DEFINE h == handler[r]
<1>1. h.phase = "planned"
  BY DEF CommitUpdate, RollBackUpdate, CommitRemove, RollBackRemove
<1>2. h \in PlannedHandler
  BY <1>1, Planned DEF IInv
<1>3. h.user \in Users /\ h.vehicle \in Nat
  BY <1>2 DEF PlannedHandler
<1>4. PICK op \in {"update", "remove"}, status \in {200, 204, 500} :
         Answer(r, op, h.user, h.vehicle, status)
  BY DEF CommitUpdate, RollBackUpdate, CommitRemove, RollBackRemove, Refuse
<1>5. op \in {"create", "update", "remove"} /\ status \in Statuses
  BY DEF Statuses
<1>6. QED
  BY <1>3, <1>4, <1>5, AnswerHandlers

LEMMA StepHandlers ==
    ASSUME IInv, [Next]_vars, KeepsRows
    PROVE  HandlersOK'
<1>1. CASE UNCHANGED vars
  BY <1>1 DEF IInv, TypeOK, Handlers, HandlersOK, HandlersSound, vars
<1>2. ASSUME NEW r \in Requests, NEW u \in Users, NEW p \in Payloads,
             RefuseCreate(r, u, p) \/ Create(r, u, p)
      PROVE  HandlersOK'
  <2>1. PICK v \in Nat, status \in Statuses : Answer(r, "create", u, v, status)
    <3>1. 0 \in Nat /\ Len(vehicles) + 1 \in Nat /\ {201, 400, 500} \subseteq Statuses
      BY TablesTyped DEF IInv, Statuses
    <3>2. QED
      BY <1>2, <3>1 DEF RefuseCreate, Create, Refuse
  <2>2. QED
    BY <2>1, AnswerHandlers
<1>3. ASSUME NEW r \in Requests, NEW u \in Users, NEW v \in VehicleIds,
             NEW p \in Payloads, RefuseUpdate(r, u, v, p)
      PROVE  HandlersOK'
  <2>1. v \in Nat /\ {400, 404} \subseteq Statuses
    BY VehicleIdsAssumption DEF Statuses
  <2>2. PICK status \in Statuses : Answer(r, "update", u, v, status)
    BY <1>3, <2>1 DEF RefuseUpdate, Refuse
  <2>3. QED
    BY <2>1, <2>2, AnswerHandlers
<1>4. ASSUME NEW r \in Requests, NEW u \in Users, NEW v \in VehicleIds,
             RefuseRemove(r, u, v)
      PROVE  HandlersOK'
  <2>1. v \in Nat /\ 404 \in Statuses
    BY VehicleIdsAssumption DEF Statuses
  <2>2. Answer(r, "remove", u, v, 404)
    BY <1>4 DEF RefuseRemove, Refuse
  <2>3. QED
    BY <2>1, <2>2, AnswerHandlers
<1>5. QED
  BY <1>1, <1>2, <1>3, <1>4, LoadForUpdateHandlers, LoadForRemoveHandlers,
     ReloadHandlers, FinishHandlers, RestartHandlers
     DEF Next, Proceed

-----------------------------------------------------------------------------
(* The inductive invariant, and what follows from it.                      *)

LEMMA InitIInv ==
    ASSUME Init
    PROVE  IInv
<1>1. TypeOK
  BY EmptySeq DEF Init, TypeOK
<1>2. DeadlineRules /\ ForeignKeys
  BY DEF Init, DeadlineRules, ForeignKeys
<1>3. HandlersSound
  BY DEF Init, HandlersSound, Sound, Idle
<1>4. QED
  BY <1>1, <1>2, <1>3 DEF IInv

LEMMA StepIInv ==
    ASSUME IInv, [Next]_vars
    PROVE  IInv'
<1>1. KeepsRows /\ TablesOK'
  BY StepTables
<1>2. HandlersOK'
  BY <1>1, StepHandlers
<1>3. QED
  BY <1>1, <1>2 DEF TablesOK, HandlersOK, IInv, TypeOK, Handlers

THEOREM Inductive == Spec => []IInv
<1>1. Init => IInv
  BY InitIInv
<1>2. IInv /\ [Next]_vars => IInv'
  BY StepIInv
<1>3. QED
  BY <1>1, <1>2, PTL DEF Spec

\* Type correctness: every stored vehicle has all its columns.
THEOREM TypeCorrect == Spec => []TypeOK
<1>1. IInv => TypeOK
  BY DEF IInv
<1>2. QED
  BY <1>1, Inductive, PTL

\* However saves interleave, a vehicle has one live deadline of each standard
\* kind at most, and titles belong to custom deadlines.
THEOREM RulesHold == Spec => []DeadlineRules
<1>1. IInv => DeadlineRules
  BY DEF IInv
<1>2. QED
  BY <1>1, Inductive, PTL

\* No step removes a row, moves it or changes its owner.
THEOREM RowsStay == Spec => RowsAreKept
<1>1. IInv /\ [Next]_vars => [KeepsRows]_vars
  BY StepTables
<1>2. QED
  BY <1>1, Inductive, PTL DEF Spec, RowsAreKept

-----------------------------------------------------------------------------
(* Who touches a row.                                                      *)

LEMMA CreateTouchesNothing ==
    ASSUME IInv, NEW r \in Requests, NEW u \in Users, NEW p \in Payloads,
           Create(r, u, p), NEW v \in DOMAIN vehicles
    PROVE  ~Touched(v)
<1> DEFINE n == Len(vehicles) + 1
           new == BuildDeadlines(n, p.deadlines)
<1>1. CASE UNCHANGED <<vehicles, deadlines>>
  BY <1>1 DEF Touched
<1>2. CASE /\ deadlines' = deadlines \o new
           /\ vehicles' = Append(vehicles, [owner |-> u, fields |-> CreatedFields(p),
                                            deleted |-> FALSE])
  <2>1. /\ Len(vehicles) \in Nat /\ v \in 1..Len(vehicles)
        /\ vehicles \in Seq(VehicleRow) /\ deadlines \in Seq(DeadlineRow)
    BY TablesTyped DEF IInv, TypeOK
  <2>2. n \in Nat /\ n # v
    BY <2>1
  <2>3. vehicles'[v] = vehicles[v]
    BY <1>2, <2>1
  <2> HIDE DEF n
  <2>4. /\ \A d \in DOMAIN deadlines : (deadlines \o new)[d] = deadlines[d]
        /\ \A d \in DOMAIN (deadlines \o new) \ DOMAIN deadlines :
              \E i \in 1..Len(p.deadlines) :
                 /\ p.deadlines[i] \in DeadlineDto
                 /\ (deadlines \o new)[d] = NewDeadline(n, p.deadlines[i])
    <3>1. p.deadlines \in Seq(DeadlineDto)
      BY BodyTyped
    <3>2. QED
      BY <2>1, <2>2, <3>1, AppendedRows
  <2> HIDE DEF new
  <2>5. \A d \in DOMAIN (deadlines \o new) \ DOMAIN deadlines :
           (deadlines \o new)[d].vehicle # v
    BY <2>2, <2>4, NewDeadlineVehicle
  <2>6. /\ vehicles'[v] = vehicles[v]
        /\ \A d \in DOMAIN deadlines : deadlines'[d] = deadlines[d]
        /\ \A d \in DOMAIN deadlines' \ DOMAIN deadlines : deadlines'[d].vehicle # v
    BY <1>2, <2>3, <2>4, <2>5
  <2>7. QED
    BY <2>6 DEF Touched
<1>3. QED
  BY <1>1, <1>2 DEF Create, Refuse

LEMMA CommitUpdateTouches ==
    ASSUME IInv, NEW r \in Requests, CommitUpdate(r),
           NEW v \in DOMAIN vehicles, Touched(v)
    PROVE  handler[r].vehicle = v
<1> DEFINE h == handler[r]
           rows == UpdatedDeadlines(h)
<1> SUFFICES ASSUME h.vehicle # v PROVE FALSE
  OBVIOUS
<1>1. /\ h.phase = "planned" /\ h.op = "update" /\ deadlines' = rows
      /\ vehicles' = [vehicles EXCEPT ![h.vehicle] = UpdatedRow(h)]
  BY DEF CommitUpdate
<1>2. TypeOK /\ HandlersSound
  BY DEF IInv
<1>3. /\ h \in PlannedHandler /\ h.payload.deadlines \in Seq(DeadlineDto)
      /\ h.lifted \subseteq h.kept
      /\ \A d \in h.kept : deadlines[d].vehicle = h.vehicle
  BY <1>1, <1>2, Planned
<1> HIDE DEF h
<1>4. vehicles'[v] = vehicles[v]
  BY <1>1
<1>5. /\ \A d \in DOMAIN deadlines : d \notin h.lifted => rows[d] = deadlines[d]
      /\ \A d \in DOMAIN rows \ DOMAIN deadlines :
            \E i \in 1..Len(h.payload.deadlines) :
               /\ h.payload.deadlines[i] \in DeadlineDto
               /\ rows[d] = NewDeadline(h.vehicle, h.payload.deadlines[i])
  BY <1>1, <1>2, <1>3, UpdatedTable
<1> HIDE DEF rows
<1>6. \A d \in DOMAIN rows \ DOMAIN deadlines : rows[d].vehicle # v
  BY <1>5, NewDeadlineVehicle
<1>7. \A d \in DOMAIN deadlines : deadlines[d].vehicle = v => rows[d] = deadlines[d]
  BY <1>3, <1>5
<1>8. ~Touched(v)
  BY <1>1, <1>4, <1>6, <1>7 DEF Touched
<1>9. QED
  BY <1>8

LEMMA CommitRemoveTouches ==
    ASSUME IInv, NEW r \in Requests, CommitRemove(r),
           NEW v \in DOMAIN vehicles, Touched(v)
    PROVE  handler[r].vehicle = v
<1> DEFINE h == handler[r]
           rows == RemovedDeadlines(h)
<1> SUFFICES ASSUME h.vehicle # v PROVE FALSE
  OBVIOUS
<1>1. /\ h.phase = "planned" /\ h.op = "remove" /\ deadlines' = rows
      /\ vehicles' = [vehicles EXCEPT ![h.vehicle].deleted = TRUE]
  BY DEF CommitRemove
<1>2. TypeOK /\ HandlersSound
  BY DEF IInv
<1>3. /\ h \in PlannedHandler
      /\ \A d \in h.kept : deadlines[d].vehicle = h.vehicle
  BY <1>1, <1>2, Planned
<1> HIDE DEF h
<1>4. vehicles'[v] = vehicles[v]
  BY <1>1
<1>5. /\ DOMAIN rows = DOMAIN deadlines
      /\ \A d \in DOMAIN deadlines : d \notin h.kept => rows[d] = deadlines[d]
  BY <1>2, <1>3, RemovedTable
<1> HIDE DEF rows
<1>6. QED
  BY <1>1, <1>3, <1>4, <1>5 DEF Touched

LEMMA TouchedByCommit ==
    ASSUME IInv, [Next]_vars, NEW v \in DOMAIN vehicles, Touched(v)
    PROVE  \E r \in Requests : /\ CommitUpdate(r) \/ CommitRemove(r)
                               /\ handler[r].vehicle = v
<1>1. ~UNCHANGED <<vehicles, deadlines>>
  BY DEF Touched
<1>2. QED
  BY <1>1, StepCases, CreateTouchesNothing, CommitUpdateTouches, CommitRemoveTouches

\* Saves and soft-removals name a row by its identifier alone, and still only
\* the owner's requests reach it: the scope checked in findOne survives the
\* awaits in between.
THEOREM OwnersReachTheirRows == Spec => OwnersOnly
<1>1. ASSUME IInv, [Next]_vars PROVE TouchesOwnRows
  <2>1. ASSUME NEW v \in DOMAIN vehicles, Touched(v)
        PROVE  \E r \in Requests : /\ Finishes(r)
                                   /\ handler[r].phase = "planned"
                                   /\ handler[r].vehicle = v
                                   /\ handler[r].user = vehicles[v].owner
    <3>1. PICK r \in Requests : /\ CommitUpdate(r) \/ CommitRemove(r)
                                /\ handler[r].vehicle = v
      BY <1>1, <2>1, TouchedByCommit
    <3>2. handler[r].phase = "planned"
      BY <3>1 DEF CommitUpdate, CommitRemove
    <3>3. handler[r].user = vehicles[v].owner
      BY <1>1, <3>1, <3>2, Planned DEF IInv
    <3>4. handler \in [Requests -> Handlers]
      BY <1>1 DEF IInv, TypeOK, Handlers
    <3>5. handler'[r].phase = "done"
      BY <3>1, <3>4 DEF CommitUpdate, CommitRemove, Answer, Answered
    <3>6. QED
      BY <3>1, <3>2, <3>3, <3>5 DEF Finishes
  <2>2. QED
    BY <2>1 DEF TouchesOwnRows
<1>2. IInv /\ [Next]_vars => [TouchesOwnRows]_vars
  BY <1>1
<1>3. QED
  BY <1>2, Inductive, PTL DEF Spec, OwnersOnly

\* A handler in flight after a step was in flight on the same vehicle before
\* it, or has just found the vehicle alive.
LEMMA InFlightAfter ==
    ASSUME IInv, [Next]_vars, NEW q \in Requests,
           handler'[q].phase \in {"loaded", "planned"}
    PROVE  \/ InFlight(q) /\ handler[q].vehicle = handler'[q].vehicle
           \/ ~vehicles[handler'[q].vehicle].deleted
<1> DEFINE Goal == \/ InFlight(q) /\ handler[q].vehicle = handler'[q].vehicle
                   \/ ~vehicles[handler'[q].vehicle].deleted
<1> SUFFICES Goal
  OBVIOUS
<1>1. handler \in [Requests -> Handlers]
  BY DEF IInv, TypeOK, Handlers
<1>2. CASE handler'[q] = handler[q]
  BY <1>2 DEF InFlight
<1>3. ASSUME NEW r \in Requests, NEW op, NEW u, NEW v, NEW status,
             Answer(r, op, u, v, status)
      PROVE  Goal
  <2>1. CASE q = r
    BY <1>1, <1>3, <2>1 DEF Answer, Answered
  <2>2. CASE q # r
    BY <1>1, <1>2, <1>3, <2>2 DEF Answer
  <2>3. QED
    BY <2>1, <2>2
<1>4. ASSUME NEW r \in Requests, NEW u \in Users, NEW v \in VehicleIds,
             NEW p \in Payloads, LoadForUpdate(r, u, v, p)
      PROVE  Goal
  <2>1. ~vehicles[v].deleted
    BY <1>4 DEF LoadForUpdate, FindAll
  <2>2. q = r => handler'[q].vehicle = v
    BY <1>1, <1>4 DEF LoadForUpdate
  <2>3. q # r => handler'[q] = handler[q]
    BY <1>1, <1>4 DEF LoadForUpdate
  <2>4. QED
    BY <1>2, <2>1, <2>2, <2>3
<1>5. ASSUME NEW r \in Requests, NEW u \in Users, NEW v \in VehicleIds,
             LoadForRemove(r, u, v)
      PROVE  Goal
  <2>1. ~vehicles[v].deleted
    BY <1>5 DEF LoadForRemove, FindAll
  <2>2. q = r => handler'[q].vehicle = v
    BY <1>1, <1>5 DEF LoadForRemove
  <2>3. q # r => handler'[q] = handler[q]
    BY <1>1, <1>5 DEF LoadForRemove
  <2>4. QED
    BY <1>2, <2>1, <2>2, <2>3
<1>6. ASSUME NEW r \in Requests, Reload(r) PROVE Goal
  <2>1. q = r => handler[q].phase = "loaded" /\ handler'[q].vehicle = handler[q].vehicle
    BY <1>1, <1>6 DEF Reload
  <2>2. q # r => handler'[q] = handler[q]
    BY <1>1, <1>6 DEF Reload
  <2>3. QED
    BY <1>2, <2>1, <2>2 DEF InFlight
<1>7. CASE Restart
  <2>1. InFlight(q) => handler'[q].phase = "done"
    BY <1>7 DEF Restart, Answered
  <2>2. ~InFlight(q) => handler'[q] = handler[q]
    BY <1>7 DEF Restart
  <2>3. QED
    BY <1>2, <2>1, <2>2
<1>8. CASE UNCHANGED vars
  BY <1>2, <1>8 DEF vars
<1>9. ASSUME NEW r \in Requests, Proceed(r) PROVE Goal
  <2> HIDE DEF Goal
  <2>1. CASE CommitUpdate(r)
    BY <1>3, <2>1 DEF CommitUpdate
  <2>2. CASE RollBackUpdate(r)
    BY <1>3, <2>2 DEF RollBackUpdate, Refuse
  <2>3. CASE CommitRemove(r)
    BY <1>3, <2>3 DEF CommitRemove
  <2>4. CASE RollBackRemove(r)
    BY <1>3, <2>4 DEF RollBackRemove, Refuse
  <2>5. QED
    BY <1>6, <1>9, <2>1, <2>2, <2>3, <2>4 DEF Proceed
<1>10. ASSUME NEW r \in Requests, NEW u \in Users, NEW p \in Payloads,
              RefuseCreate(r, u, p) \/ Create(r, u, p)
       PROVE  Goal
  BY <1>3, <1>10 DEF RefuseCreate, Create, Refuse
<1>11. ASSUME NEW r \in Requests, NEW u \in Users, NEW v \in VehicleIds,
              NEW p \in Payloads, RefuseUpdate(r, u, v, p)
       PROVE  Goal
  BY <1>3, <1>11 DEF RefuseUpdate, Refuse
<1>12. ASSUME NEW r \in Requests, NEW u \in Users, NEW v \in VehicleIds,
              RefuseRemove(r, u, v)
       PROVE  Goal
  BY <1>3, <1>12 DEF RefuseRemove, Refuse
<1> HIDE DEF Goal
<1>13. CASE Next
  <2>1. CASE \E r \in Requests, u \in Users, p \in Payloads :
                RefuseCreate(r, u, p) \/ Create(r, u, p)
    BY <1>10, <2>1
  <2>2. CASE \E r \in Requests, u \in Users, v \in VehicleIds, p \in Payloads :
                RefuseUpdate(r, u, v, p) \/ LoadForUpdate(r, u, v, p)
    BY <1>4, <1>11, <2>2
  <2>3. CASE \E r \in Requests, u \in Users, v \in VehicleIds :
                RefuseRemove(r, u, v) \/ LoadForRemove(r, u, v)
    BY <1>5, <1>12, <2>3
  <2>4. CASE \E r \in Requests : Proceed(r)
    BY <1>9, <2>4
  <2>5. QED
    BY <1>7, <1>13, <2>1, <2>2, <2>3, <2>4 DEF Next
<1>14. QED
  BY <1>8, <1>13 DEF Goal

\* Once no handler holds a copy of a deleted vehicle, nothing brings it back.
THEOREM TombstonesAreFinal == Spec => RestingTombstoneStays
<1>1. ASSUME IInv, [Next]_vars PROVE LetsRest
  <2>1. ASSUME NEW v \in DOMAIN vehicles, Resting(v)
        PROVE  ~Touched(v) /\ Resting(v)'
    <3>1. ~Touched(v)
      <4>1. \A r \in Requests : handler[r].phase = "planned" => handler[r].vehicle # v
        BY <2>1 DEF Resting, InFlight
      <4>2. QED
        BY <1>1, <4>1, TouchedByCommit DEF CommitUpdate, CommitRemove
    <3>2. vehicles'[v].deleted
      BY <2>1, <3>1 DEF Resting, Touched
    <3>3. ASSUME NEW q \in Requests, InFlight(q)' PROVE handler'[q].vehicle # v
      BY <1>1, <2>1, <3>3, InFlightAfter DEF InFlight, Resting
    <3>4. QED
      BY <3>1, <3>2, <3>3 DEF Resting
  <2>2. QED
    BY <2>1 DEF LetsRest
<1>2. IInv /\ [Next]_vars => [LetsRest]_vars
  BY <1>1
<1>3. QED
  BY <1>2, Inductive, PTL DEF Spec, RestingTombstoneStays

-----------------------------------------------------------------------------
(* Where requests on one vehicle do not overlap: what a commit then does   *)
(* to the tables, what never goes wrong with them, and that the three      *)
(* visits of a request to the database behave as one.                      *)

\* No two requests in flight are about the same vehicle.
HandlersApart ==
    \A q, r \in Requests :
        InFlight(q) /\ InFlight(r) /\ handler[q].vehicle = handler[r].vehicle
        => q = r

\* What a handler in flight holds is what the tables still say: the row it read
\* is live and unchanged, it lists all the deadlines of the vehicle or none,
\* and its plan lifts no tombstone and leaves no row out unless the payload
\* brings a list of its own.
Fresh(h, cars, dues) ==
    LET all == {d \in DOMAIN dues : dues[d].vehicle = h.vehicle}
    IN  h.phase \in {"loaded", "planned"} =>
          /\ ~cars[h.vehicle].deleted
          /\ h.seen = cars[h.vehicle].fields
          /\ h.op = "update" => h.payload \in Payloads
          /\ h.op = "remove" => h.payload = NoBody
          /\ h.kept = IF h.payload.replaces THEN {} ELSE all
          /\ h.phase = "planned" =>
                /\ ~h.lift /\ h.lifted = {}
                /\ h.changed = {f \in Fields : /\ h.op = "update"
                                               /\ Entity(h)[f] # h.seen[f]}
                /\ h.orphans = IF h.payload.replaces THEN all ELSE {}

HandlersFresh == \A r \in Requests : Fresh(handler[r], vehicles, deadlines)

\* What a DELETE answered for is a row of the table.
RemovalsAreRows ==
    \A r \in Requests :
        /\ handler[r].phase = "done"
        /\ handler[r].op = "remove" /\ handler[r].status = 204
        => handler[r].vehicle \in DOMAIN vehicles

XInv ==
    /\ IInv
    /\ TombstoneCoversDeadlines
    /\ HandlersApart
    /\ HandlersFresh
    /\ RemovalsAreRows /\ DeletedStaysDeleted
    /\ DeadlineCap

-----------------------------------------------------------------------------
(* The rows of one payload beside the rows there are.                      *)

LEMMA RowsBeside ==
    ASSUME NEW rows \in Seq(DeadlineRow), NEW new \in Seq(DeadlineRow)
    PROVE  /\ rows \o new \in Seq(DeadlineRow)
           /\ Len(rows \o new) = Len(rows) + Len(new)
           /\ \A d \in 1..(Len(rows) + Len(new)) :
                 (rows \o new)[d] = IF d <= Len(rows) THEN rows[d]
                                    ELSE new[d - Len(rows)]
BY ConcatProperties

\* The index holds of rows of one payload put beside rows it already holds of,
\* where their vehicle has no row yet.
LEMMA UniqueAppended ==
    ASSUME NEW rows \in Seq(DeadlineRow), UniqueKinds(rows),
           NEW v \in Nat, NEW dtos \in Seq(DeadlineDto), Buildable(dtos),
           dtos # <<>> => \A d \in DOMAIN rows : rows[d].vehicle # v
    PROVE  UniqueKinds(rows \o BuildDeadlines(v, dtos))
<1> DEFINE new == BuildDeadlines(v, dtos)
<1>1. /\ new \in Seq(DeadlineRow) /\ Len(new) = Len(dtos)
      /\ \A i \in 1..Len(dtos) : dtos[i] \in DeadlineDto /\ new[i] = NewDeadline(v, dtos[i])
  BY BuiltRows
<1> HIDE DEF new
<1>2. /\ rows \o new \in Seq(DeadlineRow)
      /\ Len(rows \o new) = Len(rows) + Len(new)
      /\ \A d \in 1..(Len(rows) + Len(new)) :
            (rows \o new)[d] = IF d <= Len(rows) THEN rows[d] ELSE new[d - Len(rows)]
  BY <1>1, RowsBeside
<1> DEFINE n == Len(rows)
<1>3. n \in Nat /\ Len(dtos) \in Nat /\ DOMAIN rows = 1..n /\ DOMAIN dtos = 1..Len(dtos)
  BY LenProperties
<1>4. /\ DOMAIN (rows \o new) = 1..(n + Len(dtos))
      /\ \A d \in 1..(n + Len(dtos)) :
            (rows \o new)[d] = IF d <= n THEN rows[d] ELSE new[d - n]
  <2>1. DOMAIN (rows \o new) = 1..(n + Len(new))
    BY <1>2, LenProperties
  <2>2. QED
    BY <1>2, <1>1, <2>1
<1>5. ASSUME NEW d \in DOMAIN (rows \o new), d \notin DOMAIN rows
      PROVE  /\ d - n \in 1..Len(dtos) /\ dtos # <<>>
             /\ (rows \o new)[d].vehicle = v
             /\ (rows \o new)[d].type = dtos[d - n].type
  <2>1. d - n \in 1..Len(dtos) /\ (rows \o new)[d] = new[d - n]
    BY <1>3, <1>4, <1>5
  <2>2. new[d - n] = NewDeadline(v, dtos[d - n])
    BY <1>1, <2>1
  <2>3. dtos # <<>>
    BY <2>1
  <2>4. QED
    BY <2>1, <2>2, <2>3 DEF NewDeadline
<1>6. \A d \in DOMAIN rows : d \in DOMAIN (rows \o new) /\ (rows \o new)[d] = rows[d]
  BY <1>3, <1>4
<1>7. ASSUME NEW d \in DOMAIN (rows \o new), NEW e \in DOMAIN (rows \o new),
             d # e, (rows \o new)[d].type = (rows \o new)[e].type,
             ~(rows \o new)[d].deleted, ~(rows \o new)[e].deleted,
             (rows \o new)[d].vehicle = (rows \o new)[e].vehicle,
             (rows \o new)[d].type # Custom
      PROVE  FALSE
  <2>1. CASE d \in DOMAIN rows /\ e \in DOMAIN rows
    BY <1>6, <1>7, <2>1 DEF UniqueKinds
  <2>2. CASE d \in DOMAIN rows /\ e \notin DOMAIN rows
    BY <1>5, <1>6, <1>7, <2>2
  <2>3. CASE d \notin DOMAIN rows /\ e \in DOMAIN rows
    BY <1>5, <1>6, <1>7, <2>3
  <2>4. CASE d \notin DOMAIN rows /\ e \notin DOMAIN rows
    <3>1. d - n \in DOMAIN dtos /\ e - n \in DOMAIN dtos
      BY <1>3, <1>5, <2>4
    <3>2. dtos[d - n].type = dtos[e - n].type /\ dtos[d - n].type # Custom
      BY <1>5, <1>7, <2>4
    <3>3. d - n # e - n
      BY <1>3, <1>4, <1>7
    <3>4. QED
      BY <3>1, <3>2, <3>3 DEF Buildable
  <2>5. QED
    BY <2>1, <2>2, <2>3, <2>4
<1>8. QED
  BY <1>7 DEF UniqueKinds, new

\* The rules of the entity contain the index.
LEMMA IndexFromRules ==
    ASSUME TypeOK, DeadlineRules
    PROVE  UniqueKinds(deadlines)
<1>1. \A d \in DOMAIN deadlines : deadlines[d].type \in StandardTypes \union {Custom}
  BY TablesTyped DEF DeadlineRow, DeadlineTypes
<1>2. QED
  BY <1>1 DEF UniqueKinds, DeadlineRules

\* No vehicle has a deadline before it is in the table: PostgreSQL never turns
\* down the rows of a new one.
LEMMA CreateIsUnique ==
    ASSUME IInv, NEW p \in Payloads, Buildable(p.deadlines)
    PROVE  UniqueKinds(deadlines \o BuildDeadlines(Len(vehicles) + 1, p.deadlines))
<1>1. UniqueKinds(deadlines)
  BY IndexFromRules DEF IInv
<1>2. /\ deadlines \in Seq(DeadlineRow)
      /\ Len(vehicles) \in Nat /\ DOMAIN vehicles = 1..Len(vehicles)
  BY TablesTyped DEF IInv, TypeOK
<1>3. Len(vehicles) + 1 \in Nat /\ Len(vehicles) + 1 \notin DOMAIN vehicles
  BY <1>2
<1>4. \A d \in DOMAIN deadlines : deadlines[d].vehicle # Len(vehicles) + 1
  BY <1>3 DEF IInv, ForeignKeys
<1>5. p.deadlines \in Seq(DeadlineDto)
  BY BodyTyped
<1>6. QED
  BY <1>1, <1>2, <1>3, <1>4, <1>5, UniqueAppended

-----------------------------------------------------------------------------
(* What a commit does to the tables.                                       *)

Adds(u, p) ==
    /\ ValidCreate(p) /\ Buildable(p.deadlines)
    /\ vehicles' = Append(vehicles, [owner |-> u, fields |-> CreatedFields(p),
                                     deleted |-> FALSE])
    /\ deadlines' = deadlines \o BuildDeadlines(Len(vehicles) + 1, p.deadlines)

Edited(v, p) ==
    [f \in Fields |-> IF p.fields[f] = Omitted THEN vehicles[v].fields[f]
                      ELSE p.fields[f]]

Edits(v, p) ==
    /\ ValidUpdate(p) /\ Buildable(p.deadlines)
    /\ ~vehicles[v].deleted
    /\ p.replaces => DeadlinesOf(v) = {}
    /\ vehicles' = [vehicles EXCEPT ![v] = [owner |-> vehicles[v].owner,
                                            fields |-> Edited(v, p),
                                            deleted |-> FALSE]]
    /\ deadlines' = deadlines \o BuildDeadlines(v, p.deadlines)

Hides(v) ==
    /\ ~vehicles[v].deleted
    /\ vehicles' = [vehicles EXCEPT ![v].deleted = TRUE]
    /\ deadlines' = [d \in DOMAIN deadlines |->
          [deadlines[d] EXCEPT !.deleted = IF d \in DeadlinesOf(v) THEN TRUE ELSE @]]

LEMMA CreateAdds ==
    ASSUME IInv, NEW r \in Requests, NEW u \in Users, NEW p \in Payloads,
           Create(r, u, p)
    PROVE  Adds(u, p) /\ Answer(r, "create", u, Len(vehicles) + 1, 201)
<1>1. ValidCreate(p) /\ Buildable(p.deadlines)
  BY DEF Create
<1>2. UniqueKinds(deadlines \o BuildDeadlines(Len(vehicles) + 1, p.deadlines))
  BY <1>1, CreateIsUnique
<1>3. QED
  BY <1>1, <1>2 DEF Create, Adds

\* The plan of a fresh handler lifts nothing, so a save appends the rows of the
\* payload and rewrites none.
LEMMA UpdateAppends ==
    ASSUME XInv, NEW r \in Requests, handler[r].phase = "planned"
    PROVE  UpdatedDeadlines(handler[r])
             = deadlines \o BuildDeadlines(handler[r].vehicle,
                                           handler[r].payload.deadlines)
<1> DEFINE h == handler[r]
           rows == [d \in 1..Len(deadlines) |->
              [deadlines[d] EXCEPT !.deleted = IF d \in h.lifted THEN FALSE ELSE @]]
<1>1. h.lifted = {}
  BY DEF XInv, HandlersFresh, Fresh
<1>2. /\ deadlines \in Seq(DeadlineRow) /\ DOMAIN deadlines = 1..Len(deadlines)
      /\ \A d \in DOMAIN deadlines : deadlines[d] \in DeadlineRow
  BY TablesTyped DEF XInv, IInv, TypeOK
<1>3. \A d \in DOMAIN deadlines :
         [deadlines[d] EXCEPT !.deleted = IF d \in h.lifted THEN FALSE ELSE @]
           = deadlines[d]
  BY <1>1, <1>2 DEF DeadlineRow
<1>4. rows = deadlines
  <2>1. rows = [d \in DOMAIN deadlines |-> deadlines[d]]
    BY <1>2, <1>3
  <2>2. deadlines = [d \in DOMAIN deadlines |-> deadlines[d]]
    BY <1>2
  <2>3. QED
    BY <2>1, <2>2
<1>5. QED
  BY <1>4 DEF UpdatedDeadlines

\* What a fresh handler knows of its vehicle.
LEMMA FreshFacts ==
    ASSUME XInv, NEW r \in Requests, handler[r].phase = "planned"
    PROVE  /\ handler[r] \in PlannedHandler
           /\ handler[r].vehicle \in DOMAIN vehicles
           /\ ValidUpdate(handler[r].payload)
           /\ Buildable(handler[r].payload.deadlines)
           /\ handler[r].payload.deadlines \in Seq(DeadlineDto)
           /\ ~handler[r].payload.replaces => handler[r].payload.deadlines = <<>>
           /\ handler[r].payload.replaces \in BOOLEAN
           /\ ~vehicles[handler[r].vehicle].deleted
           /\ handler[r].seen = vehicles[handler[r].vehicle].fields
           /\ handler[r].op = "update" => handler[r].payload \in Payloads
           /\ handler[r].op = "remove" => handler[r].payload = NoBody
           /\ handler[r].kept = IF handler[r].payload.replaces THEN {}
                                ELSE DeadlinesOf(handler[r].vehicle)
           /\ ~handler[r].lift
           /\ handler[r].changed = {f \in Fields : /\ handler[r].op = "update"
                                                   /\ Entity(handler[r])[f]
                                                        # handler[r].seen[f]}
           /\ handler[r].orphans = IF handler[r].payload.replaces
                                   THEN DeadlinesOf(handler[r].vehicle) ELSE {}
<1> DEFINE h == handler[r]
<1>1. TypeOK /\ HandlersSound /\ Fresh(h, vehicles, deadlines)
  BY DEF XInv, IInv, HandlersFresh
<1>2. /\ h \in PlannedHandler /\ h.vehicle \in DOMAIN vehicles
      /\ ValidUpdate(h.payload) /\ Buildable(h.payload.deadlines)
  BY <1>1, Planned
<1>3. h.payload \in Payloads \union {NoBody}
  BY <1>2 DEF PlannedHandler
<1>4. /\ h.payload.deadlines \in Seq(DeadlineDto)
      /\ ~h.payload.replaces => h.payload.deadlines = <<>>
      /\ h.payload.replaces \in BOOLEAN
  BY <1>3, BodyTyped
<1>5. QED
  BY <1>1, <1>2, <1>4 DEF Fresh, DeadlinesOf

\* A save that succeeds writes the payload over the row it read, and brings
\* deadlines only to a vehicle that had none.
LEMMA CommitUpdateEdits ==
    ASSUME XInv, NEW r \in Requests, CommitUpdate(r)
    PROVE  /\ handler[r].vehicle \in DOMAIN vehicles
           /\ handler[r].payload \in Payloads
           /\ Edits(handler[r].vehicle, handler[r].payload)
<1> DEFINE h == handler[r]
           v == h.vehicle
           p == h.payload
<1>1. /\ h.phase = "planned" /\ h.op = "update" /\ ~SaveFails(h)
      /\ vehicles' = [vehicles EXCEPT ![v] = UpdatedRow(h)]
      /\ deadlines' = UpdatedDeadlines(h)
  BY DEF CommitUpdate
<1>2. deadlines' = deadlines \o BuildDeadlines(v, p.deadlines)
  BY <1>1, UpdateAppends
<1>3. /\ h \in PlannedHandler /\ v \in DOMAIN vehicles
      /\ ValidUpdate(p) /\ Buildable(p.deadlines)
      /\ ~vehicles[v].deleted /\ h.seen = vehicles[v].fields
      /\ p \in Payloads /\ ~h.lift
      /\ h.changed = {f \in Fields : Entity(h)[f] # h.seen[f]}
      /\ h.orphans = IF p.replaces THEN DeadlinesOf(v) ELSE {}
  BY <1>1, FreshFacts
<1>4. p.replaces => DeadlinesOf(v) = {}
  BY <1>1, <1>3 DEF SaveFails
<1>5. vehicles[v] \in VehicleRow
  BY <1>3, TablesTyped DEF XInv, IInv
<1>6. UpdatedRow(h) = [owner |-> vehicles[v].owner, fields |-> Edited(v, p),
                       deleted |-> FALSE]
  <2>1. \A f \in Fields :
          (IF f \in h.changed THEN Entity(h)[f] ELSE vehicles[v].fields[f])
            = (IF p.fields[f] = Omitted THEN vehicles[v].fields[f] ELSE p.fields[f])
    BY <1>3 DEF Entity
  <2>2. [f \in Fields |-> IF f \in h.changed THEN Entity(h)[f]
                          ELSE vehicles[v].fields[f]] = Edited(v, p)
    BY <2>1 DEF Edited
  <2>3. (IF h.lift THEN FALSE ELSE vehicles[v].deleted) = FALSE
    BY <1>3, <1>5 DEF VehicleRow
  <2>4. QED
    BY <2>2, <2>3 DEF UpdatedRow
<1>7. vehicles' = [vehicles EXCEPT ![v] = [owner |-> vehicles[v].owner,
                                           fields |-> Edited(v, p),
                                           deleted |-> FALSE]]
  BY <1>1, <1>6
<1>8. QED
  BY <1>2, <1>3, <1>4, <1>7 DEF Edits

LEMMA CommitRemoveHides ==
    ASSUME XInv, NEW r \in Requests, CommitRemove(r)
    PROVE  /\ handler[r].vehicle \in DOMAIN vehicles
           /\ Hides(handler[r].vehicle)
<1> DEFINE h == handler[r]
           v == h.vehicle
<1>1. /\ h.phase = "planned" /\ h.op = "remove"
      /\ vehicles' = [vehicles EXCEPT ![v].deleted = TRUE]
      /\ deadlines' = RemovedDeadlines(h)
  BY DEF CommitRemove
<1>2. /\ v \in DOMAIN vehicles /\ ~vehicles[v].deleted
      /\ h.payload = NoBody
      /\ h.kept = IF h.payload.replaces THEN {} ELSE DeadlinesOf(v)
  BY <1>1, FreshFacts
<1>3. h.kept = DeadlinesOf(v)
  BY <1>2 DEF NoBody
<1>4. DOMAIN deadlines = 1..Len(deadlines)
  BY TablesTyped DEF XInv, IInv
<1>5. QED
  BY <1>1, <1>2, <1>3, <1>4 DEF Hides, RemovedDeadlines

\* The tables change in three ways only.
LEMMA StepEffects ==
    ASSUME XInv, [Next]_vars
    PROVE  \/ UNCHANGED <<vehicles, deadlines>>
           \/ \E u \in Users, p \in Payloads : Adds(u, p)
           \/ \E v \in DOMAIN vehicles, p \in Payloads : Edits(v, p)
           \/ \E v \in DOMAIN vehicles : Hides(v)
<1>1. IInv
  BY DEF XInv
<1>2. QED
  BY <1>1, StepCases, CreateAdds, CommitUpdateEdits, CommitRemoveHides

-----------------------------------------------------------------------------
(* What a step does to one handler.                                        *)

\* Why a handler answers what it answers.
Finished(q) ==
    /\ handler'[q].phase = "done"
    /\ handler'[q].op = "remove" /\ handler'[q].status = 204
       => CommitRemove(q) /\ handler'[q].vehicle = handler[q].vehicle
    /\ handler'[q].status = 500
       => \/ RollBackUpdate(q) \/ RollBackRemove(q)
          \/ \E u \in Users, p \in Payloads :
                Create(q, u, p) /\ UNCHANGED <<vehicles, deadlines>>

\* Every handler a step is not about stays as it is.
Moves(q) ==
    \/ \E u \in Users, v \in VehicleIds, p \in Payloads : LoadForUpdate(q, u, v, p)
    \/ \E u \in Users, v \in VehicleIds : LoadForRemove(q, u, v)
    \/ Reload(q)
    \/ Finished(q)

LEMMA AnswerFinishes ==
    ASSUME IInv, NEW r \in Requests, NEW op, NEW u, NEW v, NEW status,
           Answer(r, op, u, v, status), op # "remove" \/ status # 204, status # 500
    PROVE  Finished(r) /\ \A q \in Requests \ {r} : handler'[q] = handler[q]
<1>1. handler \in [Requests -> Handlers]
  BY DEF IInv, TypeOK, Handlers
<1>2. handler'[r] = Answered(op, u, v, status)
  BY <1>1 DEF Answer
<1>3. /\ handler'[r].phase = "done" /\ handler'[r].op = op
      /\ handler'[r].status = status
  BY <1>2 DEF Answered
<1>4. \A q \in Requests \ {r} : handler'[q] = handler[q]
  BY <1>1 DEF Answer
<1>5. QED
  BY <1>3, <1>4 DEF Finished

LEMMA OneMoves ==
    ASSUME IInv, Next, ~Restart
    PROVE  \E r \in Requests :
              Moves(r) /\ \A q \in Requests \ {r} : handler'[q] = handler[q]
<1> DEFINE Alone(r) == \A q \in Requests \ {r} : handler'[q] = handler[q]
           Goal == \E r \in Requests : Moves(r) /\ Alone(r)
<1>1. handler \in [Requests -> Handlers]
  BY DEF IInv, TypeOK, Handlers
<1>2. ASSUME NEW r \in Requests, NEW op, NEW u, NEW v, NEW status,
             Answer(r, op, u, v, status), op # "remove" \/ status # 204, status # 500
      PROVE  Goal
  BY <1>2, AnswerFinishes DEF Moves
<1>3. ASSUME NEW r \in Requests, NEW u \in Users, NEW p \in Payloads,
             RefuseCreate(r, u, p)
      PROVE  Goal
  <2>1. Answer(r, "create", u, 0, 400)
    BY <1>3 DEF RefuseCreate, Refuse
  <2>2. QED
    BY <1>2, <2>1
<1>4. ASSUME NEW r \in Requests, NEW u \in Users, NEW p \in Payloads,
             Create(r, u, p)
      PROVE  Goal
  <2>1. Answer(r, "create", u, Len(vehicles) + 1, 201)
    BY <1>4, CreateAdds
  <2>2. QED
    BY <1>2, <2>1
<1>5. ASSUME NEW r \in Requests, NEW u \in Users, NEW v \in VehicleIds,
             NEW p \in Payloads, RefuseUpdate(r, u, v, p)
      PROVE  Goal
  <2>1. Answer(r, "update", u, v, 400) \/ Answer(r, "update", u, v, 404)
    BY <1>5 DEF RefuseUpdate, Refuse
  <2>2. QED
    BY <1>2, <2>1
<1>6. ASSUME NEW r \in Requests, NEW u \in Users, NEW v \in VehicleIds,
             RefuseRemove(r, u, v)
      PROVE  Goal
  <2>1. Answer(r, "remove", u, v, 404)
    BY <1>6 DEF RefuseRemove, Refuse
  <2>2. QED
    BY <1>2, <2>1
<1>7. ASSUME NEW r \in Requests, NEW u \in Users, NEW v \in VehicleIds,
             NEW p \in Payloads, LoadForUpdate(r, u, v, p)
      PROVE  Goal
  <2>1. Alone(r)
    BY <1>1, <1>7 DEF LoadForUpdate
  <2>2. QED
    BY <1>7, <2>1 DEF Moves
<1>8. ASSUME NEW r \in Requests, NEW u \in Users, NEW v \in VehicleIds,
             LoadForRemove(r, u, v)
      PROVE  Goal
  <2>1. Alone(r)
    BY <1>1, <1>8 DEF LoadForRemove
  <2>2. QED
    BY <1>8, <2>1 DEF Moves
<1>9. ASSUME NEW r \in Requests, Proceed(r)
      PROVE  Goal
  <2>1. CASE Reload(r)
    <3>1. Alone(r)
      BY <1>1, <2>1 DEF Reload
    <3>2. QED
      BY <2>1, <3>1 DEF Moves
  <2>2. CASE CommitUpdate(r)
    <3>1. Answer(r, "update", handler[r].user, handler[r].vehicle, 200)
      BY <2>2 DEF CommitUpdate
    <3>2. QED
      BY <1>2, <3>1
  <2>3. CASE RollBackUpdate(r) \/ RollBackRemove(r)
    <3>1. PICK op \in {"update", "remove"} :
             Answer(r, op, handler[r].user, handler[r].vehicle, 500)
      BY <2>3 DEF RollBackUpdate, RollBackRemove, Refuse
    <3>2. handler'[r] = Answered(op, handler[r].user, handler[r].vehicle, 500)
      BY <1>1, <3>1 DEF Answer
    <3>3. handler'[r].phase = "done" /\ handler'[r].status = 500
      BY <3>2 DEF Answered
    <3>4. Finished(r)
      BY <2>3, <3>3 DEF Finished
    <3>5. Alone(r)
      BY <1>1, <3>1 DEF Answer
    <3>6. QED
      BY <3>4, <3>5 DEF Moves
  <2>4. CASE CommitRemove(r)
    <3>1. Answer(r, "remove", handler[r].user, handler[r].vehicle, 204)
      BY <2>4 DEF CommitRemove
    <3>2. handler'[r] = Answered("remove", handler[r].user, handler[r].vehicle, 204)
      BY <1>1, <3>1 DEF Answer
    <3>3. /\ handler'[r].phase = "done" /\ handler'[r].status = 204
          /\ handler'[r].vehicle = handler[r].vehicle
      BY <3>2 DEF Answered
    <3>4. Finished(r)
      BY <2>4, <3>3 DEF Finished
    <3>5. Alone(r)
      BY <1>1, <3>1 DEF Answer
    <3>6. QED
      BY <3>4, <3>5 DEF Moves
  <2>5. QED
    BY <1>9, <2>1, <2>2, <2>3, <2>4 DEF Proceed
<1> HIDE DEF Goal
<1>10. Goal
  BY <1>3, <1>4, <1>5, <1>6, <1>7, <1>8, <1>9 DEF Next
<1>11. QED
  BY <1>10 DEF Goal

\* A restart answers with the loss of the connection and nothing else.
LEMMA RestartFinishes ==
    ASSUME IInv, Restart, NEW q \in Requests
    PROVE  handler'[q] = handler[q] \/ Finished(q)
<1>1. CASE InFlight(q)
  <2>1. handler'[q] = Answered(handler[q].op, handler[q].user, handler[q].vehicle, Lost)
    BY <1>1 DEF Restart
  <2>2. handler'[q].phase = "done" /\ handler'[q].status = 0
    BY <2>1 DEF Answered, Lost
  <2>3. QED
    BY <2>2 DEF Finished
<1>2. CASE ~InFlight(q)
  BY <1>2 DEF Restart
<1>3. QED
  BY <1>1, <1>2

LEMMA StepMoves ==
    ASSUME IInv, [Next]_vars, NEW q \in Requests
    PROVE  handler'[q] = handler[q] \/ Moves(q)
<1>1. CASE UNCHANGED vars
  BY <1>1 DEF vars
<1>2. CASE Restart
  BY <1>2, RestartFinishes DEF Moves
<1>3. CASE Next /\ ~Restart
  BY <1>3, OneMoves
<1>4. QED
  BY <1>1, <1>2, <1>3

-----------------------------------------------------------------------------
(* The handlers stay fresh and apart.                                      *)

\* A handler whose vehicle a step leaves alone is as fresh as it was.
LEMMA FreshStays ==
    ASSUME IInv, KeepsRows, NEW h, h.vehicle \in DOMAIN vehicles,
           ~Touched(h.vehicle), Fresh(h, vehicles, deadlines)
    PROVE  Fresh(h, vehicles', deadlines')
<1>1. vehicles'[h.vehicle] = vehicles[h.vehicle]
  BY DEF Touched
<1>2. {d \in DOMAIN deadlines' : deadlines'[d].vehicle = h.vehicle}
        = {d \in DOMAIN deadlines : deadlines[d].vehicle = h.vehicle}
  BY DEF Touched, KeepsRows
<1>3. QED
  BY <1>1, <1>2 DEF Fresh

\* On a live vehicle every row is live.
LEMMA LiveAreAll ==
    ASSUME IInv, TombstoneCoversDeadlines, NEW v, ~vehicles[v].deleted
    PROVE  LiveDeadlinesOf(v) = DeadlinesOf(v)
BY DEF TombstoneCoversDeadlines, LiveDeadlinesOf, DeadlinesOf

LEMMA LoadForUpdateFresh ==
    ASSUME XInv, NEW r \in Requests, NEW u \in Users, NEW v \in VehicleIds,
           NEW p \in Payloads, LoadForUpdate(r, u, v, p)
    PROVE  Fresh(handler'[r], vehicles', deadlines')
<1>1. handler'[r] = [phase |-> "loaded", op |-> "update", user |-> u, vehicle |-> v,
           payload |-> p, seen |-> vehicles[v].fields,
           kept |-> IF p.replaces THEN {} ELSE LiveDeadlinesOf(v)]
  BY DEF XInv, IInv, TypeOK, LoadForUpdate
<1>2. UNCHANGED <<vehicles, deadlines>> /\ ~vehicles[v].deleted
  BY DEF LoadForUpdate, FindAll
<1>3. LiveDeadlinesOf(v) = {d \in DOMAIN deadlines : deadlines[d].vehicle = v}
  BY <1>2, LiveAreAll DEF XInv, DeadlinesOf
<1>4. QED
  BY <1>1, <1>2, <1>3 DEF Fresh

LEMMA LoadForRemoveFresh ==
    ASSUME XInv, NEW r \in Requests, NEW u \in Users, NEW v \in VehicleIds,
           LoadForRemove(r, u, v)
    PROVE  Fresh(handler'[r], vehicles', deadlines')
<1>1. handler'[r] = [phase |-> "loaded", op |-> "remove", user |-> u, vehicle |-> v,
           payload |-> NoBody, seen |-> vehicles[v].fields,
           kept |-> LiveDeadlinesOf(v)]
  BY DEF XInv, IInv, TypeOK, LoadForRemove
<1>2. UNCHANGED <<vehicles, deadlines>> /\ ~vehicles[v].deleted
  BY DEF LoadForRemove, FindAll
<1>3. LiveDeadlinesOf(v) = {d \in DOMAIN deadlines : deadlines[d].vehicle = v}
  BY <1>2, LiveAreAll DEF XInv, DeadlinesOf
<1>4. NoBody.replaces = FALSE
  BY DEF NoBody
<1>5. QED
  BY <1>1, <1>2, <1>3, <1>4 DEF Fresh

\* A plan compares with the row that findOne read: columns of the payload that
\* differ are all there is to write, and there is no tombstone to lift.
LEMMA ReloadFresh ==
    ASSUME XInv, NEW r \in Requests, Reload(r)
    PROVE  Fresh(handler'[r], vehicles', deadlines')
<1> DEFINE h == handler[r]
           v == h.vehicle
           changed == {f \in Fields : /\ h.op = "update"
                                      /\ Entity(h)[f] # vehicles[v].fields[f]}
           lift == h.op = "update" /\ vehicles[v].deleted
           lifted == {d \in h.kept : h.op = "update" /\ deadlines[d].deleted}
           all == {d \in DOMAIN deadlines : deadlines[d].vehicle = v}
           plan(related) ==
              [phase |-> "planned", op |-> h.op, user |-> h.user,
               vehicle |-> v, payload |-> h.payload, seen |-> h.seen,
               kept |-> h.kept, changed |-> changed, lift |-> lift,
               lifted |-> lifted, orphans |-> related \ h.kept]
<1>1. PICK related \in {DeadlinesOf(v), LiveDeadlinesOf(v)} :
         handler'[r] = plan(related)
  BY DEF XInv, IInv, TypeOK, Reload
<1>2. h.phase = "loaded" /\ UNCHANGED <<vehicles, deadlines>>
  BY DEF Reload
<1>3. /\ ~vehicles[v].deleted
      /\ h.seen = vehicles[v].fields
      /\ h.op = "update" => h.payload \in Payloads
      /\ h.op = "remove" => h.payload = NoBody
      /\ h.kept = IF h.payload.replaces THEN {} ELSE all
  BY <1>2 DEF XInv, HandlersFresh, Fresh
<1>4. related = all
  BY <1>1, <1>3, LiveAreAll DEF XInv, DeadlinesOf
<1>5. lift = FALSE
  BY <1>3
<1>6. lifted = {}
  BY <1>3 DEF XInv, TombstoneCoversDeadlines
<1>7. changed = {f \in Fields : h.op = "update" /\ Entity(h)[f] # h.seen[f]}
  BY <1>3
<1>8. related \ h.kept = IF h.payload.replaces THEN all ELSE {}
  BY <1>3, <1>4
<1> DEFINE k == plan(related)
<1>9. /\ k.phase = "planned" /\ k.op = h.op /\ k.vehicle = v /\ k.payload = h.payload
      /\ k.seen = h.seen /\ k.kept = h.kept /\ k.changed = changed
      /\ k.lift = lift /\ k.lifted = lifted /\ k.orphans = related \ h.kept
  OBVIOUS
<1>10. Entity(k) = Entity(h)
  BY <1>9 DEF Entity
<1> HIDE DEF k, plan, changed, lift, lifted, h
<1>11. Fresh(k, vehicles, deadlines)
  BY <1>3, <1>5, <1>6, <1>7, <1>8, <1>9, <1>10 DEF Fresh
<1>12. QED
  BY <1>1, <1>2, <1>11 DEF k

LEMMA StepFresh ==
    ASSUME XInv, [Next]_vars
    PROVE  HandlersFresh'
<1>1. IInv /\ KeepsRows
  BY StepTables DEF XInv
<1> SUFFICES ASSUME NEW q \in Requests
             PROVE  Fresh(handler'[q], vehicles', deadlines')
  BY DEF HandlersFresh
<1>2. CASE handler'[q] = handler[q] /\ InFlight(q)
  <2>1. handler[q].vehicle \in DOMAIN vehicles
    BY <1>1, <1>2 DEF IInv, HandlersSound, Sound, InFlight
  <2>2. ~Touched(handler[q].vehicle)
    <3>1. ASSUME Touched(handler[q].vehicle) PROVE FALSE
      <4>1. PICK r \in Requests : /\ CommitUpdate(r) \/ CommitRemove(r)
                                  /\ handler[r].vehicle = handler[q].vehicle
        BY <1>1, <2>1, <3>1, TouchedByCommit
      <4>2. InFlight(r)
        BY <4>1 DEF CommitUpdate, CommitRemove, InFlight
      <4>3. r = q
        BY <1>2, <4>1, <4>2 DEF XInv, HandlersApart
      <4>4. handler'[q].phase = "done"
        BY <1>1, <4>1, <4>3 DEF CommitUpdate, CommitRemove, Answer, Answered, IInv, TypeOK
      <4>5. QED
        BY <1>2, <4>4 DEF InFlight
    <3>2. QED
      BY <3>1
  <2>3. Fresh(handler[q], vehicles, deadlines)
    BY DEF XInv, HandlersFresh
  <2>4. QED
    BY <1>1, <1>2, <2>1, <2>2, <2>3, FreshStays
<1>3. CASE handler'[q].phase \notin {"loaded", "planned"}
  BY <1>3 DEF Fresh
<1>4. CASE Moves(q)
  BY <1>3, <1>4, LoadForUpdateFresh, LoadForRemoveFresh, ReloadFresh
     DEF Moves, Finished
<1>5. QED
  BY <1>1, <1>2, <1>3, <1>4, StepMoves DEF InFlight

\* A handler in flight after a step of its own is on the vehicle it was on, or
\* on one that MayStart let it in on.
LEMMA LetIn ==
    ASSUME IInv, NEW q \in Requests, Moves(q), InFlight(q)'
    PROVE  \/ InFlight(q) /\ handler[q].vehicle = handler'[q].vehicle
           \/ MayStart(q, handler'[q].vehicle)
<1>1. handler \in [Requests -> Handlers] /\ handler'[q].phase # "done"
  BY DEF IInv, TypeOK, Handlers, InFlight
<1>2. ASSUME NEW u \in Users, NEW v \in VehicleIds, NEW p \in Payloads,
             LoadForUpdate(q, u, v, p)
      PROVE  MayStart(q, handler'[q].vehicle)
  <2>1. handler'[q].vehicle = v
    BY <1>1, <1>2 DEF LoadForUpdate
  <2>2. QED
    BY <1>2, <2>1 DEF LoadForUpdate
<1>3. ASSUME NEW u \in Users, NEW v \in VehicleIds, LoadForRemove(q, u, v)
      PROVE  MayStart(q, handler'[q].vehicle)
  <2>1. handler'[q].vehicle = v
    BY <1>1, <1>3 DEF LoadForRemove
  <2>2. QED
    BY <1>3, <2>1 DEF LoadForRemove
<1>4. CASE Reload(q)
  <2>1. handler[q].phase = "loaded" /\ handler'[q].vehicle = handler[q].vehicle
    BY <1>1, <1>4 DEF Reload
  <2>2. QED
    BY <2>1 DEF InFlight
<1>5. QED
  BY <1>1, <1>2, <1>3, <1>4 DEF Moves, Finished

LEMMA StepApart ==
    ASSUME XInv, [Next]_vars, ~Overlap
    PROVE  HandlersApart'
<1>1. IInv /\ HandlersApart
  BY DEF XInv
<1> SUFFICES ASSUME NEW q \in Requests, NEW r \in Requests,
                    InFlight(q)', InFlight(r)', q # r,
                    handler'[q].vehicle = handler'[r].vehicle
             PROVE  FALSE
  BY DEF HandlersApart
<1>2. CASE UNCHANGED vars
  BY <1>1, <1>2 DEF vars, InFlight, HandlersApart
<1>3. CASE Restart
  BY <1>3 DEF Restart, InFlight, Answered
<1>4. CASE Next /\ ~Restart
  <2>1. PICK s \in Requests :
           Moves(s) /\ \A t \in Requests \ {s} : handler'[t] = handler[t]
    BY <1>1, <1>4, OneMoves
  <2>2. ASSUME NEW t \in Requests, s # t, InFlight(s)', InFlight(t)',
               handler'[s].vehicle = handler'[t].vehicle
        PROVE  FALSE
    <3>1. InFlight(t) /\ handler[t].vehicle = handler'[s].vehicle
      BY <2>1, <2>2 DEF InFlight
    <3>2. CASE InFlight(s) /\ handler[s].vehicle = handler'[s].vehicle
      BY <1>1, <2>2, <3>1, <3>2 DEF HandlersApart
    <3>3. CASE MayStart(s, handler'[s].vehicle)
      BY <3>1, <3>3 DEF MayStart
    <3>4. QED
      BY <1>1, <2>1, <2>2, <3>2, <3>3, LetIn
  <2>3. CASE s = q \/ s = r
    BY <2>2, <2>3
  <2>4. CASE s # q /\ s # r
    BY <1>1, <2>1, <2>4 DEF InFlight, HandlersApart
  <2>5. QED
    BY <2>3, <2>4
<1>5. QED
  BY <1>2, <1>3, <1>4

-----------------------------------------------------------------------------
(* The tables after each of the three effects.                             *)

LEMMA NewDeadlineLive == \A v, dto : NewDeadline(v, dto).deleted = FALSE
BY DEF NewDeadline

\* The rows of vehicle w that carry no tombstone, in a table of deadlines.
LiveIn(rows, w) == {d \in DOMAIN rows : rows[d].vehicle = w /\ ~rows[d].deleted}

NewIds(n, m) == {n + i : i \in 1..m}

LEMMA LiveAppended ==
    ASSUME NEW rows \in Seq(DeadlineRow), NEW v \in Nat,
           NEW dtos \in Seq(DeadlineDto), NEW w
    PROVE  LiveIn(rows \o BuildDeadlines(v, dtos), w)
             = LiveIn(rows, w) \union (IF w = v THEN NewIds(Len(rows), Len(dtos)) ELSE {})
<1> DEFINE new == BuildDeadlines(v, dtos)
           n == Len(rows)
           m == Len(dtos)
           all == rows \o new
<1>1. /\ new \in Seq(DeadlineRow) /\ Len(new) = m
      /\ \A i \in 1..m : new[i] = NewDeadline(v, dtos[i])
  BY BuiltRows
<1>2. n \in Nat /\ m \in Nat /\ DOMAIN rows = 1..n
  BY LenProperties
<1> HIDE DEF new
<1>3. \A i \in 1..m : new[i].vehicle = v /\ ~new[i].deleted
  BY <1>1, NewDeadlineVehicle, NewDeadlineLive
<1>4. /\ all \in Seq(DeadlineRow) /\ Len(all) = Len(rows) + Len(new)
      /\ \A d \in 1..(Len(rows) + Len(new)) :
            all[d] = IF d <= Len(rows) THEN rows[d] ELSE new[d - Len(rows)]
  BY <1>1, RowsBeside
<1>5. DOMAIN all = 1..(n + m)
  BY <1>1, <1>4, LenProperties
<1> HIDE DEF all
<1>6. \A d \in 1..n : d \in DOMAIN all /\ all[d] = rows[d]
  BY <1>1, <1>2, <1>4, <1>5
<1>7. \A d \in 1..(n + m) : d \notin 1..n =>
         /\ d - n \in 1..m /\ d = n + (d - n)
         /\ all[d].vehicle = v /\ ~all[d].deleted
  BY <1>1, <1>2, <1>3, <1>4
<1>8. \A i \in 1..m : n + i \in 1..(n + m) /\ n + i \notin 1..n
  BY <1>2
<1>9. ASSUME NEW d
      PROVE  d \in LiveIn(all, w)
               <=> d \in LiveIn(rows, w) \union (IF w = v THEN NewIds(n, m) ELSE {})
  <2>1. CASE d \in 1..n
    <3>1. d \notin NewIds(n, m)
      BY <1>8, <2>1 DEF NewIds
    <3>2. QED
      BY <1>2, <1>6, <2>1, <3>1 DEF LiveIn
  <2>2. CASE d \notin 1..n /\ d \in 1..(n + m)
    <3>1. d \in NewIds(n, m)
      BY <1>7, <2>2 DEF NewIds
    <3>2. d \in LiveIn(all, w) <=> w = v
      BY <1>5, <1>7, <2>2 DEF LiveIn
    <3>3. d \notin LiveIn(rows, w)
      BY <1>2, <2>2 DEF LiveIn
    <3>4. QED
      BY <3>1, <3>2, <3>3
  <2>3. CASE d \notin 1..n /\ d \notin 1..(n + m)
    <3>1. d \notin NewIds(n, m)
      BY <1>8, <2>3 DEF NewIds
    <3>2. QED
      BY <1>2, <1>5, <2>3, <3>1 DEF LiveIn
  <2>4. QED
    BY <2>1, <2>2, <2>3
<1>10. LiveIn(all, w) = LiveIn(rows, w) \union (IF w = v THEN NewIds(n, m) ELSE {})
  BY <1>9
<1>11. QED
  BY <1>10 DEF all, new

LEMMA NewIdsCounted ==
    ASSUME NEW n \in Nat, NEW m \in Nat
    PROVE  IsFiniteSet(NewIds(n, m)) /\ Cardinality(NewIds(n, m)) <= m
<1>1. /\ IsFiniteSet((n + 1)..(n + m))
      /\ Cardinality((n + 1)..(n + m)) = IF n + 1 > n + m THEN 0 ELSE (n + m) - (n + 1) + 1
  BY FS_Interval
<1>2. Cardinality((n + 1)..(n + m)) = m
  BY <1>1
<1>3. NewIds(n, m) \in SUBSET ((n + 1)..(n + m))
  BY DEF NewIds
<1>4. QED
  BY <1>1, <1>2, <1>3, FS_Subset

\* A step that adds no deadline to what a vehicle has keeps the vehicle's cap.
LEMMA CapKept ==
    ASSUME NEW rows \in Seq(DeadlineRow), NEW w,
           Cardinality(LiveIn(rows, w)) <= MaxDeadlines,
           NEW S, S \subseteq LiveIn(rows, w)
    PROVE  Cardinality(S) <= MaxDeadlines
<1>1. Len(rows) \in Nat /\ DOMAIN rows = 1..Len(rows)
  BY LenProperties
<1>2. IsFiniteSet(1..Len(rows)) /\ LiveIn(rows, w) \in SUBSET (1..Len(rows))
  BY <1>1, FS_Interval DEF LiveIn
<1>3. IsFiniteSet(LiveIn(rows, w))
  BY <1>2, FS_Subset
<1>4. /\ IsFiniteSet(S)
      /\ Cardinality(S) <= Cardinality(LiveIn(rows, w))
  BY <1>3, FS_Subset
<1>5. Cardinality(S) \in Nat /\ Cardinality(LiveIn(rows, w)) \in Nat
  BY <1>3, <1>4, FS_CardinalityType
<1>6. QED
  BY <1>4, <1>5, MaxDeadlinesAssumption

LEMMA LiveIsLiveIn == \A w : LiveDeadlinesOf(w) = LiveIn(deadlines, w)
BY DEF LiveDeadlinesOf, LiveIn

\* The tables after the creation of a vehicle.
LEMMA AfterAdds ==
    ASSUME IInv, NEW u \in Users, NEW p \in Payloads, Adds(u, p)
    PROVE  LET n == Len(vehicles) + 1
           IN  /\ Len(vehicles) \in Nat /\ n \notin DOMAIN vehicles
               /\ DOMAIN vehicles' = DOMAIN vehicles \union {n}
               /\ \A v \in DOMAIN vehicles : vehicles'[v] = vehicles[v]
               /\ vehicles'[n].owner = u /\ vehicles'[n].fields = CreatedFields(p)
               /\ vehicles'[n].deleted = FALSE
               /\ DOMAIN deadlines \subseteq DOMAIN deadlines'
               /\ \A d \in DOMAIN deadlines : deadlines'[d] = deadlines[d]
               /\ \A d \in DOMAIN deadlines' \ DOMAIN deadlines :
                     deadlines'[d].vehicle = n /\ ~deadlines'[d].deleted
<1> DEFINE n == Len(vehicles) + 1
           car == [owner |-> u, fields |-> CreatedFields(p), deleted |-> FALSE]
<1>1. /\ Len(vehicles) \in Nat /\ DOMAIN vehicles = 1..Len(vehicles)
      /\ vehicles \in Seq(VehicleRow) /\ deadlines \in Seq(DeadlineRow)
      /\ p.deadlines \in Seq(DeadlineDto)
  BY TablesTyped, BodyTyped DEF IInv, TypeOK
<1>2. /\ vehicles' = Append(vehicles, car)
      /\ deadlines' = deadlines \o BuildDeadlines(n, p.deadlines)
  BY DEF Adds
<1>3. n \notin DOMAIN vehicles /\ 1..n = DOMAIN vehicles \union {n}
  BY <1>1
<1>4. n \in Nat
  BY <1>1
<1> HIDE DEF car
<1>5. /\ DOMAIN vehicles' = 1..n /\ vehicles'[n] = car
      /\ \A v \in DOMAIN vehicles : vehicles'[v] = vehicles[v]
  BY <1>1, <1>2
<1> HIDE DEF n
<1>6. /\ DOMAIN deadlines \subseteq DOMAIN deadlines'
      /\ \A d \in DOMAIN deadlines : deadlines'[d] = deadlines[d]
      /\ \A d \in DOMAIN deadlines' \ DOMAIN deadlines :
            \E i \in 1..Len(p.deadlines) :
               deadlines'[d] = NewDeadline(n, p.deadlines[i])
  <2> DEFINE rows == deadlines \o BuildDeadlines(n, p.deadlines)
  <2>1. /\ DOMAIN deadlines \subseteq DOMAIN rows
        /\ \A d \in DOMAIN deadlines : rows[d] = deadlines[d]
        /\ \A d \in DOMAIN rows \ DOMAIN deadlines :
              \E i \in 1..Len(p.deadlines) :
                 /\ p.deadlines[i] \in DeadlineDto
                 /\ rows[d] = NewDeadline(n, p.deadlines[i])
    BY <1>1, <1>4, AppendedRows
  <2>2. deadlines' = rows
    BY <1>2
  <2> HIDE DEF rows
  <2>3. QED
    BY <2>1, <2>2
<1>7. \A d \in DOMAIN deadlines' \ DOMAIN deadlines :
         deadlines'[d].vehicle = n /\ ~deadlines'[d].deleted
  BY <1>6, NewDeadlineVehicle, NewDeadlineLive
<1>8. QED
  BY <1>1, <1>3, <1>5, <1>6, <1>7 DEF n, car

\* The tables after a successful save.
LEMMA AfterEdits ==
    ASSUME IInv, NEW v \in DOMAIN vehicles, NEW p \in Payloads, Edits(v, p)
    PROVE  /\ DOMAIN vehicles' = DOMAIN vehicles
           /\ \A w \in DOMAIN vehicles : w # v => vehicles'[w] = vehicles[w]
           /\ vehicles'[v].owner = vehicles[v].owner
           /\ vehicles'[v].fields = Edited(v, p)
           /\ vehicles'[v].deleted = FALSE
           /\ DOMAIN deadlines \subseteq DOMAIN deadlines'
           /\ \A d \in DOMAIN deadlines : deadlines'[d] = deadlines[d]
           /\ \A d \in DOMAIN deadlines' \ DOMAIN deadlines :
                 deadlines'[d].vehicle = v /\ ~deadlines'[d].deleted
<1> DEFINE car == [owner |-> vehicles[v].owner, fields |-> Edited(v, p),
                   deleted |-> FALSE]
<1>1. /\ v \in Nat /\ deadlines \in Seq(DeadlineRow)
      /\ p.deadlines \in Seq(DeadlineDto)
  BY TablesTyped, BodyTyped DEF IInv, TypeOK
<1>2. /\ vehicles' = [vehicles EXCEPT ![v] = car]
      /\ deadlines' = deadlines \o BuildDeadlines(v, p.deadlines)
  BY DEF Edits
<1> HIDE DEF car
<1>3. /\ DOMAIN vehicles' = DOMAIN vehicles /\ vehicles'[v] = car
      /\ \A w \in DOMAIN vehicles : w # v => vehicles'[w] = vehicles[w]
  BY <1>2
<1>4. /\ DOMAIN deadlines \subseteq DOMAIN deadlines'
      /\ \A d \in DOMAIN deadlines : deadlines'[d] = deadlines[d]
      /\ \A d \in DOMAIN deadlines' \ DOMAIN deadlines :
            \E i \in 1..Len(p.deadlines) :
               deadlines'[d] = NewDeadline(v, p.deadlines[i])
  <2> DEFINE rows == deadlines \o BuildDeadlines(v, p.deadlines)
  <2>1. /\ DOMAIN deadlines \subseteq DOMAIN rows
        /\ \A d \in DOMAIN deadlines : rows[d] = deadlines[d]
        /\ \A d \in DOMAIN rows \ DOMAIN deadlines :
              \E i \in 1..Len(p.deadlines) :
                 /\ p.deadlines[i] \in DeadlineDto
                 /\ rows[d] = NewDeadline(v, p.deadlines[i])
    BY <1>1, AppendedRows
  <2>2. deadlines' = rows
    BY <1>2
  <2> HIDE DEF rows
  <2>3. QED
    BY <2>1, <2>2
<1>5. \A d \in DOMAIN deadlines' \ DOMAIN deadlines :
         deadlines'[d].vehicle = v /\ ~deadlines'[d].deleted
  BY <1>4, NewDeadlineVehicle, NewDeadlineLive
<1>6. QED
  BY <1>3, <1>4, <1>5 DEF car

\* The tables after a successful soft removal.
LEMMA AfterHides ==
    ASSUME IInv, NEW v \in DOMAIN vehicles, Hides(v)
    PROVE  /\ DOMAIN vehicles' = DOMAIN vehicles
           /\ \A w \in DOMAIN vehicles : w # v => vehicles'[w] = vehicles[w]
           /\ vehicles'[v].owner = vehicles[v].owner
           /\ vehicles'[v].fields = vehicles[v].fields
           /\ vehicles'[v].deleted = TRUE
           /\ DOMAIN deadlines' = DOMAIN deadlines
           /\ \A d \in DOMAIN deadlines :
                 /\ deadlines'[d].vehicle = deadlines[d].vehicle
                 /\ deadlines'[d].type = deadlines[d].type
                 /\ deadlines'[d].titled = deadlines[d].titled
                 /\ deadlines'[d].deleted = IF deadlines[d].vehicle = v THEN TRUE
                                            ELSE deadlines[d].deleted
<1>1. /\ \A d \in DOMAIN deadlines : deadlines[d] \in DeadlineRow
      /\ vehicles[v] \in VehicleRow
  BY TablesTyped DEF IInv
<1>2. /\ DOMAIN vehicles' = DOMAIN vehicles
      /\ vehicles'[v] = [vehicles[v] EXCEPT !.deleted = TRUE]
      /\ \A w \in DOMAIN vehicles : w # v => vehicles'[w] = vehicles[w]
  BY DEF Hides
<1>3. /\ vehicles'[v].owner = vehicles[v].owner
      /\ vehicles'[v].fields = vehicles[v].fields
      /\ vehicles'[v].deleted = TRUE
  BY <1>1, <1>2 DEF VehicleRow
<1>4. /\ DOMAIN deadlines' = DOMAIN deadlines
      /\ \A d \in DOMAIN deadlines : deadlines'[d] =
            [deadlines[d] EXCEPT !.deleted = IF d \in DeadlinesOf(v) THEN TRUE ELSE @]
  BY DEF Hides
<1>5. \A d \in DOMAIN deadlines :
         /\ deadlines'[d].vehicle = deadlines[d].vehicle
         /\ deadlines'[d].type = deadlines[d].type
         /\ deadlines'[d].titled = deadlines[d].titled
         /\ deadlines'[d].deleted = IF deadlines[d].vehicle = v THEN TRUE
                                    ELSE deadlines[d].deleted
  BY <1>1, <1>4 DEF DeadlineRow, DeadlinesOf
<1>6. QED
  BY <1>2, <1>3, <1>4, <1>5

LEMMA SeqRows ==
    ASSUME NEW rows \in Seq(DeadlineRow)
    PROVE  \A d \in DOMAIN rows : rows[d].deleted \in BOOLEAN
<1>1. DOMAIN rows = 1..Len(rows) /\ \A d \in 1..Len(rows) : rows[d] \in DeadlineRow
  BY LenProperties, ElementOfSeq
<1>2. QED
  BY <1>1 DEF DeadlineRow

\* A tombstone on the vehicle stays a tombstone on its deadlines.
LEMMA StepCovers ==
    ASSUME XInv, [Next]_vars
    PROVE  TombstoneCoversDeadlines'
<1>1. IInv /\ ForeignKeys /\ TombstoneCoversDeadlines
  BY DEF XInv, IInv
<1>2. CASE UNCHANGED <<vehicles, deadlines>>
  BY <1>1, <1>2 DEF TombstoneCoversDeadlines
<1>3. ASSUME NEW u \in Users, NEW p \in Payloads, Adds(u, p)
      PROVE  TombstoneCoversDeadlines'
  <2> DEFINE n == Len(vehicles) + 1
  <2>1. /\ \A v \in DOMAIN vehicles : vehicles'[v] = vehicles[v]
        /\ vehicles'[n].deleted = FALSE
        /\ \A d \in DOMAIN deadlines : deadlines'[d] = deadlines[d]
        /\ \A d \in DOMAIN deadlines' \ DOMAIN deadlines :
              deadlines'[d].vehicle = n /\ ~deadlines'[d].deleted
    BY <1>1, <1>3, AfterAdds
  <2> HIDE DEF n
  <2>2. \A d \in DOMAIN deadlines' : deadlines'[d].deleted \in BOOLEAN
    BY StepTables, SeqRows DEF XInv, TablesOK
  <2>3. ASSUME NEW d \in DOMAIN deadlines'
        PROVE  deadlines'[d].deleted = vehicles'[deadlines'[d].vehicle].deleted
    <3>1. CASE d \in DOMAIN deadlines
      <4>1. /\ deadlines[d].deleted = vehicles[deadlines[d].vehicle].deleted
            /\ deadlines[d].vehicle \in DOMAIN vehicles
        BY <1>1, <3>1 DEF TombstoneCoversDeadlines, ForeignKeys
      <4>2. QED
        BY <2>1, <3>1, <4>1
    <3>2. CASE d \notin DOMAIN deadlines
      <4>1. deadlines'[d].vehicle = n /\ deadlines'[d].deleted = FALSE
        BY <2>1, <2>2, <3>2
      <4>2. QED
        BY <2>1, <4>1
    <3>3. QED
      BY <3>1, <3>2
  <2>4. QED
    BY <2>3 DEF TombstoneCoversDeadlines
<1>4. ASSUME NEW v \in DOMAIN vehicles, NEW p \in Payloads, Edits(v, p)
      PROVE  TombstoneCoversDeadlines'
  <2>1. /\ \A w \in DOMAIN vehicles : w # v => vehicles'[w] = vehicles[w]
        /\ vehicles'[v].deleted = FALSE
        /\ \A d \in DOMAIN deadlines : deadlines'[d] = deadlines[d]
        /\ \A d \in DOMAIN deadlines' \ DOMAIN deadlines :
              deadlines'[d].vehicle = v /\ ~deadlines'[d].deleted
    BY <1>1, <1>4, AfterEdits
  <2>2. vehicles[v].deleted = FALSE
    BY <1>1, <1>4, TablesTyped DEF Edits, IInv, VehicleRow
  <2>3. \A d \in DOMAIN deadlines' : deadlines'[d].deleted \in BOOLEAN
    BY StepTables, SeqRows DEF XInv, TablesOK
  <2>4. ASSUME NEW d \in DOMAIN deadlines'
        PROVE  deadlines'[d].deleted = vehicles'[deadlines'[d].vehicle].deleted
    <3>1. CASE d \in DOMAIN deadlines
      <4>1. /\ deadlines[d].deleted = vehicles[deadlines[d].vehicle].deleted
            /\ deadlines[d].vehicle \in DOMAIN vehicles
        BY <1>1, <3>1 DEF TombstoneCoversDeadlines, ForeignKeys
      <4>2. vehicles'[deadlines[d].vehicle].deleted = vehicles[deadlines[d].vehicle].deleted
        BY <2>1, <2>2, <4>1
      <4>3. QED
        BY <2>1, <3>1, <4>1, <4>2
    <3>2. CASE d \notin DOMAIN deadlines
      <4>1. deadlines'[d].vehicle = v /\ deadlines'[d].deleted = FALSE
        BY <2>1, <2>3, <3>2
      <4>2. QED
        BY <2>1, <4>1
    <3>3. QED
      BY <3>1, <3>2
  <2>5. QED
    BY <2>4 DEF TombstoneCoversDeadlines
<1>5. ASSUME NEW v \in DOMAIN vehicles, Hides(v)
      PROVE  TombstoneCoversDeadlines'
  <2>1. /\ \A w \in DOMAIN vehicles : w # v => vehicles'[w] = vehicles[w]
        /\ vehicles'[v].deleted = TRUE
        /\ DOMAIN deadlines' = DOMAIN deadlines
        /\ \A d \in DOMAIN deadlines :
              /\ deadlines'[d].vehicle = deadlines[d].vehicle
              /\ deadlines'[d].deleted = IF deadlines[d].vehicle = v THEN TRUE
                                         ELSE deadlines[d].deleted
    BY <1>1, <1>5, AfterHides
  <2>2. ASSUME NEW d \in DOMAIN deadlines
        PROVE  deadlines'[d].deleted = vehicles'[deadlines'[d].vehicle].deleted
    <3>1. /\ deadlines[d].deleted = vehicles[deadlines[d].vehicle].deleted
          /\ deadlines[d].vehicle \in DOMAIN vehicles
      BY <1>1 DEF TombstoneCoversDeadlines, ForeignKeys
    <3>2. CASE deadlines[d].vehicle = v
      BY <2>1, <3>2
    <3>3. CASE deadlines[d].vehicle # v
      BY <2>1, <3>1, <3>3
    <3>4. QED
      BY <3>2, <3>3
  <2>3. QED
    BY <2>1, <2>2 DEF TombstoneCoversDeadlines
<1>6. QED
  BY <1>2, <1>3, <1>4, <1>5, StepEffects

-----------------------------------------------------------------------------
(* Removals and the cap.                                                   *)

\* Nothing takes a tombstone off a vehicle.
LEMMA NothingRevived ==
    ASSUME XInv, [Next]_vars, NEW v \in DOMAIN vehicles, vehicles[v].deleted
    PROVE  v \in DOMAIN vehicles' /\ vehicles'[v].deleted
<1>1. IInv
  BY DEF XInv
<1>2. CASE UNCHANGED <<vehicles, deadlines>>
  BY <1>2
<1>3. CASE \E u \in Users, p \in Payloads : Adds(u, p)
  BY <1>1, <1>3, AfterAdds
<1>4. ASSUME NEW w \in DOMAIN vehicles, NEW p \in Payloads, Edits(w, p)
      PROVE  v \in DOMAIN vehicles' /\ vehicles'[v].deleted
  <2>1. ~vehicles[w].deleted
    BY <1>4 DEF Edits
  <2>2. DOMAIN vehicles' = DOMAIN vehicles /\ (v # w => vehicles'[v] = vehicles[v])
    BY <1>1, <1>4, AfterEdits
  <2>3. QED
    BY <2>1, <2>2
<1>5. ASSUME NEW w \in DOMAIN vehicles, Hides(w)
      PROVE  v \in DOMAIN vehicles' /\ vehicles'[v].deleted
  <2>1. /\ DOMAIN vehicles' = DOMAIN vehicles /\ vehicles'[w].deleted = TRUE
        /\ v # w => vehicles'[v] = vehicles[v]
    BY <1>1, <1>5, AfterHides
  <2>2. QED
    BY <2>1
<1>6. QED
  BY <1>2, <1>3, <1>4, <1>5, StepEffects

LEMMA StepRemoved ==
    ASSUME XInv, [Next]_vars
    PROVE  (RemovalsAreRows /\ DeletedStaysDeleted)'
<1>1. IInv /\ RemovalsAreRows /\ DeletedStaysDeleted
  BY DEF XInv
<1>2. ASSUME NEW r \in Requests, handler'[r].phase = "done",
             handler'[r].op = "remove", handler'[r].status = 204
      PROVE  /\ handler'[r].vehicle \in DOMAIN vehicles'
             /\ vehicles'[handler'[r].vehicle].deleted
  <2>1. CASE handler'[r] = handler[r]
    <3>1. /\ handler[r].vehicle \in DOMAIN vehicles
          /\ vehicles[handler[r].vehicle].deleted
      BY <1>1, <1>2, <2>1 DEF RemovalsAreRows, DeletedStaysDeleted
    <3>2. QED
      BY <2>1, <3>1, NothingRevived
  <2>2. CASE Moves(r)
    <3>1. Finished(r)
      BY <1>1, <1>2, <2>2 DEF Moves, LoadForUpdate, LoadForRemove, Reload, IInv, TypeOK
    <3>2. CommitRemove(r) /\ handler'[r].vehicle = handler[r].vehicle
      BY <1>2, <3>1 DEF Finished
    <3>3. handler[r].vehicle \in DOMAIN vehicles /\ Hides(handler[r].vehicle)
      BY <3>2, CommitRemoveHides
    <3>4. /\ DOMAIN vehicles' = DOMAIN vehicles
          /\ vehicles'[handler[r].vehicle].deleted = TRUE
      BY <1>1, <3>3, AfterHides
    <3>5. QED
      BY <3>2, <3>3, <3>4
  <2>3. QED
    BY <1>1, <2>1, <2>2, StepMoves
<1>3. RemovalsAreRows'
  BY <1>2 DEF RemovalsAreRows
<1>4. DeletedStaysDeleted'
  BY <1>2 DEF DeletedStaysDeleted
<1>5. QED
  BY <1>3, <1>4

\* What a vehicle has once the rows of a payload are appended to the table, if
\* they are its first.
LEMMA CapAppended ==
    ASSUME NEW rows \in Seq(DeadlineRow), NEW v \in Nat,
           NEW dtos \in Seq(DeadlineDto), Len(dtos) <= MaxDeadlines, NEW w,
           Cardinality(LiveIn(rows, w)) <= MaxDeadlines,
           w = v /\ dtos # <<>> => LiveIn(rows, w) = {}
    PROVE  Cardinality(LiveIn(rows \o BuildDeadlines(v, dtos), w)) <= MaxDeadlines
<1> DEFINE all == rows \o BuildDeadlines(v, dtos)
<1>1. LiveIn(all, w)
        = LiveIn(rows, w) \union (IF w = v THEN NewIds(Len(rows), Len(dtos)) ELSE {})
  BY LiveAppended
<1> SUFFICES Cardinality(LiveIn(all, w)) <= MaxDeadlines
  OBVIOUS
<1> HIDE DEF all
<1>2. Len(rows) \in Nat /\ Len(dtos) \in Nat
  BY LenProperties
<1>3. CASE w # v
  BY <1>1, <1>3
<1>4. CASE w = v /\ dtos = <<>>
  <2>1. NewIds(Len(rows), Len(dtos)) = {}
    BY <1>2, <1>4 DEF NewIds
  <2>2. QED
    BY <1>1, <1>4, <2>1
<1>5. CASE w = v /\ dtos # <<>>
  <2>1. LiveIn(all, w) = NewIds(Len(rows), Len(dtos))
    BY <1>1, <1>5
  <2>2. /\ IsFiniteSet(NewIds(Len(rows), Len(dtos)))
        /\ Cardinality(NewIds(Len(rows), Len(dtos))) <= Len(dtos)
    BY <1>2, NewIdsCounted
  <2>3. Cardinality(NewIds(Len(rows), Len(dtos))) \in Nat
    BY <2>2, FS_CardinalityType
  <2>4. QED
    BY <1>2, <2>1, <2>2, <2>3, MaxDeadlinesAssumption
<1>6. QED
  BY <1>3, <1>4, <1>5

LEMMA StepCap ==
    ASSUME XInv, [Next]_vars
    PROVE  DeadlineCap'
<1>1. IInv /\ TombstoneCoversDeadlines /\ deadlines \in Seq(DeadlineRow)
  BY DEF XInv, IInv, TypeOK
<1>2. \A w \in DOMAIN vehicles : Cardinality(LiveIn(deadlines, w)) <= MaxDeadlines
  BY LiveIsLiveIn DEF XInv, DeadlineCap
<1> SUFFICES \A w \in DOMAIN vehicles' :
                Cardinality(LiveIn(deadlines', w)) <= MaxDeadlines
  BY DEF DeadlineCap, LiveDeadlinesOf, LiveIn
<1>3. CASE UNCHANGED <<vehicles, deadlines>>
  BY <1>2, <1>3
<1>4. ASSUME NEW u \in Users, NEW p \in Payloads, Adds(u, p),
             NEW w \in DOMAIN vehicles'
      PROVE  Cardinality(LiveIn(deadlines', w)) <= MaxDeadlines
  <2> DEFINE n == Len(vehicles) + 1
  <2>1. /\ Len(vehicles) \in Nat /\ n \notin DOMAIN vehicles
        /\ DOMAIN vehicles' = DOMAIN vehicles \union {n}
    BY <1>1, <1>4, AfterAdds
  <2>2. n \in Nat
    BY <2>1
  <2>3. p.deadlines \in Seq(DeadlineDto) /\ Len(p.deadlines) <= MaxDeadlines
    BY <1>4, BodyTyped DEF Adds, ValidCreate
  <2>4. deadlines' = deadlines \o BuildDeadlines(n, p.deadlines)
    BY <1>4 DEF Adds
  <2> HIDE DEF n
  <2>5. w = n => LiveIn(deadlines, w) = {}
    BY <1>1, <2>1 DEF LiveIn, IInv, ForeignKeys
  <2>6. Cardinality(LiveIn(deadlines, w)) <= MaxDeadlines
    <3>1. CASE w = n
      <4>1. Cardinality(LiveIn(deadlines, w)) = 0
        BY <2>5, <3>1, FS_EmptySet
      <4>2. QED
        BY <4>1, MaxDeadlinesAssumption
    <3>2. CASE w # n
      BY <1>2, <2>1, <3>2
    <3>3. QED
      BY <3>1, <3>2
  <2>7. Cardinality(LiveIn(deadlines \o BuildDeadlines(n, p.deadlines), w)) <= MaxDeadlines
    BY <1>1, <2>2, <2>3, <2>5, <2>6, CapAppended
  <2>8. QED
    BY <2>4, <2>7
<1>5. ASSUME NEW v \in DOMAIN vehicles, NEW p \in Payloads, Edits(v, p),
             NEW w \in DOMAIN vehicles'
      PROVE  Cardinality(LiveIn(deadlines', w)) <= MaxDeadlines
  <2>1. DOMAIN vehicles' = DOMAIN vehicles
    BY <1>1, <1>5, AfterEdits
  <2>2. v \in Nat
    BY <1>1, TablesTyped DEF IInv
  <2>3. /\ p.deadlines \in Seq(DeadlineDto) /\ Len(p.deadlines) <= MaxDeadlines
        /\ p.deadlines # <<>> => p.replaces
    BY <1>5, BodyTyped DEF Edits, ValidUpdate
  <2>4. /\ deadlines' = deadlines \o BuildDeadlines(v, p.deadlines)
        /\ p.replaces => DeadlinesOf(v) = {}
    BY <1>5 DEF Edits
  <2>5. w = v /\ p.deadlines # <<>> => LiveIn(deadlines, w) = {}
    BY <2>3, <2>4 DEF LiveIn, DeadlinesOf
  <2>6. Cardinality(LiveIn(deadlines, w)) <= MaxDeadlines
    BY <1>2, <2>1
  <2>7. Cardinality(LiveIn(deadlines \o BuildDeadlines(v, p.deadlines), w)) <= MaxDeadlines
    BY <1>1, <2>2, <2>3, <2>5, <2>6, CapAppended
  <2>8. QED
    BY <2>4, <2>7
<1>6. ASSUME NEW v \in DOMAIN vehicles, Hides(v), NEW w \in DOMAIN vehicles'
      PROVE  Cardinality(LiveIn(deadlines', w)) <= MaxDeadlines
  <2>1. /\ DOMAIN vehicles' = DOMAIN vehicles
        /\ DOMAIN deadlines' = DOMAIN deadlines
        /\ \A d \in DOMAIN deadlines :
              /\ deadlines'[d].vehicle = deadlines[d].vehicle
              /\ deadlines'[d].deleted = IF deadlines[d].vehicle = v THEN TRUE
                                         ELSE deadlines[d].deleted
    BY <1>1, <1>6, AfterHides
  <2>2. LiveIn(deadlines', w) \subseteq LiveIn(deadlines, w)
    BY <2>1 DEF LiveIn
  <2>3. Cardinality(LiveIn(deadlines, w)) <= MaxDeadlines
    BY <1>2, <2>1
  <2>4. QED
    BY <1>1, <2>2, <2>3, CapKept
<1>7. QED
  BY <1>3, <1>4, <1>5, <1>6, StepEffects

-----------------------------------------------------------------------------
(* The inductive invariant, and what follows from it.                      *)

LEMMA InitXInv ==
    ASSUME Init
    PROVE  XInv
<1>1. IInv
  BY InitIInv
<1>2. /\ DOMAIN vehicles = {} /\ DOMAIN deadlines = {}
      /\ \A r \in Requests : handler[r].phase = "idle"
  BY DEF Init, Idle
<1>3. QED
  BY <1>1, <1>2 DEF XInv, TombstoneCoversDeadlines, HandlersApart, HandlersFresh,
     Fresh, RemovalsAreRows, DeletedStaysDeleted, DeadlineCap, InFlight

LEMMA StepXInv ==
    ASSUME ~Overlap, XInv, [Next]_vars
    PROVE  XInv'
<1>1. IInv'
  BY StepIInv DEF XInv
<1>2. QED
  BY <1>1, StepCovers, StepApart, StepFresh, StepRemoved, StepCap DEF XInv

\* Where requests on one vehicle do not overlap, what the handlers hold agrees
\* with the tables at every moment: no handler ever works on a stale copy.
THEOREM ExclusiveInductive == ~Overlap => (Spec => []XInv)
<1> SUFFICES ASSUME ~Overlap PROVE Spec => []XInv
  OBVIOUS
<1>1. Init => XInv
  BY InitXInv
<1>2. XInv /\ [Next]_vars => XInv'
  BY StepXInv
<1>3. QED
  BY <1>1, <1>2, PTL DEF Spec

\* A vehicle and its deadlines carry their tombstones together.
THEOREM TombstonesMatch == ~Overlap => (Spec => []TombstoneCoversDeadlines)
<1>1. XInv => TombstoneCoversDeadlines
  BY DEF XInv
<1>2. QED
  BY <1>1, ExclusiveInductive, PTL

\* What a DELETE answered for with 204 is deleted ever after.
THEOREM RemovalsLast == ~Overlap => (Spec => []DeletedStaysDeleted)
<1>1. XInv => DeletedStaysDeleted
  BY DEF XInv
<1>2. QED
  BY <1>1, ExclusiveInductive, PTL

\* No vehicle carries more deadlines than a payload may bring.
THEOREM CapHolds == ~Overlap => (Spec => []DeadlineCap)
<1>1. XInv => DeadlineCap
  BY DEF XInv
<1>2. QED
  BY <1>1, ExclusiveInductive, PTL

-----------------------------------------------------------------------------
(* Where a 500 comes from.                                                 *)

\* The transaction of a fresh save fails for a null of the payload or for the
\* rows that a list of its own would orphan, and never for the index.
LEMMA WhySavesFail ==
    ASSUME XInv, NEW r \in Requests, RollBackUpdate(r)
    PROVE  \/ HasNull(handler[r].payload)
           \/ /\ handler[r].payload.replaces
              /\ LiveDeadlinesOf(handler[r].vehicle) # {}
<1> DEFINE h == handler[r]
           v == h.vehicle
           p == h.payload
<1>1. h.phase = "planned" /\ h.op = "update" /\ SaveFails(h)
  BY DEF RollBackUpdate
<1>2. /\ h \in PlannedHandler /\ v \in DOMAIN vehicles
      /\ Buildable(p.deadlines) /\ p.deadlines \in Seq(DeadlineDto)
      /\ ~p.replaces => p.deadlines = <<>>
      /\ ~vehicles[v].deleted
      /\ h.changed = {f \in Fields : /\ h.op = "update"
                                     /\ Entity(h)[f] # h.seen[f]}
      /\ h.orphans = IF p.replaces THEN DeadlinesOf(v) ELSE {}
  BY <1>1, FreshFacts
<1>3. IInv /\ TombstoneCoversDeadlines /\ UniqueKinds(deadlines)
      /\ deadlines \in Seq(DeadlineRow) /\ v \in Nat
  BY <1>2, IndexFromRules, TablesTyped DEF XInv, IInv, TypeOK
<1>4. CASE \E f \in h.changed : Entity(h)[f] = Null
  <2>1. PICK f \in Fields : Entity(h)[f] = Null
    BY <1>2, <1>4
  <2>2. h.seen[f] \in Values /\ Null \notin Values
    BY <1>2, FieldsAssumption DEF PlannedHandler
  <2>3. p.fields[f] = Null
    BY <2>1, <2>2 DEF Entity
  <2>4. QED
    BY <2>3 DEF HasNull
<1>5. CASE h.orphans # {}
  <2>1. p.replaces /\ DeadlinesOf(v) # {}
    BY <1>2, <1>5
  <2>2. LiveDeadlinesOf(v) = DeadlinesOf(v)
    BY <1>2, <1>3, LiveAreAll
  <2>3. QED
    BY <2>1, <2>2
<1>6. CASE h.orphans = {} /\ ~UniqueKinds(UpdatedDeadlines(h))
  <2>1. UpdatedDeadlines(h) = deadlines \o BuildDeadlines(v, p.deadlines)
    BY <1>1, UpdateAppends
  <2>2. p.deadlines # <<>> => \A d \in DOMAIN deadlines : deadlines[d].vehicle # v
    BY <1>2, <1>6 DEF DeadlinesOf
  <2>3. UniqueKinds(deadlines \o BuildDeadlines(v, p.deadlines))
    BY <1>2, <1>3, <2>2, UniqueAppended
  <2>4. QED
    BY <1>6, <2>1, <2>3
<1>7. QED
  BY <1>1, <1>4, <1>5, <1>6 DEF SaveFails

\* A soft removal lists all the deadlines of its vehicle, and does not fail.
LEMMA RemovalsDoNotFail ==
    ASSUME XInv, NEW r \in Requests
    PROVE  ~RollBackRemove(r)
<1> SUFFICES ASSUME RollBackRemove(r) PROVE FALSE
  OBVIOUS
<1> DEFINE h == handler[r]
<1>1. h.phase = "planned" /\ h.op = "remove" /\ h.orphans # {}
  BY DEF RollBackRemove
<1>2. /\ h.payload = NoBody
      /\ h.orphans = IF h.payload.replaces THEN DeadlinesOf(h.vehicle) ELSE {}
  BY <1>1, FreshFacts
<1>3. QED
  BY <1>1, <1>2 DEF NoBody

\* The service answers 500 to two kinds of PATCH, and to nothing else.
THEOREM ServerErrorsAreTwo == ~Overlap => (Spec => ServerErrorsExplained)
<1> DEFINE Explained ==
      \A r \in Requests :
          Finishes(r) /\ handler'[r].status = 500
          => /\ handler[r].phase = "planned" /\ handler[r].op = "update"
             /\ \/ HasNull(handler[r].payload)
                \/ /\ handler[r].payload.replaces
                   /\ LiveDeadlinesOf(handler[r].vehicle) # {}
<1>1. ASSUME XInv, [Next]_vars PROVE Explained
  <2>1. ASSUME NEW r \in Requests, Finishes(r), handler'[r].status = 500
        PROVE  RollBackUpdate(r)
    <3>1. IInv
      BY <1>1 DEF XInv
    <3>2. Moves(r)
      BY <1>1, <2>1, <3>1, StepMoves DEF Finishes
    <3>3. Finished(r)
      BY <2>1, <3>1, <3>2
         DEF Finishes, Moves, LoadForUpdate, LoadForRemove, Reload, IInv, TypeOK
    <3>4. ASSUME NEW u \in Users, NEW p \in Payloads, Create(r, u, p)
          PROVE  FALSE
      <4>1. Answer(r, "create", u, Len(vehicles) + 1, 201)
        BY <3>1, <3>4, CreateAdds
      <4>2. handler'[r].status = 201
        BY <3>1, <4>1 DEF Answer, Answered, IInv, TypeOK
      <4>3. QED
        BY <2>1, <4>2
    <3>5. QED
      BY <1>1, <2>1, <3>3, <3>4, RemovalsDoNotFail DEF Finished
  <2>2. QED
    BY <1>1, <2>1, WhySavesFail DEF RollBackUpdate
<1>2. XInv /\ [Next]_vars => [Explained]_vars
  BY <1>1
<1> SUFFICES ASSUME ~Overlap PROVE Spec => ServerErrorsExplained
  OBVIOUS
<1>3. Spec => []XInv
  BY ExclusiveInductive
<1>4. QED
  BY <1>2, <1>3, PTL DEF Spec, ServerErrorsExplained

-----------------------------------------------------------------------------
(* The garage.                                                             *)

\* What the garage says of vehicle v, and the garage, of any two tables.
EntriesOf(dues, v) ==
    {[id |-> d, type |-> dues[d].type, titled |-> dues[d].titled] : d \in LiveIn(dues, v)}

Shown(cars, dues, v) ==
    [owner |-> cars[v].owner, fields |-> cars[v].fields,
     deadlines |-> EntriesOf(dues, v), deleted |-> cars[v].deleted]

GarageFrom(cars, dues) == [v \in 1..Len(cars) |-> Shown(cars, dues, v)]

NewEntries(n, dtos) ==
    {[id |-> n + i, type |-> dtos[i].type, titled |-> dtos[i].titled] : i \in 1..Len(dtos)}

LEMMA GarageOfTables ==
    /\ GarageOf = GarageFrom(vehicles, deadlines)
    /\ GarageOf' = GarageFrom(vehicles', deadlines')
BY DEF GarageOf, GarageFrom, Shown, EntriesOf, LiveIn, LiveDeadlinesOf

\* The entries of a payload are the ones its rows stand for.
LEMMA EntriesPromised ==
    ASSUME NEW p \in Payloads
    PROVE  Promised!Entries(p) = NewEntries(Len(deadlines), p.deadlines)
<1> DEFINE dtos == p.deadlines
           Brought(i) == [f \in DOMAIN dtos[i] \union {"id"} |->
                            IF f = "id" THEN Len(deadlines) + i ELSE dtos[i][f]]
           Kept(i) == [id |-> Len(deadlines) + i, type |-> dtos[i].type,
                       titled |-> dtos[i].titled]
<1>1. \A i \in 1..Len(dtos) : dtos[i] \in DeadlineDto
  BY BodyTyped, ElementOfSeq
<1>2. ASSUME NEW dto \in DeadlineDto, NEW n
      PROVE  [f \in DOMAIN dto \union {"id"} |-> IF f = "id" THEN n ELSE dto[f]]
               = [id |-> n, type |-> dto.type, titled |-> dto.titled]
  <2>1. DOMAIN dto \union {"id"} = {"id", "type", "titled"}
    BY DEF DeadlineDto
  <2>2. QED
    BY <2>1
<1>3. \A i \in 1..Len(dtos) : Brought(i) = Kept(i)
  BY <1>1, <1>2
<1>4. Promised!Entries(p) = {Brought(i) : i \in 1..Len(dtos)}
  BY DEF Promised!Entries
<1>5. NewEntries(Len(deadlines), dtos) = {Kept(i) : i \in 1..Len(dtos)}
  BY DEF NewEntries
<1> HIDE DEF Brought, Kept
<1>6. {Brought(i) : i \in 1..Len(dtos)} = {Kept(i) : i \in 1..Len(dtos)}
  BY <1>3
<1>7. QED
  BY <1>4, <1>5, <1>6

\* A row keeps the title of the entry it is made of, as buildDeadlines lets a
\* title through on custom deadlines only.
LEMMA TitleKept ==
    ASSUME NEW v, NEW dtos \in Seq(DeadlineDto), Buildable(dtos),
           NEW i \in 1..Len(dtos)
    PROVE  /\ NewDeadline(v, dtos[i]).type = dtos[i].type
           /\ NewDeadline(v, dtos[i]).titled = dtos[i].titled
<1>1. dtos[i] \in DeadlineDto /\ (dtos[i].titled <=> dtos[i].type = Custom)
  BY ElementOfSeq, LenProperties DEF Buildable
<1>2. dtos[i].titled \in BOOLEAN
  BY <1>1 DEF DeadlineDto
<1>3. CASE dtos[i].type # Custom
  <2>1. dtos[i].titled = FALSE
    BY <1>1, <1>2, <1>3
  <2>2. QED
    BY <1>3, <2>1 DEF NewDeadline
<1>4. CASE dtos[i].type = Custom
  BY <1>4 DEF NewDeadline
<1>5. QED
  BY <1>3, <1>4

LEMMA EntriesAppended ==
    ASSUME NEW rows \in Seq(DeadlineRow), NEW v \in Nat,
           NEW dtos \in Seq(DeadlineDto), Buildable(dtos), NEW w
    PROVE  EntriesOf(rows \o BuildDeadlines(v, dtos), w)
             = EntriesOf(rows, w)
               \union (IF w = v THEN NewEntries(Len(rows), dtos) ELSE {})
<1> DEFINE new == BuildDeadlines(v, dtos)
           all == rows \o new
           E(dues, d) == [id |-> d, type |-> dues[d].type, titled |-> dues[d].titled]
<1>1. LiveIn(all, w)
        = LiveIn(rows, w) \union (IF w = v THEN NewIds(Len(rows), Len(dtos)) ELSE {})
  BY LiveAppended
<1>2. /\ new \in Seq(DeadlineRow) /\ Len(new) = Len(dtos)
      /\ \A i \in 1..Len(dtos) : new[i] = NewDeadline(v, dtos[i])
  BY BuiltRows
<1>3. Len(rows) \in Nat /\ Len(dtos) \in Nat /\ DOMAIN rows = 1..Len(rows)
  BY LenProperties
<1> HIDE DEF new
<1>4. /\ all \in Seq(DeadlineRow) /\ Len(all) = Len(rows) + Len(new)
      /\ \A d \in 1..(Len(rows) + Len(new)) :
            all[d] = IF d <= Len(rows) THEN rows[d] ELSE new[d - Len(rows)]
  BY <1>2, RowsBeside
<1> HIDE DEF all
<1>5. \A d \in LiveIn(rows, w) : all[d] = rows[d]
  BY <1>2, <1>3, <1>4 DEF LiveIn
<1>6. ASSUME NEW i \in 1..Len(dtos)
      PROVE  all[Len(rows) + i].type = dtos[i].type /\ all[Len(rows) + i].titled = dtos[i].titled
  <2>1. /\ Len(rows) + i \in 1..(Len(rows) + Len(new)) /\ ~(Len(rows) + i <= Len(rows))
        /\ (Len(rows) + i) - Len(rows) = i
    BY <1>2, <1>3
  <2>2. all[Len(rows) + i] = NewDeadline(v, dtos[i])
    BY <1>2, <1>4, <2>1
  <2>3. /\ NewDeadline(v, dtos[i]).type = dtos[i].type
        /\ NewDeadline(v, dtos[i]).titled = dtos[i].titled
    BY TitleKept
  <2>4. QED
    BY <2>2, <2>3
<1>7. {E(all, d) : d \in LiveIn(rows, w)} = {E(rows, d) : d \in LiveIn(rows, w)}
  BY <1>5
<1>8. {E(all, d) : d \in NewIds(Len(rows), Len(dtos))} = NewEntries(Len(rows), dtos)
  <2>1. {E(all, d) : d \in NewIds(Len(rows), Len(dtos))}
          = {E(all, Len(rows) + i) : i \in 1..Len(dtos)}
    BY DEF NewIds
  <2>2. QED
    BY <1>6, <2>1 DEF NewEntries
<1>9. EntriesOf(all, w) = {E(all, d) : d \in LiveIn(all, w)}
  BY DEF EntriesOf
<1>10. EntriesOf(rows, w) = {E(rows, d) : d \in LiveIn(rows, w)}
  BY DEF EntriesOf
<1> HIDE DEF E
<1>11. CASE w = v
  <2>1. EntriesOf(all, w) = {E(all, d) : d \in LiveIn(rows, w)}
           \union {E(all, d) : d \in NewIds(Len(rows), Len(dtos))}
    BY <1>1, <1>9, <1>11
  <2>2. EntriesOf(all, w) = EntriesOf(rows, w) \union NewEntries(Len(rows), dtos)
    BY <1>7, <1>8, <1>10, <2>1
  <2>3. QED
    BY <1>11, <2>2 DEF all, new
<1>12. CASE w # v
  <2>1. EntriesOf(all, w) = EntriesOf(rows, w)
    BY <1>1, <1>7, <1>9, <1>10, <1>12
  <2>2. QED
    BY <1>12, <2>1 DEF all, new
<1>13. QED
  BY <1>11, <1>12

\* A table of vehicles read as a garage is a sequence.
LEMMA GarageIsSeq ==
    ASSUME NEW cars, NEW dues, Len(cars) \in Nat,
           NEW S, \A v \in 1..Len(cars) : Shown(cars, dues, v) \in S
    PROVE  /\ GarageFrom(cars, dues) \in Seq(S)
           /\ Len(GarageFrom(cars, dues)) = Len(cars)
           /\ DOMAIN GarageFrom(cars, dues) = 1..Len(cars)
           /\ \A v \in 1..Len(cars) : GarageFrom(cars, dues)[v] = Shown(cars, dues, v)
<1>1. GarageFrom(cars, dues) \in [1..Len(cars) -> S]
  BY DEF GarageFrom
<1>2. \A v \in 1..Len(cars) : GarageFrom(cars, dues)[v] = Shown(cars, dues, v)
  BY DEF GarageFrom
<1>3. GarageFrom(cars, dues) \in Seq(S)
  BY <1>1, SeqDef
<1>4. Len(GarageFrom(cars, dues)) = Len(cars)
  BY <1>1, <1>3, LenProperties
<1>5. QED
  BY <1>1, <1>2, <1>3, <1>4

\* The entries of a vehicle after rows of its own or another's are appended.
LEMMA EntriesAfter ==
    ASSUME IInv, NEW v \in Nat, NEW p \in Payloads, Buildable(p.deadlines),
           deadlines' = deadlines \o BuildDeadlines(v, p.deadlines)
    PROVE  /\ Len(deadlines') = Len(deadlines) + Len(p.deadlines)
           /\ \A w : EntriesOf(deadlines', w)
                        = EntriesOf(deadlines, w)
                          \union (IF w = v THEN Promised!Entries(p) ELSE {})
<1>1. deadlines \in Seq(DeadlineRow) /\ p.deadlines \in Seq(DeadlineDto)
  BY BodyTyped DEF IInv, TypeOK
<1>2. Promised!Entries(p) = NewEntries(Len(deadlines), p.deadlines)
  BY EntriesPromised
<1>3. \A w : EntriesOf(deadlines \o BuildDeadlines(v, p.deadlines), w)
                = EntriesOf(deadlines, w)
                  \union (IF w = v THEN NewEntries(Len(deadlines), p.deadlines) ELSE {})
  BY <1>1, EntriesAppended
<1>4. /\ BuildDeadlines(v, p.deadlines) \in Seq(DeadlineRow)
      /\ Len(BuildDeadlines(v, p.deadlines)) = Len(p.deadlines)
  BY <1>1, BuiltRows
<1>5. Len(deadlines \o BuildDeadlines(v, p.deadlines))
        = Len(deadlines) + Len(p.deadlines)
  BY <1>1, <1>4, RowsBeside
<1>6. QED
  BY <1>2, <1>3, <1>5

LEMMA AddSimulated ==
    ASSUME IInv, NEW u \in Users, NEW p \in Payloads, Adds(u, p)
    PROVE  Promised!Add(u, p)
<1> DEFINE n == Len(vehicles) + 1
           fields == [f \in Fields |-> IF p.fields[f] \in {Null, Omitted}
                                       THEN DefaultMileage ELSE p.fields[f]]
           new == [owner |-> u, fields |-> fields,
                   deadlines |-> Promised!Entries(p), deleted |-> FALSE]
           old == GarageFrom(vehicles, deadlines)
           young == GarageFrom(vehicles', deadlines')
           S == {Shown(vehicles, deadlines, v) : v \in 1..Len(vehicles)} \union {new}
<1>1. /\ Len(vehicles) \in Nat /\ DOMAIN vehicles = 1..Len(vehicles)
      /\ vehicles \in Seq(VehicleRow)
  BY TablesTyped DEF IInv, TypeOK
<1>2. ValidCreate(p) /\ Buildable(p.deadlines)
  BY DEF Adds
<1>3. \A v \in DOMAIN vehicles : vehicles'[v] = vehicles[v]
  BY AfterAdds
<1>4. /\ vehicles'[n].owner = u /\ vehicles'[n].fields = CreatedFields(p)
      /\ vehicles'[n].deleted = FALSE
  BY AfterAdds
<1>5. CreatedFields(p) = fields
  <2>1. \A f \in RequiredFields : p.fields[f] \in Values
    BY <1>2 DEF ValidCreate
  <2>2. \A f \in RequiredFields : f # "mileageKm" /\ p.fields[f] \notin {Null, Omitted}
    BY <2>1, FieldsAssumption
  <2>3. \A f \in Fields :
           (IF f = "mileageKm" /\ p.fields[f] \in {Null, Omitted}
            THEN DefaultMileage ELSE p.fields[f])
             = (IF p.fields[f] \in {Null, Omitted} THEN DefaultMileage ELSE p.fields[f])
    BY <2>2 DEF Fields
  <2>4. QED
    BY <2>3 DEF CreatedFields
<1>6. n \in Nat /\ n \notin DOMAIN vehicles
  BY <1>1
<1>7. deadlines' = deadlines \o BuildDeadlines(n, p.deadlines)
  BY DEF Adds
<1>8. Len(vehicles') = n
  <2> DEFINE car == [owner |-> u, fields |-> CreatedFields(p), deleted |-> FALSE]
  <2>1. vehicles' = Append(vehicles, car)
    BY DEF Adds
  <2>2. vehicles \in Seq(VehicleRow \union {car}) /\ car \in VehicleRow \union {car}
    BY <1>1, SeqMonotonic
  <2> HIDE DEF car
  <2>3. QED
    BY <2>1, <2>2, AppendProperties
<1> HIDE DEF n, fields
<1>9. /\ Len(deadlines') = Len(deadlines) + Len(p.deadlines)
      /\ \A w : EntriesOf(deadlines', w)
                   = EntriesOf(deadlines, w)
                     \union (IF w = n THEN Promised!Entries(p) ELSE {})
  BY <1>2, <1>6, <1>7, EntriesAfter
<1>10. EntriesOf(deadlines, n) = {}
  <2>1. LiveIn(deadlines, n) = {}
    BY <1>6 DEF LiveIn, IInv, ForeignKeys
  <2>2. QED
    BY <2>1 DEF EntriesOf
<1>11. Shown(vehicles', deadlines', n) = new
  BY <1>4, <1>5, <1>9, <1>10 DEF Shown
<1>12. \A v \in DOMAIN vehicles :
          Shown(vehicles', deadlines', v) = Shown(vehicles, deadlines, v)
  BY <1>3, <1>6, <1>9 DEF Shown
<1> HIDE DEF new
<1>13. 1..n = DOMAIN vehicles \union {n}
  BY <1>1 DEF n
<1>14. /\ old \in Seq(S) /\ Len(old) = Len(vehicles)
       /\ \A v \in 1..Len(vehicles) : old[v] = Shown(vehicles, deadlines, v)
  BY <1>1, GarageIsSeq
<1>15. /\ young \in Seq(S) /\ Len(young) = n
       /\ \A v \in 1..n : young[v] = Shown(vehicles', deadlines', v)
  <2>1. \A v \in 1..n : Shown(vehicles', deadlines', v) \in S
    BY <1>1, <1>11, <1>12, <1>13
  <2> HIDE DEF S
  <2>2. QED
    BY <1>6, <1>8, <2>1, GarageIsSeq
<1>16. new \in S
  OBVIOUS
<1> HIDE DEF S, old, young
<1>17. /\ Append(old, new) \in Seq(S)
       /\ Len(Append(old, new)) = Len(old) + 1
       /\ \A v \in 1..Len(old) : Append(old, new)[v] = old[v]
       /\ Append(old, new)[Len(old) + 1] = new
  BY <1>14, <1>16, AppendProperties
<1>18. \A v \in 1..Len(young) : young[v] = Append(old, new)[v]
  BY <1>1, <1>11, <1>12, <1>13, <1>14, <1>15, <1>17 DEF n
<1>19. Len(young) = Len(Append(old, new))
  BY <1>14, <1>15, <1>17 DEF n
<1>20. young = Append(old, new)
  BY <1>15, <1>17, <1>18, <1>19, SeqEqual
<1>21. GarageOf' = Append(GarageOf, new)
  BY <1>20, GarageOfTables DEF young, old
<1>22. QED
  BY <1>9, <1>21 DEF Promised!Add, Promised!Issue, Promised!Fields, Fields, new, fields

\* A row of the garage, before and after a step, when no vehicle is added.
LEMMA GarageRows ==
    ASSUME IInv, DOMAIN vehicles' = DOMAIN vehicles, [Next]_vars
    PROVE  /\ DOMAIN GarageOf = DOMAIN vehicles /\ DOMAIN GarageOf' = DOMAIN vehicles
           /\ \A w \in DOMAIN vehicles :
                 /\ GarageOf[w] = Shown(vehicles, deadlines, w)
                 /\ GarageOf'[w] = Shown(vehicles', deadlines', w)
           /\ GarageOf = [w \in DOMAIN vehicles |-> Shown(vehicles, deadlines, w)]
           /\ GarageOf' = [w \in DOMAIN vehicles |-> Shown(vehicles', deadlines', w)]
<1>1. DOMAIN vehicles = 1..Len(vehicles)
  BY TablesTyped DEF IInv
<1>2. DOMAIN vehicles' = 1..Len(vehicles')
  BY StepTables, LenProperties DEF TablesOK
<1>3. /\ GarageOf = [w \in DOMAIN vehicles |-> Shown(vehicles, deadlines, w)]
      /\ GarageOf' = [w \in DOMAIN vehicles |-> Shown(vehicles', deadlines', w)]
  BY <1>1, <1>2, GarageOfTables DEF GarageFrom
<1>4. QED
  BY <1>3

LEMMA EditSimulated ==
    ASSUME IInv, [Next]_vars,
           NEW v \in DOMAIN vehicles, NEW p \in Payloads, Edits(v, p)
    PROVE  v \in DOMAIN GarageOf /\ Promised!Edit(v, p)
<1> DEFINE row == Shown(vehicles, deadlines, v)
           entries == IF p.replaces THEN Promised!Entries(p) ELSE row.deadlines
           new == [owner |-> row.owner, fields |-> Edited(v, p),
                   deadlines |-> entries, deleted |-> row.deleted]
<1>1. /\ DOMAIN vehicles' = DOMAIN vehicles
      /\ \A w \in DOMAIN vehicles : w # v => vehicles'[w] = vehicles[w]
      /\ vehicles'[v].owner = vehicles[v].owner
      /\ vehicles'[v].fields = Edited(v, p)
      /\ vehicles'[v].deleted = FALSE
  BY AfterEdits
<1>2. vehicles[v].deleted = FALSE
  BY TablesTyped DEF Edits, IInv, VehicleRow
<1>3. /\ Buildable(p.deadlines)
      /\ deadlines' = deadlines \o BuildDeadlines(v, p.deadlines)
      /\ p.replaces => DeadlinesOf(v) = {}
  BY DEF Edits
<1>4. v \in Nat
  BY TablesTyped DEF IInv
<1>5. /\ Len(deadlines') = Len(deadlines) + Len(p.deadlines)
      /\ \A w : EntriesOf(deadlines', w)
                   = EntriesOf(deadlines, w)
                     \union (IF w = v THEN Promised!Entries(p) ELSE {})
  BY <1>3, <1>4, EntriesAfter
<1>6. EntriesOf(deadlines', v) = IF p.replaces THEN Promised!Entries(p)
                                 ELSE EntriesOf(deadlines, v)
  <2>1. CASE p.replaces
    <3>1. LiveIn(deadlines, v) = {}
      BY <1>3, <2>1 DEF LiveIn, DeadlinesOf
    <3>2. EntriesOf(deadlines, v) = {}
      BY <3>1 DEF EntriesOf
    <3>3. QED
      BY <1>5, <2>1, <3>2
  <2>2. CASE ~p.replaces
    <3>1. p.deadlines = <<>>
      BY <2>2, PayloadsAssumption
    <3>2. Promised!Entries(p) = {}
      BY <3>1 DEF Promised!Entries
    <3>3. QED
      BY <1>5, <2>2, <3>2
  <2>3. QED
    BY <2>1, <2>2
<1>7. Shown(vehicles', deadlines', v) = new
  BY <1>1, <1>2, <1>6 DEF Shown
<1>8. \A w \in DOMAIN vehicles : w # v =>
         Shown(vehicles', deadlines', w) = Shown(vehicles, deadlines, w)
  BY <1>1, <1>5 DEF Shown
<1>9. /\ DOMAIN GarageOf = DOMAIN vehicles /\ DOMAIN GarageOf' = DOMAIN vehicles
      /\ \A w \in DOMAIN vehicles :
            /\ GarageOf[w] = Shown(vehicles, deadlines, w)
            /\ GarageOf'[w] = Shown(vehicles', deadlines', w)
      /\ GarageOf = [w \in DOMAIN vehicles |-> Shown(vehicles, deadlines, w)]
      /\ GarageOf' = [w \in DOMAIN vehicles |-> Shown(vehicles', deadlines', w)]
  BY <1>1, GarageRows
<1>10. GarageOf[v] = row /\ row.deleted = FALSE
  BY <1>2, <1>9 DEF Shown
<1>11. GarageOf' = [GarageOf EXCEPT ![v] = new]
  BY <1>7, <1>8, <1>9
<1>12. new = [[row EXCEPT !.fields = Edited(v, p)] EXCEPT !.deadlines = entries]
  <2>1. row = [owner |-> vehicles[v].owner, fields |-> vehicles[v].fields,
               deadlines |-> EntriesOf(deadlines, v), deleted |-> vehicles[v].deleted]
    BY DEF Shown
  <2> DEFINE o == row.owner
             g == row.deleted
             x == Edited(v, p)
  <2>3. PICK e, f : row = [owner |-> o, fields |-> f, deadlines |-> e, deleted |-> g]
    BY <2>1
  <2> HIDE DEF row, entries, o, g, x
  <2>4. [row EXCEPT !.fields = x]
          = [owner |-> o, fields |-> x, deadlines |-> e, deleted |-> g]
    BY <2>3
  <2>5. [[owner |-> o, fields |-> x, deadlines |-> e, deleted |-> g]
            EXCEPT !.deadlines = entries]
          = [owner |-> o, fields |-> x, deadlines |-> entries, deleted |-> g]
    OBVIOUS
  <2>6. [[row EXCEPT !.fields = x] EXCEPT !.deadlines = entries]
          = [owner |-> o, fields |-> x, deadlines |-> entries, deleted |-> g]
    BY <2>4, <2>5, Zenon
  <2>7. QED
    BY <2>6 DEF o, g, x
<1>13. Edited(v, p) = [f \in Fields |-> IF p.fields[f] = Omitted THEN row.fields[f]
                                        ELSE p.fields[f]]
  BY DEF Edited, Shown
<1> HIDE DEF row, new
<1>14. GarageOf' = [GarageOf EXCEPT
          ![v].fields = [f \in Promised!Fields |-> IF p.fields[f] = Omitted THEN @[f]
                                          ELSE p.fields[f]],
          ![v].deadlines = IF p.replaces THEN Promised!Entries(p) ELSE @]
  BY <1>9, <1>10, <1>11, <1>12, <1>13 DEF Promised!Fields, Fields
<1>15. QED
  BY <1>5, <1>9, <1>10, <1>14 DEF Promised!Edit, Promised!Issue

LEMMA RemoveSimulated ==
    ASSUME IInv, [Next]_vars, NEW v \in DOMAIN vehicles, Hides(v)
    PROVE  v \in DOMAIN GarageOf /\ Promised!Remove(v)
<1> DEFINE row == Shown(vehicles, deadlines, v)
           new == [owner |-> row.owner, fields |-> row.fields,
                   deadlines |-> {}, deleted |-> TRUE]
<1>1. /\ DOMAIN vehicles' = DOMAIN vehicles
      /\ \A w \in DOMAIN vehicles : w # v => vehicles'[w] = vehicles[w]
      /\ vehicles'[v].owner = vehicles[v].owner
      /\ vehicles'[v].fields = vehicles[v].fields
      /\ vehicles'[v].deleted = TRUE
      /\ DOMAIN deadlines' = DOMAIN deadlines
      /\ \A d \in DOMAIN deadlines :
            /\ deadlines'[d].vehicle = deadlines[d].vehicle
            /\ deadlines'[d].type = deadlines[d].type
            /\ deadlines'[d].titled = deadlines[d].titled
            /\ deadlines'[d].deleted = IF deadlines[d].vehicle = v THEN TRUE
                                       ELSE deadlines[d].deleted
  BY AfterHides
<1>2. ~vehicles[v].deleted
  BY DEF Hides
<1>3. LiveIn(deadlines', v) = {}
  BY <1>1 DEF LiveIn
<1>4. \A w : w # v => LiveIn(deadlines', w) = LiveIn(deadlines, w)
  BY <1>1 DEF LiveIn
<1>5. EntriesOf(deadlines', v) = {}
  BY <1>3 DEF EntriesOf
<1>6. ASSUME NEW w, w # v
      PROVE  EntriesOf(deadlines', w) = EntriesOf(deadlines, w)
  <2> DEFINE E(dues, d) == [id |-> d, type |-> dues[d].type, titled |-> dues[d].titled]
  <2>1. LiveIn(deadlines', w) = LiveIn(deadlines, w)
    BY <1>4, <1>6
  <2>2. \A d \in LiveIn(deadlines, w) : E(deadlines', d) = E(deadlines, d)
    BY <1>1 DEF LiveIn
  <2>3. /\ EntriesOf(deadlines', w) = {E(deadlines', d) : d \in LiveIn(deadlines', w)}
        /\ EntriesOf(deadlines, w) = {E(deadlines, d) : d \in LiveIn(deadlines, w)}
    BY DEF EntriesOf
  <2> HIDE DEF E
  <2>4. QED
    BY <2>1, <2>2, <2>3
<1>7. Shown(vehicles', deadlines', v) = new
  BY <1>1, <1>5 DEF Shown
<1>8. \A w \in DOMAIN vehicles : w # v =>
         Shown(vehicles', deadlines', w) = Shown(vehicles, deadlines, w)
  BY <1>1, <1>6 DEF Shown
<1>9. /\ DOMAIN GarageOf = DOMAIN vehicles
      /\ \A w \in DOMAIN vehicles : GarageOf[w] = Shown(vehicles, deadlines, w)
      /\ GarageOf = [w \in DOMAIN vehicles |-> Shown(vehicles, deadlines, w)]
      /\ GarageOf' = [w \in DOMAIN vehicles |-> Shown(vehicles', deadlines', w)]
  BY <1>1, GarageRows
<1>10. GarageOf[v] = row /\ ~row.deleted
  BY <1>2, <1>9 DEF Shown
<1>11. GarageOf' = [GarageOf EXCEPT ![v] = new]
  BY <1>7, <1>8, <1>9
<1>12. new = [[row EXCEPT !.deleted = TRUE] EXCEPT !.deadlines = {}]
  <2>1. row = [owner |-> vehicles[v].owner, fields |-> vehicles[v].fields,
               deadlines |-> EntriesOf(deadlines, v), deleted |-> vehicles[v].deleted]
    BY DEF Shown
  <2> DEFINE o == row.owner
             f == row.fields
  <2>2. PICK e, g : row = [owner |-> o, fields |-> f, deadlines |-> e, deleted |-> g]
    BY <2>1
  <2>3. PICK t : t = TRUE
    OBVIOUS
  <2> HIDE DEF row, o, f
  <2>4. [row EXCEPT !.deleted = t]
          = [owner |-> o, fields |-> f, deadlines |-> e, deleted |-> t]
    BY <2>2
  <2>5. [[owner |-> o, fields |-> f, deadlines |-> e, deleted |-> t]
            EXCEPT !.deadlines = {}]
          = [owner |-> o, fields |-> f, deadlines |-> {}, deleted |-> t]
    OBVIOUS
  <2>6. [[row EXCEPT !.deleted = t] EXCEPT !.deadlines = {}]
          = [owner |-> o, fields |-> f, deadlines |-> {}, deleted |-> t]
    BY <2>4, <2>5, Zenon
  <2>7. QED
    BY <2>3, <2>6, Zenon DEF o, f
<1> HIDE DEF row, new
<1>13. GarageOf' = [GarageOf EXCEPT ![v].deleted = TRUE, ![v].deadlines = {}]
  BY <1>9, <1>10, <1>11, <1>12
<1>14. Len(deadlines') = Len(deadlines)
  <2>1. /\ DOMAIN deadlines = 1..Len(deadlines) /\ Len(deadlines) \in Nat
    BY TablesTyped DEF IInv
  <2>2. /\ DOMAIN deadlines' = 1..Len(deadlines') /\ Len(deadlines') \in Nat
    BY StepTables, LenProperties DEF TablesOK
  <2>3. QED
    BY <1>1, <2>1, <2>2
<1>15. QED
  BY <1>9, <1>10, <1>13, <1>14 DEF Promised!Remove

\* Every step of the store is a step of the garage, or none.
LEMMA StepSimulated ==
    ASSUME XInv, [Next]_vars
    PROVE  [Promised!Next]_<<GarageOf, Len(deadlines)>>
<1>1. IInv
  BY DEF XInv
<1>2. CASE UNCHANGED <<vehicles, deadlines>>
  BY <1>2, GarageOfTables
<1>3. CASE \E u \in Users, p \in Payloads : Adds(u, p)
  BY <1>1, <1>3, AddSimulated DEF Promised!Next
<1>4. CASE \E v \in DOMAIN vehicles, p \in Payloads : Edits(v, p)
  BY <1>1, <1>4, EditSimulated DEF Promised!Next
<1>5. CASE \E v \in DOMAIN vehicles : Hides(v)
  BY <1>1, <1>5, RemoveSimulated DEF Promised!Next
<1>6. QED
  BY <1>2, <1>3, <1>4, <1>5, StepEffects

LEMMA InitSimulated ==
    ASSUME Init
    PROVE  Promised!Init
BY EmptySeq DEF Init, Promised!Init, GarageOf

\* Three visits to the database behave as one, and a request does to its own
\* vehicle, at once and whole, what the garage promises.
THEOREM GarageImplemented == ~Overlap => (Spec => ImplementsGarage)
<1> SUFFICES ASSUME ~Overlap PROVE Spec => ImplementsGarage
  OBVIOUS
<1>1. Init => Promised!Init
  BY InitSimulated
<1>2. XInv /\ [Next]_vars => [Promised!Next]_<<GarageOf, Len(deadlines)>>
  BY StepSimulated
<1>3. Spec => []XInv
  BY ExclusiveInductive
<1>4. QED
  BY <1>1, <1>2, <1>3, PTL DEF Spec, ImplementsGarage, Promised!Spec
=============================================================================
