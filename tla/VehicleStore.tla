---------------------------- MODULE VehicleStore ----------------------------
(***************************************************************************)
(* The vehicles of the backend: VehiclesService on top of TypeORM and      *)
(* PostgreSQL, with every request a handler of its own that the event loop *)
(* interleaves with the others at each await.                              *)
(*                                                                         *)
(* A PATCH or a DELETE is three separate visits to the database:           *)
(*   findOne   the service reads the row it is about to change;            *)
(*   reload    Repository.save / softRemove reads the row again and        *)
(*             compares it with the entity in memory, outside any          *)
(*             transaction, to find out what it has to write;              *)
(*   commit    one transaction writes that difference, or fails whole.     *)
(* A POST has no row to read: it is one transaction.                       *)
(*                                                                         *)
(* What TypeORM and PostgreSQL do is not in src/ and is modelled from how  *)
(* the entities declare themselves (cascade, eager, DeleteDateColumn, no   *)
(* orphanedRowAction, the partial unique index, the NOT NULL columns).     *)
(***************************************************************************)
EXTENDS Naturals, Sequences, FiniteSets

CONSTANTS
    Requests,          \* the requests of a behaviour; each is handled once
    Users,             \* accounts, as the session guard hands them over
    VehicleIds,        \* identifiers that clients name in /vehicles/:id
    RequiredFields,    \* the columns every vehicle must have (make .. plate)
    Values,            \* what a column may hold
    DefaultMileage,    \* DEFAULT_MILEAGE_KM
    Null, Omitted,     \* a JSON null, and a property left out of the body
    Malformed,         \* a value the DTO's validators turn down
    StandardTypes,     \* bollo, assicurazione, revisione, tagliando
    Custom,            \* CUSTOM_DEADLINE_TYPE
    MaxDeadlines,      \* MAX_DEADLINES_PER_VEHICLE
    Payloads,          \* the bodies that clients send
    Overlap            \* may two requests on the same vehicle be in flight?

Fields == RequiredFields \union {"mileageKm"}

DeadlineTypes == StandardTypes \union {Custom}

\* CreateDeadlineDto: the kind and whether a title came with it. Due date,
\* notes and paused are carried along unchanged and left out.
DeadlineDto == [type: DeadlineTypes, titled: BOOLEAN]

\* CreateVehicleDto / UpdateVehicleDto. "replaces" is dto.deadlines !== undefined.
PayloadType ==
    [fields: [Fields -> Values \union {Null, Omitted, Malformed}],
     replaces: BOOLEAN,
     deadlines: Seq(DeadlineDto)]

ASSUME FieldsAssumption ==
    /\ "mileageKm" \notin RequiredFields
    /\ DefaultMileage \in Values
    /\ Values \intersect {Null, Omitted, Malformed} = {}
    /\ Null # Omitted /\ Null # Malformed /\ Omitted # Malformed
ASSUME TypesAssumption == Custom \notin StandardTypes
ASSUME MaxDeadlinesAssumption == MaxDeadlines \in Nat
ASSUME VehicleIdsAssumption == VehicleIds \subseteq Nat
ASSUME PayloadsAssumption ==
    /\ Payloads \subseteq PayloadType
    /\ \A p \in Payloads : ~p.replaces => p.deadlines = <<>>
ASSUME OverlapAssumption == Overlap \in BOOLEAN

VARIABLES
    vehicles,    \* the vehicles table, a row per identifier, never shrinking
    deadlines,   \* the deadlines table, likewise
    handler      \* what each request is doing

vars == <<vehicles, deadlines, handler>>

VehicleRow == [owner: Users, fields: [Fields -> Values], deleted: BOOLEAN]

DeadlineRow ==
    [vehicle: Nat, type: DeadlineTypes, titled: BOOLEAN, deleted: BOOLEAN]

-----------------------------------------------------------------------------
(* What the two tables answer.                                             *)

LiveDeadlinesOf(v) ==
    {d \in DOMAIN deadlines : deadlines[d].vehicle = v /\ ~deadlines[d].deleted}

DeadlinesOf(v) == {d \in DOMAIN deadlines : deadlines[d].vehicle = v}

\* Mutants of FindAll: the owner forgotten, the tombstone forgotten.
FindAllOfAnyone(u) == {v \in DOMAIN vehicles : ~vehicles[v].deleted}
FindAllWithDeleted(u) == {v \in DOMAIN vehicles : vehicles[v].owner = u}

\* VehiclesService.findAll and, one identifier at a time, findOne: the rows of
\* the account that carry no tombstone.
FindAll(u) ==
    {v \in DOMAIN vehicles : vehicles[v].owner = u /\ ~vehicles[v].deleted}

\* Mutant: the table without its index.
NoIndex(rows) == TRUE

\* The partial unique index uq_deadline_vehicle_type over a deadlines table.
UniqueKinds(rows) ==
    \A d, e \in DOMAIN rows :
        /\ d # e
        /\ ~rows[d].deleted /\ ~rows[e].deleted
        /\ rows[d].vehicle = rows[e].vehicle
        /\ rows[d].type # Custom
        => rows[d].type # rows[e].type

-----------------------------------------------------------------------------
(* Validation: the DTOs first, then VehiclesService.buildDeadlines.        *)

\* ValidationPipe on CreateVehicleDto.
ValidCreate(p) ==
    /\ \A f \in RequiredFields : p.fields[f] \in Values
    /\ p.fields["mileageKm"] \in Values \union {Null, Omitted}
    /\ Len(p.deadlines) <= MaxDeadlines

\* Mutant: the cap lost on the way to the PATCH.
ValidUpdateUncapped(p) ==
    \A f \in Fields : p.fields[f] \in Values \union {Null, Omitted}

\* ValidationPipe on UpdateVehicleDto: PartialType makes every property
\* optional, and @IsOptional lets a null through as well as an absence.
ValidUpdate(p) ==
    /\ \A f \in Fields : p.fields[f] \in Values \union {Null, Omitted}
    /\ Len(p.deadlines) <= MaxDeadlines

\* Mutant: seenStandardTypes never consulted.
BuildableWithDuplicates(dtos) ==
    \A i \in DOMAIN dtos : dtos[i].titled <=> dtos[i].type = Custom

\* buildDeadlines throws a 400 unless this holds.
Buildable(dtos) ==
    /\ \A i \in DOMAIN dtos : dtos[i].titled <=> dtos[i].type = Custom
    /\ \A i, j \in DOMAIN dtos :
          i # j /\ dtos[i].type # Custom => dtos[i].type # dtos[j].type

\* The row buildDeadlines makes of one entry, once it belongs to vehicle v.
NewDeadline(v, dto) ==
    [vehicle |-> v,
     type |-> dto.type,
     titled |-> IF dto.type # Custom THEN FALSE ELSE dto.titled,
     deleted |-> FALSE]

BuildDeadlines(v, dtos) == [i \in 1..Len(dtos) |-> NewDeadline(v, dtos[i])]

\* Mutant: the mileage stored as it came.
CreatedFieldsAsSent(p) == p.fields

\* VehiclesService.create: a vehicle with no reading is a new one.
CreatedFields(p) ==
    [f \in Fields |->
        IF f = "mileageKm" /\ p.fields[f] \in {Null, Omitted}
        THEN DefaultMileage ELSE p.fields[f]]

-----------------------------------------------------------------------------
(* Handlers.                                                               *)

Lost == 0   \* no answer: the connection went down with the process
Statuses == {200, 201, 204, 400, 404, 500, Lost}

NoBody == [fields |-> [f \in Fields |-> Omitted],
           replaces |-> FALSE, deadlines |-> <<>>]

Idle == [phase |-> "idle"]

\* After findOne: the columns it returned, and the identifiers of the deadlines
\* entity.deadlines holds.
LoadedHandler ==
    [phase: {"loaded"}, op: {"update", "remove"}, user: Users, vehicle: Nat,
     payload: Payloads \union {NoBody}, seen: [Fields -> Values],
     kept: SUBSET Nat]

\* After the reload: the columns to write, whether deleted_at of the vehicle
\* and of which deadlines goes back to NULL, and the rows of the vehicle that
\* the entity no longer lists.
PlannedHandler ==
    [phase: {"planned"}, op: {"update", "remove"}, user: Users, vehicle: Nat,
     payload: Payloads \union {NoBody}, seen: [Fields -> Values],
     kept: SUBSET Nat, changed: SUBSET Fields, lift: BOOLEAN,
     lifted: SUBSET Nat, orphans: SUBSET Nat]

DoneHandler ==
    [phase: {"done"}, op: {"create", "update", "remove"}, user: Users,
     vehicle: Nat, status: Statuses]

InFlight(r) == handler[r].phase \in {"loaded", "planned"}

\* Requests on the same vehicle overlap when two tabs or devices act at once.
MayStart(r, v) ==
    /\ handler[r] = Idle
    /\ Overlap \/ \A q \in Requests : InFlight(q) => handler[q].vehicle # v

Answered(op, u, v, status) ==
    [phase |-> "done", op |-> op, user |-> u, vehicle |-> v, status |-> status]

Answer(r, op, u, v, status) ==
    handler' = [handler EXCEPT ![r] = Answered(op, u, v, status)]

Refuse(r, op, u, v, status) ==
    Answer(r, op, u, v, status) /\ UNCHANGED <<vehicles, deadlines>>

Init ==
    /\ vehicles = <<>>
    /\ deadlines = <<>>
    /\ handler = [r \in Requests |-> Idle]

-----------------------------------------------------------------------------
(* POST /vehicles                                                          *)

RefuseCreate(r, u, p) ==
    /\ handler[r] = Idle
    /\ \/ ~ValidCreate(p)
       \/ ~Buildable(p.deadlines)
    /\ Refuse(r, "create", u, 0, 400)

\* One transaction: the row and, by cascade, its deadlines; or nothing.
Create(r, u, p) ==
    LET v == Len(vehicles) + 1
        rows == deadlines \o BuildDeadlines(v, p.deadlines)
    IN  /\ handler[r] = Idle
        /\ ValidCreate(p) /\ Buildable(p.deadlines)
        /\ IF UniqueKinds(rows)
           THEN /\ vehicles' = Append(vehicles, [owner |-> u,
                                                 fields |-> CreatedFields(p),
                                                 deleted |-> FALSE])
                /\ deadlines' = rows
                /\ Answer(r, "create", u, v, 201)
           ELSE Refuse(r, "create", u, 0, 500)

-----------------------------------------------------------------------------
(* PATCH /vehicles/:id                                                     *)

RefuseUpdate(r, u, v, p) ==
    /\ handler[r] = Idle
    /\ \/ /\ ~ValidUpdate(p)
          /\ Refuse(r, "update", u, v, 400)
       \/ /\ ValidUpdate(p) /\ v \notin FindAll(u)
          /\ Refuse(r, "update", u, v, 404)
       \/ /\ ValidUpdate(p) /\ v \in FindAll(u)
          /\ p.replaces /\ ~Buildable(p.deadlines)
          /\ Refuse(r, "update", u, v, 400)

\* findOne, and the assignments that follow it without an await: a payload
\* with deadlines leaves none of the rows it read in entity.deadlines.
LoadForUpdate(r, u, v, p) ==
    /\ MayStart(r, v)
    /\ ValidUpdate(p) /\ v \in FindAll(u)
    /\ p.replaces => Buildable(p.deadlines)
    /\ handler' = [handler EXCEPT ![r] =
          [phase |-> "loaded", op |-> "update", user |-> u, vehicle |-> v,
           payload |-> p, seen |-> vehicles[v].fields,
           kept |-> IF p.replaces THEN {} ELSE LiveDeadlinesOf(v)]]
    /\ UNCHANGED <<vehicles, deadlines>>

\* Mutant: an initializer of the DTO copied by PartialType, so that a PATCH
\* without an odometer reading resets it.
EntityWithDefaults(h) ==
    [f \in Fields |-> IF h.payload.fields[f] # Omitted THEN h.payload.fields[f]
                      ELSE IF f = "mileageKm" THEN DefaultMileage ELSE h.seen[f]]

\* The columns of the entity in memory: the ones read, overwritten by those
\* the payload brings.
Entity(h) ==
    [f \in Fields |-> IF h.payload.fields[f] # Omitted THEN h.payload.fields[f]
                      ELSE h.seen[f]]

\* save and softRemove read the row again, deleted or not, and compare: a
\* column differs, deleted_at is NULL in the entity and set in the row, a row
\* of the relation is not in entity.deadlines. Whether the relation they read
\* includes tombstones is TypeORM's business, and both are allowed.
Reload(r) ==
    LET h == handler[r]
        v == h.vehicle
    IN  /\ h.phase = "loaded"
        /\ \E related \in {DeadlinesOf(v), LiveDeadlinesOf(v)} :
             handler' = [handler EXCEPT ![r] =
               [phase |-> "planned", op |-> h.op, user |-> h.user,
                vehicle |-> v, payload |-> h.payload, seen |-> h.seen,
                kept |-> h.kept,
                changed |-> {f \in Fields : /\ h.op = "update"
                                            /\ Entity(h)[f] # vehicles[v].fields[f]},
                lift |-> h.op = "update" /\ vehicles[v].deleted,
                lifted |-> {d \in h.kept : h.op = "update" /\ deadlines[d].deleted},
                orphans |-> related \ h.kept]]
        /\ UNCHANGED <<vehicles, deadlines>>

\* The row of the vehicle once the planned columns are written.
UpdatedRow(h) ==
    LET row == vehicles[h.vehicle]
    IN  [owner |-> row.owner,
         fields |-> [f \in Fields |-> IF f \in h.changed THEN Entity(h)[f]
                                      ELSE row.fields[f]],
         deleted |-> IF h.lift THEN FALSE ELSE row.deleted]

\* The deadlines table once the planned rows are written and inserted.
UpdatedDeadlines(h) ==
    [d \in 1..Len(deadlines) |->
        [deadlines[d] EXCEPT !.deleted = IF d \in h.lifted THEN FALSE ELSE @]]
    \o BuildDeadlines(h.vehicle, h.payload.deadlines)

\* Why the transaction of a save rolls back: a required column set to NULL, a
\* row left out of the relation (its vehicle_id would become NULL, as no
\* orphanedRowAction says otherwise), two live rows of a standard kind.
SaveFails(h) ==
    \/ \E f \in h.changed : Entity(h)[f] = Null
    \/ h.orphans # {}
    \/ ~UniqueKinds(UpdatedDeadlines(h))

CommitUpdate(r) ==
    LET h == handler[r]
    IN  /\ h.phase = "planned" /\ h.op = "update"
        /\ ~SaveFails(h)
        /\ vehicles' = [vehicles EXCEPT ![h.vehicle] = UpdatedRow(h)]
        /\ deadlines' = UpdatedDeadlines(h)
        /\ Answer(r, "update", h.user, h.vehicle, 200)

RollBackUpdate(r) ==
    LET h == handler[r]
    IN  /\ h.phase = "planned" /\ h.op = "update"
        /\ SaveFails(h)
        /\ Refuse(r, "update", h.user, h.vehicle, 500)

-----------------------------------------------------------------------------
(* DELETE /vehicles/:id                                                    *)

RefuseRemove(r, u, v) ==
    /\ handler[r] = Idle
    /\ v \notin FindAll(u)
    /\ Refuse(r, "remove", u, v, 404)

LoadForRemove(r, u, v) ==
    /\ MayStart(r, v)
    /\ v \in FindAll(u)
    /\ handler' = [handler EXCEPT ![r] =
          [phase |-> "loaded", op |-> "remove", user |-> u, vehicle |-> v,
           payload |-> NoBody, seen |-> vehicles[v].fields,
           kept |-> LiveDeadlinesOf(v)]]
    /\ UNCHANGED <<vehicles, deadlines>>

\* Mutants of RemovedDeadlines: a relation that does not cascade, and remove
\* in the place of softRemove.
DeadlinesLeftAlone(h) == deadlines
DeadlinesErased(h) ==
    LET stays(row) == row.vehicle # h.vehicle IN SelectSeq(deadlines, stays)

\* The deadlines table with the tombstone on every row the entity lists.
RemovedDeadlines(h) ==
    [d \in 1..Len(deadlines) |->
        [deadlines[d] EXCEPT !.deleted = IF d \in h.kept THEN TRUE ELSE @]]

CommitRemove(r) ==
    LET h == handler[r]
    IN  /\ h.phase = "planned" /\ h.op = "remove"
        /\ h.orphans = {}
        /\ vehicles' = [vehicles EXCEPT ![h.vehicle].deleted = TRUE]
        /\ deadlines' = RemovedDeadlines(h)
        /\ Answer(r, "remove", h.user, h.vehicle, 204)

RollBackRemove(r) ==
    LET h == handler[r]
    IN  /\ h.phase = "planned" /\ h.op = "remove"
        /\ h.orphans # {}
        /\ Refuse(r, "remove", h.user, h.vehicle, 500)

-----------------------------------------------------------------------------
\* The process goes down and comes back (restart: unless-stopped): handlers in
\* flight are gone, and PostgreSQL keeps what was committed.
Restart ==
    /\ \E r \in Requests : InFlight(r)
    /\ handler' = [r \in Requests |->
          IF InFlight(r)
          THEN Answered(handler[r].op, handler[r].user, handler[r].vehicle, Lost)
          ELSE handler[r]]
    /\ UNCHANGED <<vehicles, deadlines>>

\* What a handler in flight does next.
Proceed(r) ==
    \/ Reload(r)
    \/ CommitUpdate(r) \/ RollBackUpdate(r)
    \/ CommitRemove(r) \/ RollBackRemove(r)

Next ==
    \/ \E r \in Requests, u \in Users, p \in Payloads :
          RefuseCreate(r, u, p) \/ Create(r, u, p)
    \/ \E r \in Requests, u \in Users, v \in VehicleIds, p \in Payloads :
          RefuseUpdate(r, u, v, p) \/ LoadForUpdate(r, u, v, p)
    \/ \E r \in Requests, u \in Users, v \in VehicleIds :
          RefuseRemove(r, u, v) \/ LoadForRemove(r, u, v)
    \/ \E r \in Requests : Proceed(r)
    \/ Restart

Spec == Init /\ [][Next]_vars

-----------------------------------------------------------------------------
(* Properties that hold however requests overlap.                          *)

\* Every variable keeps its shape: in particular no column of a stored vehicle
\* is ever NULL, absent or something the validators turn down.
TypeOK ==
    /\ vehicles \in Seq(VehicleRow)
    /\ deadlines \in Seq(DeadlineRow)
    /\ handler \in [Requests -> {Idle} \union LoadedHandler
                                \union PlannedHandler \union DoneHandler]

\* The rules of deadline.entity.ts survive every interleaving of two saves: a
\* vehicle has at most one live deadline of each standard kind, and a title
\* belongs to custom deadlines and only to them.
DeadlineRules ==
    /\ \A d, e \in DOMAIN deadlines :
          /\ ~deadlines[d].deleted /\ ~deadlines[e].deleted
          /\ deadlines[d].vehicle = deadlines[e].vehicle
          /\ deadlines[d].type = deadlines[e].type
          /\ deadlines[d].type \in StandardTypes
          => d = e
    /\ \A d \in DOMAIN deadlines :
          deadlines[d].titled <=> deadlines[d].type = Custom

\* A request finishes with this step.
Finishes(r) == handler[r].phase # "done" /\ handler'[r].phase = "done"

\* A step changes the row of vehicle v or one of the deadlines it has.
Touched(v) ==
    \/ vehicles'[v] # vehicles[v]
    \/ \E d \in DOMAIN deadlines :
          deadlines[d].vehicle = v /\ deadlines'[d] # deadlines[d]
    \/ \E d \in DOMAIN deadlines' \ DOMAIN deadlines : deadlines'[d].vehicle = v

TouchesOwnRows ==
    \A v \in DOMAIN vehicles :
        Touched(v) => \E r \in Requests : /\ Finishes(r)
                                          /\ handler[r].phase = "planned"
                                          /\ handler[r].vehicle = v
                                          /\ handler[r].user = vehicles[v].owner

\* "Every read and every write in this service is scoped by userId": although
\* save and softRemove name a row by its identifier alone, a row and its
\* deadlines change only when a request of the row's own account finishes.
OwnersOnly == [][TouchesOwnRows]_vars

\* A deleted vehicle that no handler is holding a copy of.
Resting(v) ==
    /\ vehicles[v].deleted
    /\ \A r \in Requests : InFlight(r) => handler[r].vehicle # v

LetsRest == \A v \in DOMAIN vehicles : Resting(v) => ~Touched(v) /\ Resting(v)'

\* A tombstone that no handler is holding a copy of is final: only a request
\* whose findOne came before the deletion can lift it.
RestingTombstoneStays == [][LetsRest]_vars

KeepsRows ==
    /\ DOMAIN vehicles \subseteq DOMAIN vehicles'
    /\ DOMAIN deadlines \subseteq DOMAIN deadlines'
    /\ \A v \in DOMAIN vehicles : vehicles'[v].owner = vehicles[v].owner
    /\ \A d \in DOMAIN deadlines :
          /\ deadlines'[d].vehicle = deadlines[d].vehicle
          /\ deadlines'[d].type = deadlines[d].type
          /\ deadlines'[d].titled = deadlines[d].titled

\* Rows are marked, never removed and never moved: a row keeps its identifier,
\* its owner or vehicle and its kind, as synchronisation (ADR 0010) needs.
RowsAreKept == [][KeepsRows]_vars

-----------------------------------------------------------------------------
(* Properties of vehicles on which requests do not overlap.                *)

\* A tombstone on the vehicle is a tombstone on its deadlines and the other
\* way round ("the deadlines are marked with it because the relation cascades").
TombstoneCoversDeadlines ==
    \A d \in DOMAIN deadlines :
        deadlines[d].deleted = vehicles[deadlines[d].vehicle].deleted

\* What a DELETE answered with 204 removed stays removed: the test "leaves a
\* tombstone" reads the vehicle afterwards and expects a 404.
DeletedStaysDeleted ==
    \A r \in Requests :
        /\ handler[r].phase = "done"
        /\ handler[r].op = "remove" /\ handler[r].status = 204
        => vehicles[handler[r].vehicle].deleted

\* MAX_DEADLINES_PER_VEHICLE bounds what a vehicle carries and not only what a
\* payload does.
DeadlineCap ==
    \A v \in DOMAIN vehicles :
        Cardinality(LiveDeadlinesOf(v)) <= MaxDeadlines

HasNull(p) == \E f \in Fields : p.fields[f] = Null

\* buildDeadlines and the DTOs answer 400 before PostgreSQL can object, with
\* two exceptions only: a PATCH that sends a null, and a PATCH that brings
\* deadlines for a vehicle that has some.
ServerErrorsExplained ==
    [][\A r \in Requests :
          Finishes(r) /\ handler'[r].status = 500
          => /\ handler[r].phase = "planned" /\ handler[r].op = "update"
             /\ \/ HasNull(handler[r].payload)
                \/ /\ handler[r].payload.replaces
                   /\ LiveDeadlinesOf(handler[r].vehicle) # {}]_vars

-----------------------------------------------------------------------------
(* What a comment says and the code does not do.                           *)

\* "deadlines, when present, replaces the whole set" (vehicles.service.ts:79):
\* a valid PATCH that brings deadlines is not answered with a server error.
ReplacementSucceeds ==
    [][\A r \in Requests :
          /\ handler[r].phase = "planned"
          /\ handler[r].payload.replaces /\ ~HasNull(handler[r].payload)
          /\ Finishes(r)
          => handler'[r].status # 500]_vars

-----------------------------------------------------------------------------
(* The store as a garage: a vehicle with the deadlines that carry no       *)
(* tombstone.                                                              *)

GarageOf ==
    [v \in 1..Len(vehicles) |->
        [owner |-> vehicles[v].owner,
         fields |-> vehicles[v].fields,
         deadlines |-> {[id |-> d, type |-> deadlines[d].type,
                         titled |-> deadlines[d].titled] : d \in LiveDeadlinesOf(v)},
         deleted |-> vehicles[v].deleted]]

Promised == INSTANCE Garage WITH garage <- GarageOf, issued <- Len(deadlines)

\* Where requests on one vehicle do not overlap, three visits to the database
\* behave as one: each request changes its own vehicle, at once and whole, and
\* only the fields its payload brings.
ImplementsGarage == Promised!Spec

=============================================================================
