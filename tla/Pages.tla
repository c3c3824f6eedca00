-------------------------------- MODULE Pages --------------------------------
(***************************************************************************)
(* The pages of one tab on the vehicles of an account: the lists           *)
(* (Dashboard, VehicleList), VehicleDetail with its dialogs, and           *)
(* VehicleForm, over what VehiclesService promises (Garage), while another *)
(* device of the account writes too.  The two lists are one place here.    *)
(*                                                                         *)
(* A page is a React instance.  It survives a change of route that renders *)
(* the same component in the same place: from one vehicle to another, and  *)
(* between the two routes of the form.  Its requests survive it, and their *)
(* callbacks run whatever is on the screen by then; "live" and "own" say   *)
(* whether the page, and the dialog, that made a request are still there.  *)
(*                                                                         *)
(* Any request may fail, before or after the server acted on it.  The      *)
(* empty string is "" and, where a date is meant, 0.  One standard kind    *)
(* stands for those that cannot be paused.                                 *)
(***************************************************************************)
EXTENDS Integers, Sequences, FiniteSets, SequencesExt, ApiResource

CONSTANTS
    Account, Omitted, Null,
    Stock,          \* the garage when the tab is opened
    Catalog,        \* mockCatalog: the models of each make
    Titles, DueDates, Notes, Readings,   \* what users type
    LongNotes,      \* notes of more than 500 characters
    OtherBodies,    \* what the other device sends
    MAX_DEADLINES_PER_VEHICLE,
    MaxVehicles,    \* bound on vehicles
    MaxRows,        \* bound on rows of the form
    MaxActs         \* bound on what the user and the other device do

ASSUME BoundsAssumption ==
    /\ MaxVehicles \in Nat /\ MaxRows \in Nat /\ MaxActs \in Nat
    /\ MAX_DEADLINES_PER_VEHICLE \in Nat

VARIABLES
    garage, issued,   \* the server's
    revision,         \* how often each vehicle was written
    place,            \* the route
    hook,             \* the page's useVehicle or useVehicles
    detail,           \* the state of VehicleDetail and its modal
    form,             \* the state of VehicleForm
    writes,           \* POST, PATCH and DELETE requests under way
    floor,            \* the revisions there were when the page last had to ask
    acts              \* how much the user and the other device did

server == <<garage, issued, revision>>
page == <<place, hook, detail, form>>
vars == <<server, page, writes, floor, acts>>

Server == INSTANCE Garage WITH
    Users <- {Account}, RequiredFields <- {"make", "model"}, DefaultMileage <- 0,
    Payloads <- {}

-----------------------------------------------------------------------------
(* What is shown and what is sent.                                         *)

STANDARD_DEADLINE_TYPES == <<"bollo", "assicurazione">>
StandardTypes == {"bollo", "assicurazione"}

Places ==
    [page: {"list", "create"}, of: {0}]
        \union [page: {"detail", "edit"}, of: 1..MaxVehicles]

List == [page |-> "list", of |-> 0]
DetailOf(v) == [page |-> "detail", of |-> v]

\* Links and bookmarks name vehicles that the account has or had.
Registered(p) == p.of \in 0..Len(garage)

Component(p) == IF p.page \in {"create", "edit"} THEN "form" ELSE p.page

\* What the tables hold of a deadline and of a vehicle.
Deadline ==
    [id: Nat \ {0}, type: StandardTypes \union {"custom"}, title: STRING,
     dueDate: Int, notes: STRING, paused: BOOLEAN]

VehicleRow ==
    [owner: {Account}, deleted: BOOLEAN, deadlines: SUBSET Deadline,
     fields: [make: STRING, model: STRING, mileageKm: Int]]

\* A deadline and a vehicle as they are sent.
DeadlinePayload ==
    [type: StandardTypes \union {"custom"}, title: STRING, dueDate: Int,
     notes: STRING, paused: BOOLEAN]

VehiclePayload ==
    [fields: [make: STRING \union {Omitted}, model: STRING \union {Omitted},
              mileageKm: Int \union {Omitted}],
     replaces: BOOLEAN, deadlines: Seq(DeadlinePayload)]

\* The API takes a title with a custom deadline only, and a date with all.
Valid(d) == d.dueDate # 0 /\ (d.type = "custom" <=> d.title # "")

\* The selects offer the makes, and the models of the make.
Offered(make, model) ==
    /\ make \in DOMAIN Catalog \union {""}
    /\ model # "" => make # "" /\ model \in Catalog[make]

\* No standard kind comes twice.
WellFormed(sent) ==
    /\ \A i \in DOMAIN sent : Valid(sent[i])
    /\ \A i, j \in DOMAIN sent :
          sent[i].type = sent[j].type /\ sent[i].type # "custom" => i = j

Long(sent) == {i \in DOMAIN sent : sent[i].notes \in LongNotes}

\* The API's rules on makes, models and deadlines. It knows of no catalogue.
\* What else a user may type wrong (plate, year, mileage) is left to Refuse.
Accepted(body) ==
    /\ body.fields.make # "" /\ body.fields.model # ""
    /\ WellFormed(body.deadlines) /\ Long(body.deadlines) = {}
    /\ Len(body.deadlines) <= MAX_DEADLINES_PER_VEHICLE

\* What every client of the account keeps to.
Acceptable(body) ==
    LET fields == body.fields IN
    /\ WellFormed(body.deadlines)
    /\ fields.make = Omitted <=> fields.model = Omitted
    /\ fields.model # Omitted => Offered(fields.make, fields.model)

\* So a vehicle of the account is one that the form can show.
Consistent(x) ==
    /\ IsFiniteSet(x.deadlines)
    /\ Cardinality(x.deadlines) <= MAX_DEADLINES_PER_VEHICLE
    /\ \A d \in x.deadlines : Valid(d) /\ d.notes \notin LongNotes
    /\ \A d, e \in x.deadlines :
          d.id = e.id \/ (d.type = e.type /\ d.type # "custom") => d = e
    /\ Offered(x.fields.make, x.fields.model)

ASSUME CatalogAssumption ==
    /\ DOMAIN Catalog \subseteq STRING
    /\ \A make \in DOMAIN Catalog : Catalog[make] \subseteq STRING
ASSUME TypedAssumption ==
    /\ Titles \subseteq STRING \ {""} /\ DueDates \subseteq Int \ {0}
    /\ Notes \subseteq STRING /\ "" \notin LongNotes /\ Readings \subseteq Int
    /\ "" \in STRING   \* the provers know of no string
ASSUME AbsenceAssumption == \A x \in {Omitted, Null} : x \notin STRING \union Int
ASSUME StockAssumption ==
    LET rows == UNION {Stock[v].deadlines : v \in DOMAIN Stock} IN
    /\ Stock \in Seq(VehicleRow) /\ Len(Stock) <= MaxVehicles
    /\ \A v \in DOMAIN Stock : Consistent(Stock[v])
    /\ \A d, e \in rows : d.id <= Cardinality(rows) /\ (d.id = e.id => d = e)
ASSUME OtherDeviceAssumption ==
    \A body \in OtherBodies :
        body \in VehiclePayload /\ Acceptable(body) /\ Accepted(body)

\* A vehicle as the API answers it.
Seen(v) == [id |-> v, vehicle |-> garage[v], revision |-> revision[v]]

Live == {v \in DOMAIN garage : ~garage[v].deleted}

Vehicle(h) == CHOOSE x \in h.data : TRUE

Map(F(_), s) == [i \in DOMAIN s |-> F(s[i])]

\* Numbers in ascending order: each has as many before it as there are smaller
\* ones.
Ascending(I) ==
    [k \in 1..Cardinality(I) |->
        CHOOSE i \in I : Cardinality({j \in I : j < i}) = k - 1]

ById(deadlines) ==
    Map(LAMBDA id : CHOOSE d \in deadlines : d.id = id,
        Ascending({d.id : d \in deadlines}))

\* What a filter leaves of s: the elements at the positions I.
Filtered(s, I) == Map(LAMBDA i : s[i], Ascending(I))

\* The deadline of a payload. An empty title or note is not sent.
Dto(type, title, dueDate, notes, paused) ==
    [type |-> type, title |-> title, dueDate |-> dueDate, notes |-> notes,
     paused |-> paused]

\* Mutant: the notes of the other deadlines forgotten.
UnchangedButNotes(d) == Dto(d.type, d.title, d.dueDate, "", d.paused)

Unchanged(d) == Dto(d.type, d.title, d.dueDate, d.notes, d.paused)

\* The modal has a title for a custom deadline only, and a switch for the
\* insurance only.
Edited(d, e) ==
    Dto(d.type, IF d.type = "custom" THEN e.title ELSE "", e.dueDate, e.notes,
        IF d.type = "assicurazione" THEN e.paused ELSE d.paused)

NoFields == [f \in {"make", "model", "mileageKm"} |-> Omitted]

\* A DELETE carries nothing.
NoBody == [fields |-> NoFields, replaces |-> FALSE, deadlines |-> <<>>]

\* Every deadline of the vehicle is rebuilt, with the managed one substituted.
ModalBody(x, managed, e) ==
    [fields |-> NoFields, replaces |-> TRUE,
     deadlines |-> Map(LAMBDA d : IF d.id = managed.id THEN Edited(managed, e)
                                  ELSE Unchanged(d),
                       ById(x.vehicle.deadlines))]

EMPTY_FORM ==
    [make |-> "", model |-> "", mileageKm |-> Omitted,
     deadlines |-> [t \in StandardTypes |-> 0], customDeadlines |-> <<>>]

toFormValues(x) ==
    LET ofType(t) == {d \in x.vehicle.deadlines : d.type = t} IN
    [make |-> x.vehicle.fields.make, model |-> x.vehicle.fields.model,
     mileageKm |-> x.vehicle.fields.mileageKm,
     deadlines |-> [t \in StandardTypes |->
         IF ofType(t) = {} THEN 0 ELSE (CHOOSE d \in ofType(t) : TRUE).dueDate],
     customDeadlines |->
         Map(LAMBDA d : [title |-> d.title, dueDate |-> d.dueDate],
             ById(ofType("custom")))]

\* A custom row is sent once it has both a title and a date.
Written(row) == row.title # "" /\ row.dueDate # 0

buildPayload(v) ==
    LET dated == {i \in DOMAIN STANDARD_DEADLINE_TYPES :
                     v.deadlines[STANDARD_DEADLINE_TYPES[i]] # 0}
        written == {i \in DOMAIN v.customDeadlines : Written(v.customDeadlines[i])}
        standard(t) == Dto(t, "", v.deadlines[t], "", FALSE)
        custom(row) == Dto("custom", row.title, row.dueDate, "", FALSE) IN
    [fields |-> [f \in {"make", "model", "mileageKm"} |-> v[f]], replaces |-> TRUE,
     deadlines |-> Map(standard, Filtered(STANDARD_DEADLINE_TYPES, dated))
                   \o Map(custom, Filtered(v.customDeadlines, written))]

-----------------------------------------------------------------------------
(* What React renders.                                                     *)

NoDetail ==
    [managing |-> {}, saving |-> FALSE, confirming |-> FALSE, deleting |-> FALSE]

NoForm == [values |-> EMPTY_FORM, filledFrom |-> 0, saving |-> FALSE]

\* React runs the effect that is due before it renders again.
Flushed(h) == IF h.due THEN Asked(h, h.key.page # "create") ELSE h

\* VehicleDetail renders its dialogs under a vehicle only.
ModalOpen(h, d) == h.status = "shown" /\ d.managing # {}

\* The form fills its fields once from each vehicle.
Filled(f, h) ==
    IF h.data # {} /\ Vehicle(h).id # f.filledFrom
    THEN [f EXCEPT !.values = toFormValues(Vehicle(h)), !.filledFrom = Vehicle(h).id]
    ELSE f

\* Every step ends in a rendering: of the route p, with the hook, the states
\* and the requests it left. A modal that is not rendered loses its state.
Render(p, h, d, f, ws) ==
    LET h1 == Rendered(h)
        open == ModalOpen(h1, d) IN
    /\ place' = p
    /\ hook' = h1
    /\ detail' = [d EXCEPT !.saving = @ /\ open]
    /\ form' = IF Component(p) = "form" THEN Filled(f, h1) ELSE f
    /\ writes' = {[w EXCEPT !.own = @ /\ open] : w \in ws}

\* The router goes to p: the page stays if its component does.
Arrive(p, ws) ==
    /\ IF Component(p) = Component(place)
       THEN Render(p, Keyed(Flushed(hook), p), detail, form, ws)
       ELSE Render(p, Mounted(p), NoDetail, NoForm,
                   {[w EXCEPT !.live = FALSE] : w \in ws})
    /\ floor' = IF p = place THEN floor ELSE revision

Init ==
    /\ garage = Stock
    /\ issued = Cardinality(UNION {Stock[v].deadlines : v \in DOMAIN Stock})
    /\ revision = [v \in DOMAIN Stock |-> 0]
    /\ place \in {p \in Places : Registered(p)}
    /\ hook = Mounted(place)
    /\ detail = NoDetail /\ form = NoForm
    /\ writes = {}
    /\ floor = revision
    /\ acts = 0

-----------------------------------------------------------------------------
(* The user.                                                               *)

\* Bounds what is done, by whoever does it.
Act == acts < MaxActs /\ acts' = acts + 1

\* What the form shows of deadlines when it is sent.
Rows(v) ==
    {[type |-> t, title |-> "", dueDate |-> v.deadlines[t]] : t \in StandardTypes}
        \union {[type |-> "custom", title |-> v.customDeadlines[i].title,
                 dueDate |-> v.customDeadlines[i].dueDate] : i \in DOMAIN v.customDeadlines}

Send(kind, v, base, body, edited) ==
    [n |-> acts, kind |-> kind, of |-> v, base |-> base, body |-> body,
     edited |-> edited, rows |-> Rows(form.values), phase |-> "asked", live |-> TRUE,
     own |-> kind = "save"]

Shows(p) == place.page = p /\ hook.status = "shown"
Dialog == detail.managing # {} \/ detail.confirming

\* A link, the back button, or an entry of the history.
Go(p) ==
    /\ Act /\ p # place /\ Registered(p)
    /\ Arrive(p, writes)
    /\ UNCHANGED server

\* The retry button of ErrorState.
Retry ==
    /\ Act /\ hook.status = "failed" /\ place.page # "create"
    /\ Render(place, reload(Flushed(hook)), detail, form, writes)
    /\ floor' = revision
    /\ UNCHANGED server

Manage(d) ==
    /\ Shows("detail") /\ ~Dialog
    /\ Render(place, Flushed(hook), [detail EXCEPT !.managing = {d}], form, writes)
    /\ UNCHANGED <<server, floor, acts>>

\* Escape, the backdrop and the cross close the modal while it is saving too.
CloseModal ==
    /\ ModalOpen(hook, detail)
    /\ Render(place, Flushed(hook), [detail EXCEPT !.managing = {}], form, writes)
    /\ UNCHANGED <<server, floor, acts>>

\* What the modal's fields hold when Save can be pressed.
Edits == [title: Titles, dueDate: DueDates, notes: Notes, paused: BOOLEAN]

SaveDeadline ==
    /\ Act /\ Shows("detail") /\ ModalOpen(hook, detail) /\ ~detail.saving
    /\ \E d \in detail.managing, e \in Edits :
        LET x == Vehicle(hook) IN
        Render(place, Flushed(hook), [detail EXCEPT !.saving = TRUE], form,
            writes \union
                {Send("save", x.id, x.revision, ModalBody(x, d, e), d.id)})
    /\ UNCHANGED <<server, floor>>

AskDelete ==
    /\ Shows("detail") /\ ~Dialog
    /\ Render(place, Flushed(hook), [detail EXCEPT !.confirming = TRUE], form, writes)
    /\ UNCHANGED <<server, floor, acts>>

KeepVehicle ==
    /\ Shows("detail") /\ detail.confirming
    /\ Render(place, Flushed(hook), [detail EXCEPT !.confirming = FALSE], form, writes)
    /\ UNCHANGED <<server, floor, acts>>

handleDelete ==
    /\ Act /\ Shows("detail") /\ detail.confirming /\ ~detail.deleting
    /\ LET x == Vehicle(hook) IN
       Render(place, Flushed(hook), [detail EXCEPT !.deleting = TRUE], form,
              writes \union {Send("delete", x.id, x.revision, NoBody, 0)})
    /\ UNCHANGED <<server, floor>>

FormVisible == place.page = "create" \/ Shows("edit")

\* Mutant: the model stays.
MakeChangeAlone(v, make) == [v EXCEPT !.make = make]

\* Another make clears the model.
handleMakeChange(v, make) == [v EXCEPT !.make = make, !.model = ""]

PickModel(v) ==
    IF v.make = "" THEN {}
    ELSE {[v EXCEPT !.model = model] : model \in Catalog[v.make] \union {""}}

setDeadline(v, type, date) == [v EXCEPT !.deadlines[type] = date]

addCustomDeadline(v) ==
    [v EXCEPT !.customDeadlines = Append(@, [title |-> "", dueDate |-> 0])]

updateCustomDeadline(v, i) ==
    {[v EXCEPT !.customDeadlines[i].title = t] : t \in Titles \union {""}}
        \union {[v EXCEPT !.customDeadlines[i].dueDate = t] : t \in DueDates \union {0}}

removeCustomDeadline(v, i) == [v EXCEPT !.customDeadlines = RemoveAt(@, i)]

\* What one gesture on the form makes of its values.
Typed(v) ==
    {handleMakeChange(v, make) : make \in DOMAIN Catalog \union {""}}
        \union PickModel(v)
        \union {[v EXCEPT !.mileageKm = km] : km \in Readings \union {Omitted}}
        \union {setDeadline(v, t, date) : t \in StandardTypes, date \in DueDates \union {0}}
        \union (IF Len(v.customDeadlines) < MaxRows THEN {addCustomDeadline(v)} ELSE {})
        \union UNION {updateCustomDeadline(v, i) \union {removeCustomDeadline(v, i)} :
                        i \in DOMAIN v.customDeadlines}

Type ==
    /\ Act /\ FormVisible
    /\ \E v \in Typed(form.values) \ {form.values} :
        Render(place, Flushed(hook), detail, [form EXCEPT !.values = v], writes)
    /\ UNCHANGED <<server, floor>>

\* Mutant: the button can be pressed again.
SubmitAgain ==
    /\ Act /\ FormVisible
    /\ LET body == buildPayload(form.values)
           sent == IF place.page = "create" THEN Send("create", 0, 0, body, 0)
                   ELSE Send("update", Vehicle(hook).id, Vehicle(hook).revision, body, 0) IN
       Render(place, Flushed(hook), detail, [form EXCEPT !.saving = TRUE],
              writes \union {sent})
    /\ UNCHANGED <<server, floor>>

handleSubmit ==
    /\ Act /\ FormVisible /\ ~form.saving
    /\ LET body == buildPayload(form.values)
           sent == IF place.page = "create" THEN Send("create", 0, 0, body, 0)
                   ELSE Send("update", Vehicle(hook).id, Vehicle(hook).revision, body, 0) IN
       Render(place, Flushed(hook), detail, [form EXCEPT !.saving = TRUE],
              writes \union {sent})
    /\ UNCHANGED <<server, floor>>

-----------------------------------------------------------------------------
(* The server and the other device.                                        *)

Touch(v) == revision' = [revision EXCEPT ![v] = @ + 1]

Commit(w) ==
    /\ w.phase = "asked"
    /\ \/ /\ w.kind = "create" /\ Accepted(w.body) /\ Len(garage) < MaxVehicles
          /\ Server!Add(Account, w.body)
          /\ revision' = Append(revision, 0)
       \/ /\ w.kind \in {"save", "update"} /\ w.of \in Live /\ Accepted(w.body)
          /\ Server!Edit(w.of, w.body)
          /\ Touch(w.of)
       \/ /\ w.kind = "delete" /\ w.of \in Live
          /\ Server!Remove(w.of)
          /\ Touch(w.of)
    /\ \E phase \in {"ok", "failed"} :
        writes' = (writes \ {w}) \union
            {[w EXCEPT !.phase = phase, !.of = IF @ = 0 THEN Len(garage') ELSE @]}
    /\ UNCHANGED <<page, floor, acts>>

\* A request the server turns down or never gets.
Refuse(w) ==
    /\ w.phase = "asked"
    /\ writes' = (writes \ {w}) \union {[w EXCEPT !.phase = "failed"]}
    /\ UNCHANGED <<server, page, floor, acts>>

OtherDevice(v) ==
    /\ Act
    /\ Server!Remove(v) \/ \E body \in OtherBodies : Server!Edit(v, body)
    /\ Touch(v)
    /\ UNCHANGED <<page, writes, floor>>

AnswerLoad(l) ==
    /\ l.told = "nothing"
    /\ LET found == l.key.page = "list" \/ l.key.of \in Live
           data == {Seen(v) : v \in {u \in Live : l.key.page = "list" \/ l.key.of = u}} IN
       \/ hook' = IF found THEN Answered(hook, l, "shown", data)
                  ELSE Answered(hook, l, "notFound", {})
       \/ hook' = Answered(hook, l, "failed", {})
    /\ UNCHANGED <<server, place, detail, form, writes, floor, acts>>

-----------------------------------------------------------------------------
(* Callbacks.                                                              *)

RunEffect ==
    /\ hook.due
    /\ hook' = Flushed(hook)
    /\ UNCHANGED <<server, place, detail, form, writes, floor, acts>>

DeliverLoad(l) ==
    /\ l.told # "nothing"
    /\ Render(place, Flushed(Delivered(hook, l)), detail, form, writes)
    /\ UNCHANGED <<server, floor, acts>>

\* onSaved, of the page that is there, whichever vehicle and modal it has now.
SavedAnswer(w) ==
    /\ w.kind = "save" /\ w.phase = "ok" /\ w.live
    /\ Render(place, reload(Flushed(hook)), [detail EXCEPT !.managing = {}], form,
              writes \ {w})
    /\ floor' = revision

\* A form that was saved leads to its vehicle, from wherever the user is.
SubmittedAnswer(w) ==
    /\ w.kind \in {"create", "update"} /\ w.phase = "ok"
    /\ Arrive(DetailOf(w.of), writes \ {w})

\* So does a vehicle that was deleted, to the list.
DeletedAnswer(w) ==
    /\ w.kind = "delete" /\ w.phase = "ok"
    /\ Arrive(List, writes \ {w})

\* Mutant: the catch block does not end the wait.
FailureUnnoticed(w) ==
    /\ w.phase = "failed"
    /\ Render(place, Flushed(hook), detail, form, writes \ {w})
    /\ UNCHANGED floor

\* The catch blocks: whoever asked may ask again.
FailedAnswer(w) ==
    /\ w.phase = "failed"
    /\ Render(place, Flushed(hook),
              [detail EXCEPT !.saving = @ /\ ~w.own,
                             !.deleting = @ /\ ~(w.live /\ w.kind = "delete")],
              [form EXCEPT !.saving = @ /\ ~(w.live /\ w.kind \in {"create", "update"})],
              writes \ {w})
    /\ UNCHANGED <<floor>>

\* Nobody is there any more to be told.
UnheardAnswer(w) ==
    /\ w.kind = "save" /\ w.phase = "ok" /\ ~w.live
    /\ writes' = writes \ {w}
    /\ UNCHANGED <<page, floor>>

AnswerWrite(w) ==
    /\ \/ SavedAnswer(w) \/ SubmittedAnswer(w) \/ DeletedAnswer(w)
       \/ FailedAnswer(w) \/ UnheardAnswer(w)
    /\ UNCHANGED <<server, acts>>

User ==
    \/ \E p \in Places : Go(p)
    \/ Retry
    \/ \E d \in UNION {x.vehicle.deadlines : x \in hook.data} : Manage(d)
    \/ CloseModal \/ SaveDeadline
    \/ AskDelete \/ KeepVehicle \/ handleDelete
    \/ Type \/ handleSubmit

Next ==
    \/ User
    \/ \E w \in writes : Commit(w) \/ Refuse(w)
    \/ \E v \in DOMAIN garage : OtherDevice(v)
    \/ \E l \in hook.loads : AnswerLoad(l)
    \/ RunEffect
    \/ \E l \in hook.loads : DeliverLoad(l)
    \/ \E w \in writes : AnswerWrite(w)

Spec == Init /\ [][Next]_vars

\* Requests settle one way or the other, and callbacks and effects are run.
Fairness ==
    /\ WF_vars(\E w \in writes : Commit(w) \/ Refuse(w))
    /\ WF_vars(\E l \in hook.loads : AnswerLoad(l))
    /\ WF_vars(RunEffect)
    /\ WF_vars(\E l \in hook.loads : DeliverLoad(l))
    /\ WF_vars(\E w \in writes : AnswerWrite(w))

FairSpec == Spec /\ Fairness

-----------------------------------------------------------------------------
(* Properties.                                                             *)

\* The variables have the types the code gives them, and what is on the screen
\* belongs to the route (useApiResource).
TypeOK ==
    /\ garage \in Seq(VehicleRow) /\ DOMAIN revision = DOMAIN garage
    /\ place \in Places /\ hook.key = place /\ hook.of = place
    /\ hook \in Resource(Places,
           [id: 1..MaxVehicles, vehicle: VehicleRow, revision: Nat])
    /\ detail.managing \subseteq Deadline /\ Cardinality(detail.managing) <= 1
    /\ detail.confirming \in BOOLEAN
    /\ form.filledFrom \in 0..MaxVehicles

Waits(flag, requests) ==
    /\ flag <=> requests # {}
    /\ Cardinality(requests) <= 1

\* A dialog or a form is disabled exactly while its one request is under way:
\* no gesture sends the same thing twice, and nothing waits for an answer that
\* cannot come, closed dialogs and changed routes included (handleSave,
\* handleDelete, handleSubmit).
WaitsForOneAnswer ==
    /\ Waits(detail.saving, {w \in writes : w.own})
    /\ Waits(detail.deleting, {w \in writes : w.kind = "delete" /\ w.live})
    /\ Waits(form.saving, {w \in writes : w.kind \in {"create", "update"} /\ w.live})

\* What is painted under an address is what the address names, and once a page
\* has settled it is no older than the latest reason it had to ask: its
\* opening, a change of route, a retry, a save of its own (useApiResource).
ShownIsAskedFor ==
    /\ place.page \in {"detail", "edit"} /\ hook.status = "shown" =>
          {x.id : x \in hook.data} = {place.of}
    /\ Settled(hook) =>
          \A x \in hook.data : x.id \in DOMAIN floor => x.revision >= floor[x.id]
    /\ Settled(hook) /\ place.page = "list" =>
          Live \intersect DOMAIN floor \subseteq {x.id : x \in hook.data}

\* What a page sends has no fault but one the user has just put there: the form
\* may leave the make or the model empty or have too many rows, the modal may
\* bring notes that are too long, of the deadline it edits alone. Neither sends
\* a date, a title or a kind that the API would turn down, for a row the user
\* did not open or has not finished, nor a model of another make (handleSave,
\* buildPayload, handleMakeChange).
BodiesAreSound ==
    \A w \in writes : w.kind # "delete" =>
        LET sent == w.body.deadlines
            fields == w.body.fields IN
        /\ WellFormed(sent)
        /\ fields.model \notin {"", Omitted} =>
              fields.make # "" /\ fields.model \in Catalog[fields.make]
        /\ IF w.kind = "save"
           THEN /\ fields = NoFields /\ Len(sent) <= MAX_DEADLINES_PER_VEHICLE
                /\ \A i, j \in Long(sent) : i = j
           ELSE Long(sent) = {}

Commits(w) ==
    /\ w.kind \in {"save", "update"} /\ w \notin writes'
    /\ revision'[w.of] # revision[w.of]

Content(d) == [f \in DOMAIN d \ {"id"} |-> d[f]]
Row(d) == [type |-> d.type, title |-> d.title, dueDate |-> d.dueDate]

\* A save on a vehicle that nobody wrote since the page loaded it leaves alone
\* what the user left alone: the modal every other deadline, notes and pause
\* included, and the columns; the form every row it showed as it was
\* (handleSave, buildPayload).
SavesSpareTheRest ==
    [][\A w \in writes : Commits(w) /\ w.base = revision[w.of] =>
        LET before == garage[w.of]
            after == garage'[w.of] IN
        IF w.kind = "save"
        THEN /\ {Content(d) : d \in {x \in before.deadlines : x.id # w.edited}}
                  \subseteq {Content(d) : d \in after.deadlines}
             /\ Cardinality(after.deadlines) = Cardinality(before.deadlines)
             /\ after.fields = before.fields
        ELSE {Row(d) : d \in before.deadlines} \intersect w.rows
                  \subseteq {Row(d) : d \in after.deadlines}]_vars

Waiting ==
    hook.status = "loading" \/ detail.saving \/ detail.deleting \/ form.saving

\* A page that loads, and a dialog or a form that saves, do not do so for good
\* (useApiResource, handleSave, handleDelete, handleSubmit).
WaitingEnds == Waiting ~> ~Waiting
=============================================================================
