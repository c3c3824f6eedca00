----------------------------- MODULE PagesProofs -----------------------------
(***************************************************************************)
(* Proofs about Pages, for any account, catalogue, other device and        *)
(* bounds: a dialog or a form waits exactly while its one request is under *)
(* way; what is shown is what was asked for; and what is sent is sound.    *)
(*                                                                         *)
(* Only the flags of the page, the requests and the component on the       *)
(* screen matter to the first: "sv", "dl" and "fs" are the flags of the    *)
(* modal, of the dialog that deletes and of the form, p the route.         *)
(***************************************************************************)
EXTENDS PagePartsProofs

Request(w) ==
    w = [n |-> w.n, kind |-> w.kind, of |-> w.of, base |-> w.base,
         body |-> w.body, edited |-> w.edited, rows |-> w.rows,
         phase |-> w.phase, live |-> w.live, own |-> w.own]

\* The requests that somebody waits for.
Saves(ws) == {w \in ws : w.own}
Deletes(ws) == {w \in ws : w.kind = "delete" /\ w.live}
Submits(ws) == {w \in ws : w.kind \in {"create", "update"} /\ w.live}

One(flag, requests) ==
    /\ flag \in BOOLEAN
    /\ flag <=> requests # {}
    /\ \A v, w \in requests : v = w

Formed(w) ==
    /\ Request(w) /\ w.own \in BOOLEAN /\ w.live \in BOOLEAN
    /\ w.own => w.kind = "save" /\ w.live

WInv(p, sv, dl, fs, ws) ==
    /\ \A w \in ws : Formed(w)
    /\ One(sv, Saves(ws)) /\ One(dl, Deletes(ws)) /\ One(fs, Submits(ws))
    /\ dl => Component(p) = "detail"
    /\ fs => Component(p) = "form"

DetailShape(d) ==
    d = [managing |-> d.managing, saving |-> d.saving,
         confirming |-> d.confirming, deleting |-> d.deleting]

IInv ==
    /\ DetailShape(detail) /\ FormShape(form)
    /\ WInv(place, detail.saving, detail.deleting, form.saving, writes)

-----------------------------------------------------------------------------
\* A modal that goes leaves its request with nobody to wait for it.
LEMMA Disowning ==
    ASSUME NEW p, NEW sv, NEW dl, NEW fs, NEW ws, WInv(p, sv, dl, fs, ws),
           NEW open \in BOOLEAN, NEW still \in BOOLEAN, still <=> sv /\ open
    PROVE  WInv(p, still, dl, fs, {[w EXCEPT !.own = @ /\ open] : w \in ws})
<1> DEFINE h == [w \in ws |-> [w EXCEPT !.own = @ /\ open]]
           us == {[w EXCEPT !.own = @ /\ open] : w \in ws}
<1>1. ASSUME NEW w \in ws
      PROVE  /\ Request(h[w]) /\ h[w].kind = w.kind /\ h[w].live = w.live
             /\ h[w].own \in BOOLEAN /\ (h[w].own <=> w.own /\ open)
  <2>1. Request(w) /\ w.own \in BOOLEAN
    BY DEF WInv, Formed
  <2>2. PICK o \in BOOLEAN : o = (w.own /\ open)
    OBVIOUS
  <2>3. h[w] = [w EXCEPT !.own = o]
    BY <2>2, Zenon
  <2> HIDE DEF h
  <2>4. Request(h[w]) /\ h[w].kind = w.kind /\ h[w].live = w.live /\ h[w].own = o
    BY <2>1, <2>3 DEF Request
  <2>5. QED
    BY <2>2, <2>4
<1>2. us = {h[w] : w \in ws}
  OBVIOUS
<1> HIDE DEF h, us
<1>3. One(still, Saves(us))
  BY <1>1, <1>2 DEF WInv, One, Saves
<1>4. One(dl, Deletes(us))
  BY <1>1, <1>2 DEF WInv, One, Deletes
<1>5. One(fs, Submits(us))
  BY <1>1, <1>2 DEF WInv, One, Submits
<1>6. QED
  BY <1>1, <1>2, <1>3, <1>4, <1>5 DEF WInv, Formed, us

\* A page that goes leaves all of its requests so.
LEMMA Abandoning ==
    ASSUME NEW p, NEW ws, \A w \in ws : Formed(w)
    PROVE  WInv(p, FALSE, FALSE, FALSE,
                {[w EXCEPT !.own = FALSE] : w \in {[v EXCEPT !.live = FALSE] : v \in ws}})
<1> DEFINE us == {[w EXCEPT !.own = FALSE] : w \in {[v EXCEPT !.live = FALSE] : v \in ws}}
<1>1. ASSUME NEW u \in us PROVE Formed(u) /\ ~u.own /\ ~u.live
  <2>1. PICK v \in ws : u = [[v EXCEPT !.live = FALSE] EXCEPT !.own = FALSE]
    OBVIOUS
  <2>2. Request(v)
    BY DEF Formed
  <2>3. u = [n |-> v.n, kind |-> v.kind, of |-> v.of, base |-> v.base,
             body |-> v.body, edited |-> v.edited, rows |-> v.rows,
             phase |-> v.phase, live |-> FALSE, own |-> FALSE]
    BY <2>1, <2>2 DEF Request
  <2>4. QED
    BY <2>3 DEF Formed, Request
<1>2. Saves(us) = {} /\ Deletes(us) = {} /\ Submits(us) = {}
  BY <1>1 DEF Saves, Deletes, Submits
<1>3. QED
  BY <1>1, <1>2 DEF WInv, One

\* A request that is sent is the first of its kind.
LEMMA Sending ==
    ASSUME NEW p, NEW sv \in BOOLEAN, NEW dl \in BOOLEAN, NEW fs \in BOOLEAN, NEW ws,
           WInv(p, sv, dl, fs, ws), NEW w, Formed(w), w.live
    PROVE  /\ w.kind = "save" /\ w.own /\ ~sv =>
                 WInv(p, TRUE, dl, fs, ws \union {w})
           /\ w.kind = "delete" /\ ~dl /\ Component(p) = "detail" =>
                 WInv(p, sv, TRUE, fs, ws \union {w})
           /\ w.kind \in {"create", "update"} /\ ~fs /\ Component(p) = "form" =>
                 WInv(p, sv, dl, TRUE, ws \union {w})
<1> DEFINE us == ws \union {w}
<1>1. Saves(us) = Saves(ws) \union (IF w.own THEN {w} ELSE {})
  BY DEF Saves
<1>2. Deletes(us) = Deletes(ws) \union (IF w.kind = "delete" THEN {w} ELSE {})
  BY DEF Deletes
<1>3. Submits(us) =
        Submits(ws) \union (IF w.kind \in {"create", "update"} THEN {w} ELSE {})
  BY DEF Submits
<1>4. \A x \in us : Formed(x)
  BY DEF WInv
<1>5. w.own => w.kind = "save"
  BY DEF Formed
<1> HIDE DEF us
<1>6. ASSUME w.kind = "save", w.own, ~sv PROVE WInv(p, TRUE, dl, fs, us)
  BY <1>1, <1>2, <1>3, <1>4, <1>6 DEF WInv, One
<1>7. ASSUME w.kind = "delete", ~dl, Component(p) = "detail"
      PROVE  WInv(p, sv, TRUE, fs, us)
  BY <1>1, <1>2, <1>3, <1>4, <1>5, <1>7 DEF WInv, One
<1>8. ASSUME w.kind \in {"create", "update"}, ~fs, Component(p) = "form"
      PROVE  WInv(p, sv, dl, TRUE, us)
  BY <1>1, <1>2, <1>3, <1>4, <1>5, <1>8 DEF WInv, One
<1>9. QED
  BY <1>6, <1>7, <1>8 DEF us

\* The answer to the request that is waited for ends the wait.
LEMMA Ending ==
    ASSUME NEW p, NEW sv, NEW dl, NEW fs, NEW ws,
           WInv(p, sv, dl, fs, ws), NEW w \in ws,
           NEW sv1 \in BOOLEAN, sv1 <=> sv /\ ~w.own,
           NEW dl1 \in BOOLEAN, dl1 <=> dl /\ ~(w.live /\ w.kind = "delete"),
           NEW fs1 \in BOOLEAN,
           fs1 <=> fs /\ ~(w.live /\ w.kind \in {"create", "update"})
    PROVE  WInv(p, sv1, dl1, fs1, ws \ {w})
<1> DEFINE us == ws \ {w}
<1>1. /\ Saves(us) = Saves(ws) \ {w} /\ Deletes(us) = Deletes(ws) \ {w}
      /\ Submits(us) = Submits(ws) \ {w}
      /\ w \in Saves(ws) <=> w.own
      /\ w \in Deletes(ws) <=> w.live /\ w.kind = "delete"
      /\ w \in Submits(ws) <=> w.live /\ w.kind \in {"create", "update"}
  BY DEF Saves, Deletes, Submits
<1>2. One(sv1, Saves(us))
  BY <1>1 DEF WInv, One
<1>3. One(dl1, Deletes(us))
  BY <1>1 DEF WInv, One
<1>4. One(fs1, Submits(us))
  BY <1>1 DEF WInv, One
<1>5. QED
  BY <1>2, <1>3, <1>4 DEF WInv

\* What the server makes of a request is still the same request.
LEMMA Answering ==
    ASSUME NEW p, NEW sv, NEW dl, NEW fs, NEW ws,
           WInv(p, sv, dl, fs, ws), NEW w \in ws, NEW u, Formed(u),
           u.kind = w.kind, u.own = w.own, u.live = w.live
    PROVE  WInv(p, sv, dl, fs, (ws \ {w}) \union {u})
<1> DEFINE us == (ws \ {w}) \union {u}
<1>1. One(sv, Saves(us))
  BY DEF WInv, One, Saves
<1>2. One(dl, Deletes(us))
  BY DEF WInv, One, Deletes
<1>3. One(fs, Submits(us))
  BY DEF WInv, One, Submits
<1>4. QED
  BY <1>1, <1>2, <1>3 DEF WInv

-----------------------------------------------------------------------------
(* Renderings.                                                             *)

\* What the page has of its parts.
LEMMA Reshaped ==
    ASSUME NEW x
    PROVE  /\ \A d : DetailShape(d) =>
                 LET e == [d EXCEPT !.managing = x] IN
                 /\ DetailShape(e) /\ e.saving = d.saving /\ e.deleting = d.deleting
                 /\ e.managing = x
           /\ \A d : DetailShape(d) =>
                 LET e == [d EXCEPT !.confirming = x] IN
                 DetailShape(e) /\ e.saving = d.saving /\ e.deleting = d.deleting
           /\ \A d : DetailShape(d) =>
                 LET e == [d EXCEPT !.saving = x] IN
                 DetailShape(e) /\ e.saving = x /\ e.deleting = d.deleting
           /\ \A d : DetailShape(d) =>
                 LET e == [d EXCEPT !.deleting = x] IN
                 DetailShape(e) /\ e.saving = d.saving /\ e.deleting = x
           /\ \A f : FormShape(f) =>
                 LET e == [f EXCEPT !.values = x] IN FormShape(e) /\ e.saving = f.saving
           /\ \A f : FormShape(f) =>
                 LET e == [f EXCEPT !.saving = x] IN FormShape(e) /\ e.saving = x
BY DEF DetailShape, FormShape

\* A rendering leaves in order what was in order before, or is so once the
\* modal has gone.
LEMMA Rendering ==
    ASSUME NEW p, NEW h, NEW d, NEW f, NEW ws, Render(p, h, d, f, ws),
           DetailShape(d), FormShape(f),
           NEW sv, WInv(p, sv, d.deleting, f.saving, ws),
           sv = d.saving \/ d.managing = {}
    PROVE  IInv'
<1>1. PICK open \in BOOLEAN : open = ModalOpen(Rendered(h), d)
  BY DEF ModalOpen
<1>2. /\ place' = p
      /\ detail' = [d EXCEPT !.saving = @ /\ open]
      /\ form' = IF Component(p) = "form" THEN Filled(f, Rendered(h)) ELSE f
      /\ writes' = {[w EXCEPT !.own = @ /\ open] : w \in ws}
  BY <1>1, Zenon DEF Render
<1>3. PICK still \in BOOLEAN : still = (d.saving /\ open)
  OBVIOUS
<1>4. detail' = [d EXCEPT !.saving = still]
  BY <1>2, <1>3, Zenon
<1>5. DetailShape(detail') /\ detail'.saving = still /\ detail'.deleting = d.deleting
  BY <1>4, Reshaped
<1>6. FormShape(form') /\ form'.saving = f.saving
  BY <1>2 DEF Filled, FormShape
<1>7. still <=> sv /\ open
  BY <1>1, <1>3 DEF ModalOpen
<1>8. WInv(p, still, d.deleting, f.saving,
           {[w EXCEPT !.own = @ /\ open] : w \in ws})
  BY <1>7, Disowning
<1>9. WInv(p, still, d.deleting, f.saving, writes')
  BY <1>2, <1>8, Zenon
<1>10. QED
  BY <1>2, <1>5, <1>6, <1>9 DEF IInv

LEMMA Arriving ==
    ASSUME NEW p, NEW ws, Arrive(p, ws), IInv, \A w \in ws : Formed(w),
           Component(p) = Component(place) =>
               WInv(place, detail.saving, detail.deleting, form.saving, ws)
    PROVE  IInv'
<1>1. CASE Component(p) = Component(place)
  <2>1. Render(p, Keyed(Flushed(hook), p), detail, form, ws)
    BY <1>1 DEF Arrive
  <2>2. WInv(p, detail.saving, detail.deleting, form.saving, ws)
    BY <1>1 DEF WInv
  <2>3. QED
    BY <2>1, <2>2, Rendering DEF IInv
<1>2. CASE Component(p) # Component(place)
  <2> DEFINE us == {[w EXCEPT !.live = FALSE] : w \in ws}
  <2>1. Render(p, Mounted(p), NoDetail, NoForm, us)
    BY <1>2 DEF Arrive
  <2>2. ModalOpen(Rendered(Mounted(p)), NoDetail) = FALSE
    BY DEF ModalOpen, NoDetail
  <2>3. /\ place' = p
        /\ detail' = [NoDetail EXCEPT !.saving = @ /\ FALSE]
        /\ form' = IF Component(p) = "form" THEN Filled(NoForm, Rendered(Mounted(p)))
                   ELSE NoForm
        /\ writes' = {[w EXCEPT !.own = @ /\ FALSE] : w \in us}
    BY <2>1, <2>2, Zenon DEF Render
  <2>4. writes' = {[w EXCEPT !.own = FALSE] : w \in us}
    <3>1. \A w \in us : [w EXCEPT !.own = @ /\ FALSE] = [w EXCEPT !.own = FALSE]
      OBVIOUS
    <3> HIDE DEF us
    <3>2. QED
      BY <2>3, <3>1
  <2>5. WInv(p, FALSE, FALSE, FALSE, writes')
    BY <2>4, Abandoning
  <2>6. DetailShape(detail') /\ detail'.saving = FALSE /\ detail'.deleting = FALSE
    BY <2>3 DEF DetailShape, NoDetail
  <2>7. FormShape(form') /\ form'.saving = FALSE
    BY <2>3 DEF Filled, FormShape, NoForm
  <2>8. QED
    BY <2>3, <2>5, <2>6, <2>7 DEF IInv
<1>3. QED
  BY <1>1, <1>2

-----------------------------------------------------------------------------
(* Every step.                                                             *)

LEMMA Beginning == Init => IInv
BY DEF Init, IInv, DetailShape, FormShape, NoDetail, NoForm, WInv, One, Saves,
   Deletes, Submits

\* A request as it is sent is one that the page waits for.
LEMMA Sent ==
    ASSUME NEW kind \in {"save", "delete", "create", "update"},
           NEW v, NEW base, NEW body, NEW edited
    PROVE  LET w == Send(kind, v, base, body, edited) IN
           Formed(w) /\ w.kind = kind /\ w.live /\ (w.own <=> kind = "save")
<1>1. PICK own \in BOOLEAN : own = (kind = "save")
  OBVIOUS
<1>2. Send(kind, v, base, body, edited) =
        [n |-> acts, kind |-> kind, of |-> v, base |-> base, body |-> body,
         edited |-> edited, rows |-> Rows(form.values), phase |-> "asked",
         live |-> TRUE, own |-> own]
  BY <1>1, Zenon DEF Send
<1> DEFINE w == Send(kind, v, base, body, edited)
<1>3. w.kind = kind /\ w.live = TRUE /\ w.own = own /\ Request(w)
  BY <1>2 DEF Request
<1> HIDE DEF w
<1>4. Formed(w) /\ w.kind = kind /\ w.live /\ (w.own <=> kind = "save")
  BY <1>1, <1>3 DEF Formed
<1>5. QED
  BY <1>4 DEF w

\* The page renders again, with other values in its dialogs and its form.
LEMMA Redrawing ==
    ASSUME IInv, NEW h, NEW d, NEW f, Render(place, h, d, f, writes),
           DetailShape(d), d.saving = detail.saving, d.deleting = detail.deleting,
           FormShape(f), f.saving = form.saving
    PROVE  IInv'
<1>1. WInv(place, d.saving, d.deleting, f.saving, writes)
  BY DEF IInv
<1>2. QED
  BY <1>1, Rendering

LEMMA UserKeeps == IInv /\ User => IInv'
<1> SUFFICES ASSUME IInv, User PROVE IInv'
  OBVIOUS
<1>1. /\ DetailShape(detail) /\ FormShape(form)
      /\ WInv(place, detail.saving, detail.deleting, form.saving, writes)
      /\ detail.saving \in BOOLEAN /\ detail.deleting \in BOOLEAN
      /\ form.saving \in BOOLEAN /\ \A w \in writes : Formed(w)
  BY DEF IInv, WInv, One
<1>2. ASSUME NEW p \in Places, Go(p) PROVE IInv'
  BY <1>1, <1>2, Arriving DEF Go
<1>3. CASE Retry
  BY <1>1, <1>3, Redrawing DEF Retry
<1>4. ASSUME NEW x, Render(place, Flushed(hook), [detail EXCEPT !.managing = x], form, writes)
      PROVE  IInv'
  <2>1. LET d == [detail EXCEPT !.managing = x] IN
        DetailShape(d) /\ d.saving = detail.saving /\ d.deleting = detail.deleting
    BY <1>1, Reshaped
  <2>2. QED
    BY <1>1, <1>4, <2>1, Redrawing
<1>5. ASSUME NEW x, Render(place, Flushed(hook), [detail EXCEPT !.confirming = x], form, writes)
      PROVE  IInv'
  <2>1. LET d == [detail EXCEPT !.confirming = x] IN
        DetailShape(d) /\ d.saving = detail.saving /\ d.deleting = detail.deleting
    BY <1>1, Reshaped
  <2>2. QED
    BY <1>1, <1>5, <2>1, Redrawing
<1>6. CASE SaveDeadline
  <2>1. PICK v, base, body, edited :
          Render(place, Flushed(hook), [detail EXCEPT !.saving = TRUE], form,
                 writes \union {Send("save", v, base, body, edited)})
    BY <1>6 DEF SaveDeadline
  <2> DEFINE w == Send("save", v, base, body, edited)
             d == [detail EXCEPT !.saving = TRUE]
  <2>2. DetailShape(d) /\ d.saving = TRUE /\ d.deleting = detail.deleting
    BY <1>1, Reshaped
  <2>3. Formed(w) /\ w.kind = "save" /\ w.live /\ w.own
    BY Sent
  <2>4. ~detail.saving
    BY <1>6 DEF SaveDeadline
  <2> HIDE DEF w, d
  <2>5. WInv(place, TRUE, detail.deleting, form.saving, writes \union {w})
    BY <1>1, <2>3, <2>4, Sending
  <2>6. WInv(place, d.saving, d.deleting, form.saving, writes \union {w})
    BY <2>2, <2>5
  <2>7. QED
    BY <1>1, <2>1, <2>2, <2>6, Rendering DEF w, d
<1>7. CASE handleDelete
  <2>1. PICK v, base :
          Render(place, Flushed(hook), [detail EXCEPT !.deleting = TRUE], form,
                 writes \union {Send("delete", v, base, NoBody, 0)})
    BY <1>7 DEF handleDelete
  <2> DEFINE w == Send("delete", v, base, NoBody, 0)
             d == [detail EXCEPT !.deleting = TRUE]
  <2>2. DetailShape(d) /\ d.saving = detail.saving /\ d.deleting = TRUE
    BY <1>1, Reshaped
  <2>3. Formed(w) /\ w.kind = "delete" /\ w.live
    BY Sent
  <2>4. ~detail.deleting /\ Component(place) = "detail"
    BY <1>7 DEF handleDelete, Shows, Component
  <2> HIDE DEF w, d
  <2>5. WInv(place, detail.saving, TRUE, form.saving, writes \union {w})
    BY <1>1, <2>3, <2>4, Sending
  <2>6. WInv(place, d.saving, d.deleting, form.saving, writes \union {w})
    BY <2>2, <2>5
  <2>7. QED
    BY <1>1, <2>1, <2>2, <2>6, Rendering DEF w, d
<1>8. CASE handleSubmit
  <2>1. PICK kind, v, base, body :
          /\ kind \in {"create", "update"}
          /\ Render(place, Flushed(hook), detail, [form EXCEPT !.saving = TRUE],
                    writes \union {Send(kind, v, base, body, 0)})
    <3> DEFINE body == buildPayload(form.values)
               x == Vehicle(hook)
               sent == IF place.page = "create" THEN Send("create", 0, 0, body, 0)
                       ELSE Send("update", x.id, x.revision, body, 0)
    <3>1. Render(place, Flushed(hook), detail, [form EXCEPT !.saving = TRUE],
                 writes \union {sent})
      BY <1>8 DEF handleSubmit
    <3>2. \E kind, v, base :
              kind \in {"create", "update"} /\ sent = Send(kind, v, base, body, 0)
      OBVIOUS
    <3> HIDE DEF sent, body
    <3>3. QED
      BY <3>1, <3>2
  <2> DEFINE w == Send(kind, v, base, body, 0)
             f == [form EXCEPT !.saving = TRUE]
  <2>2. FormShape(f) /\ f.saving = TRUE
    BY <1>1, Reshaped
  <2>3. Formed(w) /\ w.kind = kind /\ w.live
    BY <2>1, Sent
  <2>4. ~form.saving /\ Component(place) = "form"
    BY <1>8 DEF handleSubmit, FormVisible, Shows, Component
  <2> HIDE DEF w, f
  <2>5. WInv(place, detail.saving, detail.deleting, TRUE, writes \union {w})
    BY <1>1, <2>1, <2>3, <2>4, Sending
  <2>6. WInv(place, detail.saving, detail.deleting, f.saving, writes \union {w})
    BY <2>2, <2>5
  <2>7. QED
    BY <1>1, <2>1, <2>2, <2>6, Rendering DEF w, f
<1>9. CASE Type
  <2>1. PICK v : Render(place, Flushed(hook), detail, [form EXCEPT !.values = v], writes)
    BY <1>9 DEF Type
  <2>2. LET f == [form EXCEPT !.values = v] IN FormShape(f) /\ f.saving = form.saving
    BY <1>1, Reshaped
  <2>3. QED
    BY <1>1, <2>1, <2>2, Redrawing
<1>10. QED
  BY <1>2, <1>3, <1>4, <1>5, <1>6, <1>7, <1>8, <1>9
  DEF User, Manage, CloseModal, AskDelete, KeepVehicle

LEMMA CallbackKeeps ==
    ASSUME IInv, NEW w \in writes, AnswerWrite(w)
    PROVE  IInv'
<1>1. /\ DetailShape(detail) /\ FormShape(form)
      /\ WInv(place, detail.saving, detail.deleting, form.saving, writes)
      /\ detail.saving \in BOOLEAN /\ detail.deleting \in BOOLEAN
      /\ form.saving \in BOOLEAN /\ \A v \in writes : Formed(v)
      /\ detail.deleting => Component(place) = "detail"
      /\ form.saving => Component(place) = "form"
  BY DEF IInv, WInv, One
<1>2. /\ w \in Deletes(writes) => detail.deleting
      /\ w \in Submits(writes) => form.saving
  BY <1>1 DEF WInv, One
<1> DEFINE ws == writes \ {w}
<1>3. CASE SavedAnswer(w)
  <2> DEFINE d == [detail EXCEPT !.managing = {}]
  <2>1. Render(place, reload(Flushed(hook)), d, form, ws) /\ w.kind = "save"
    BY <1>3 DEF SavedAnswer
  <2>2. DetailShape(d) /\ d.deleting = detail.deleting /\ d.managing = {}
    BY <1>1, Reshaped
  <2>3. PICK sv \in BOOLEAN : sv <=> detail.saving /\ ~w.own
    OBVIOUS
  <2> HIDE DEF d
  <2>4. WInv(place, sv, d.deleting, form.saving, ws)
    BY <1>1, <2>1, <2>2, <2>3, Ending
  <2>5. QED
    BY <1>1, <2>1, <2>2, <2>4, Rendering
<1>4. CASE SubmittedAnswer(w)
  <2>1. /\ Arrive(DetailOf(w.of), ws) /\ w.kind \in {"create", "update"}
        /\ Component(DetailOf(w.of)) = "detail"
    BY <1>4 DEF SubmittedAnswer, DetailOf, Component
  <2>2. ASSUME Component(place) = "detail"
        PROVE  WInv(place, detail.saving, detail.deleting, form.saving, ws)
    <3>1. ~w.own /\ w.kind # "delete" /\ ~w.live
      BY <1>1, <1>2, <2>1, <2>2 DEF Formed, Submits
    <3>2. QED
      BY <1>1, <3>1, Ending
  <2>3. QED
    BY <1>1, <2>1, <2>2, Arriving
<1>5. CASE DeletedAnswer(w)
  <2>1. /\ Arrive(List, ws) /\ w.kind = "delete" /\ Component(List) = "list"
    BY <1>5 DEF DeletedAnswer, List, Component
  <2>2. ASSUME Component(place) = "list"
        PROVE  WInv(place, detail.saving, detail.deleting, form.saving, ws)
    <3>1. ~w.own /\ ~w.live
      BY <1>1, <1>2, <2>1, <2>2 DEF Formed, Deletes
    <3>2. QED
      BY <1>1, <2>1, <3>1, Ending
  <2>3. QED
    BY <1>1, <2>1, <2>2, Arriving
<1>6. CASE FailedAnswer(w)
  <2>1. PICK sv \in BOOLEAN, dl \in BOOLEAN, fs \in BOOLEAN :
          /\ sv = (detail.saving /\ ~w.own)
          /\ dl = (detail.deleting /\ ~(w.live /\ w.kind = "delete"))
          /\ fs = (form.saving /\ ~(w.live /\ w.kind \in {"create", "update"}))
    OBVIOUS
  <2> DEFINE d == [[detail EXCEPT !.saving = sv] EXCEPT !.deleting = dl]
             f == [form EXCEPT !.saving = fs]
  <2>2. Render(place, Flushed(hook), d, f, ws)
    <3>1. [detail EXCEPT !.saving = @ /\ ~w.own,
                         !.deleting = @ /\ ~(w.live /\ w.kind = "delete")] = d
      BY <1>1, <2>1 DEF DetailShape
    <3>2. [form EXCEPT !.saving =
              @ /\ ~(w.live /\ w.kind \in {"create", "update"})] = f
      BY <2>1, Zenon
    <3>3. QED
      BY <1>6, <3>1, <3>2, Zenon DEF FailedAnswer
  <2>3. DetailShape(d) /\ d.saving = sv /\ d.deleting = dl
    <3> DEFINE e == [detail EXCEPT !.saving = sv]
    <3>1. DetailShape(e) /\ e.saving = sv
      BY <1>1, Reshaped
    <3> HIDE DEF e
    <3>2. LET c == [e EXCEPT !.deleting = dl] IN
          DetailShape(c) /\ c.saving = sv /\ c.deleting = dl
      BY <3>1, Reshaped
    <3>3. QED
      BY <3>2 DEF e
  <2>4. FormShape(f) /\ f.saving = fs
    BY <1>1, Reshaped
  <2> HIDE DEF d, f
  <2>5. WInv(place, sv, dl, fs, ws)
    BY <1>1, <2>1, Ending
  <2>6. QED
    BY <2>2, <2>3, <2>4, <2>5, Rendering
<1>7. CASE UnheardAnswer(w)
  <2>1. w.kind = "save" /\ ~w.live /\ writes' = ws /\ UNCHANGED page
    BY <1>7 DEF UnheardAnswer
  <2>2. ~w.own
    BY <1>1, <2>1 DEF Formed
  <2>3. QED
    BY <1>1, <2>1, <2>2, Ending DEF page, IInv
<1>8. QED
  BY <1>3, <1>4, <1>5, <1>6, <1>7 DEF AnswerWrite

LEMMA Kept == IInv /\ [Next]_vars => IInv'
<1> SUFFICES ASSUME IInv, [Next]_vars PROVE IInv'
  OBVIOUS
<1>1. \A w \in writes : Formed(w)
  BY DEF IInv, WInv
<1>2. CASE User
  BY <1>2, UserKeeps
<1>3. CASE \E w \in writes : AnswerWrite(w)
  BY <1>3, CallbackKeeps
<1>4. ASSUME NEW w \in writes, Commit(w) \/ Refuse(w) PROVE IInv'
  <2>1. UNCHANGED page
    BY <1>4 DEF Commit, Refuse
  <2>2. \E phase, of : writes' = (writes \ {w}) \union
                            {[w EXCEPT !.phase = phase, !.of = of]}
    <3>1. CASE Commit(w)
      BY <3>1, Zenon DEF Commit
    <3>2. CASE Refuse(w)
      <4>1. [w EXCEPT !.phase = "failed"] = [w EXCEPT !.phase = "failed", !.of = w.of]
        BY <1>1 DEF Formed, Request
      <4>2. QED
        BY <3>2, <4>1, Zenon DEF Refuse
    <3>3. QED
      BY <1>4, <3>1, <3>2
  <2>3. PICK phase, of : writes' = (writes \ {w}) \union
                            {[w EXCEPT !.phase = phase, !.of = of]}
    BY <2>2
  <2> DEFINE u == [w EXCEPT !.phase = phase, !.of = of]
  <2>4. /\ Request(u) /\ u.kind = w.kind /\ u.own = w.own /\ u.live = w.live
    <3>1. Request(w)
      BY <1>1 DEF Formed
    <3> DEFINE x == [w EXCEPT !.phase = phase]
    <3>2. Request(x) /\ x.kind = w.kind /\ x.own = w.own /\ x.live = w.live
      BY <3>1 DEF Request
    <3>3. u = [x EXCEPT !.of = of]
      OBVIOUS
    <3> HIDE DEF x, u
    <3>4. QED
      BY <3>2, <3>3 DEF Request
  <2> HIDE DEF u
  <2>5. Formed(u)
    BY <1>1, <2>4 DEF Formed
  <2>6. WInv(place, detail.saving, detail.deleting, form.saving,
             (writes \ {w}) \union {u})
    BY <2>4, <2>5, Answering DEF IInv
  <2>7. QED
    BY <2>1, <2>3, <2>6 DEF page, IInv, u
<1>5. ASSUME NEW l, DeliverLoad(l) PROVE IInv'
  BY <1>5, Redrawing DEF DeliverLoad, IInv
<1>6. CASE UNCHANGED <<place, detail, form, writes>>
  BY <1>6 DEF IInv
<1>7. QED
  BY <1>2, <1>3, <1>4, <1>5, <1>6
  DEF Next, OtherDevice, AnswerLoad, RunEffect, page, vars

\* Whatever is waited for, and by whom, is an invariant.
THEOREM Inductive == Spec => []IInv
BY Beginning, Kept, PTL DEF Spec

-----------------------------------------------------------------------------
LEMMA Counted ==
    ASSUME NEW flag, NEW S, One(flag, S)
    PROVE  Waits(flag, S)
<1>1. CASE S = {}
  BY <1>1, FS_EmptySet DEF One, Waits
<1>2. CASE S # {}
  <2>1. PICK w : S = {w}
    BY <1>2 DEF One
  <2>2. Cardinality(S) = 1
    BY <2>1, FS_Singleton
  <2>3. QED
    BY <2>2 DEF One, Waits
<1>3. QED
  BY <1>1, <1>2

\* However the pages are left, and whatever is answered late or not at all, a
\* dialog or a form of handleSave, handleDelete and handleSubmit is disabled
\* exactly while the one request it sent is under way.
THEOREM OneAnswer == Spec => []WaitsForOneAnswer
<1>1. IInv => WaitsForOneAnswer
  BY Counted DEF IInv, WInv, Saves, Deletes, Submits, WaitsForOneAnswer
<1>2. QED
  BY <1>1, Inductive, PTL

-----------------------------------------------------------------------------
(* What the page holds, what it may still be told and what it has sent.    *)

\* A vehicle as a page has it: what the server held when it was last written, as
\* far as the page knows.
Snapshot(x, g, r) ==
    /\ x \in Item /\ Consistent(x.vehicle)
    /\ x.id \in DOMAIN g /\ x.revision <= r[x.id]
    /\ x.revision = r[x.id] => x.vehicle = g[x.id]

\* The hook, over what the server holds and the page has to have seen.
HookOK(h, g, r, fl) ==
    /\ Sound(h) /\ Fresh(h, g, fl)
    /\ \A x \in Items(h) : Snapshot(x, g, r)

DetailOK(d) ==
    /\ d.managing \subseteq Deadline /\ d.confirming \in BOOLEAN
    /\ \A x, y \in d.managing : x = y

\* A request: what it brings, and for a save what it rebuilds.
WriteSound(w, g, r) ==
    /\ w.kind \in {"save", "delete", "create", "update"}
    /\ w.of \in {0} \union DOMAIN g /\ w.base \in Nat
    /\ w.of = 0 => w.kind = "create" /\ w.phase # "ok"
    /\ w.kind # "delete" => Proper(w.body)
    /\ w.kind = "create" => w.body.fields.make # Omitted
    /\ w.kind \in {"create", "update"} =>
          Brings(w.body, w.rows) /\ Long(w.body.deadlines) = {}
    /\ w.kind = "save" =>
          /\ Modest(w.body) /\ w.body.fields = NoFields
          /\ w.base <= r[w.of]
          /\ w.base = r[w.of] => Rebuilds(w.body, g[w.of], w.edited)

FloorOK(fl, g, r) ==
    /\ fl \in Seq(Nat) /\ Len(fl) <= Len(g)
    /\ \A v \in DOMAIN fl : fl[v] <= r[v]

\* The deadlines that the server or the page knows, and that their identifiers
\* tell apart.
Held(h) == UNION {x.vehicle.deadlines : x \in Items(h)}

Known(g, h, d) == Recorded(g) \union Held(h) \union d.managing

Distinct(D, i) == \A d, e \in D : d.id <= i /\ (d.id = e.id => d = e)

PInv ==
    /\ Stored(garage, revision, issued) /\ FloorOK(floor, garage, revision)
    /\ place \in Places /\ hook.key = place /\ hook.of = place
    /\ HookOK(hook, garage, revision, floor)
    /\ DetailOK(detail) /\ FormOK(form)
    /\ \A w \in writes : WriteSound(w, garage, revision)
    /\ Distinct(Known(garage, hook, detail), issued)

-----------------------------------------------------------------------------
(* What the server does, as the page and its requests see it.              *)

\* The server's part, its positions as one interval.
LEMMA Positions ==
    ASSUME NEW g, NEW r, NEW i, Stored(g, r, i)
    PROVE  /\ Len(g) \in Nat /\ DOMAIN g = 1..Len(g) /\ DOMAIN r = 1..Len(g)
           /\ \A v \in DOMAIN g : /\ v \in 1..MaxVehicles /\ r[v] \in Nat
                                  /\ g[v] \in VehicleRow /\ Consistent(g[v])
<1>1. g \in Seq(VehicleRow) /\ r \in Seq(Nat) /\ Len(r) = Len(g) /\ Len(g) <= MaxVehicles
  BY DEF Stored
<1>2. /\ Len(g) \in Nat /\ DOMAIN g = 1..Len(g) /\ DOMAIN r = 1..Len(g)
      /\ MaxVehicles \in Nat
  BY <1>1, LenProperties, BoundsAssumption
<1>3. \A v \in DOMAIN g : g[v] \in VehicleRow /\ r[v] \in Nat
  BY <1>1, <1>2, ElementOfSeq
<1>4. \A v \in DOMAIN g : v \in 1..MaxVehicles
  BY <1>1, <1>2
<1>5. QED
  BY <1>2, <1>3, <1>4 DEF Stored

LEMMA SnapshotLasts ==
    ASSUME NEW g, NEW r, NEW i, Stored(g, r, i),
           NEW g1, NEW r1, NEW j, Stored(g1, r1, j), Advance(g, r, g1, r1),
           NEW x, Snapshot(x, g, r)
    PROVE  Snapshot(x, g1, r1)
<1>1. /\ x \in Item /\ Consistent(x.vehicle) /\ x.id \in DOMAIN g
      /\ x.revision <= r[x.id]
      /\ x.revision = r[x.id] => x.vehicle = g[x.id]
  BY DEF Snapshot
<1>2. x.revision \in Nat
  BY <1>1 DEF Item
<1>3. /\ x.id \in DOMAIN g1 /\ r[x.id] <= r1[x.id]
      /\ r[x.id] = r1[x.id] => g1[x.id] = g[x.id]
  BY <1>1 DEF Advance
<1>4. r[x.id] \in Nat /\ r1[x.id] \in Nat
  BY <1>1, <1>3, Positions
<1>5. QED
  BY <1>1, <1>2, <1>3, <1>4 DEF Snapshot

LEMMA FreshLasts ==
    ASSUME NEW h, NEW g, NEW r, NEW g1, NEW r1, NEW fl, Fresh(h, g, fl),
           Advance(g, r, g1, r1), DOMAIN fl \subseteq DOMAIN g
    PROVE  Fresh(h, g1, fl)
<1>1. ASSUME NEW data, NEW key, Recent(data, key, g, fl)
      PROVE  Recent(data, key, g1, fl)
  BY <1>1 DEF Recent, Advance
<1>2. QED
  BY <1>1 DEF Fresh

LEMMA HookLasts ==
    ASSUME NEW h, NEW g, NEW r, NEW i, Stored(g, r, i),
           NEW g1, NEW r1, NEW j, Stored(g1, r1, j), Advance(g, r, g1, r1),
           NEW fl, FloorOK(fl, g, r), HookOK(h, g, r, fl)
    PROVE  HookOK(h, g1, r1, fl)
<1>1. DOMAIN fl \subseteq DOMAIN g
  <2>1. fl \in Seq(Nat) /\ Len(fl) <= Len(g)
    BY DEF FloorOK
  <2>2. Len(fl) \in Nat /\ DOMAIN fl = 1..Len(fl)
    BY <2>1, LenProperties
  <2>3. Len(g) \in Nat /\ DOMAIN g = 1..Len(g)
    BY Positions
  <2>4. QED
    BY <2>1, <2>2, <2>3
<1>2. Fresh(h, g1, fl)
  BY <1>1, FreshLasts DEF HookOK
<1>3. \A x \in Items(h) : Snapshot(x, g1, r1)
  BY SnapshotLasts DEF HookOK
<1>4. QED
  BY <1>2, <1>3 DEF HookOK

LEMMA FloorLasts ==
    ASSUME NEW g, NEW r, NEW i, Stored(g, r, i),
           NEW g1, NEW r1, NEW j, Stored(g1, r1, j), Advance(g, r, g1, r1),
           NEW fl, FloorOK(fl, g, r)
    PROVE  FloorOK(fl, g1, r1)
<1>1. /\ fl \in Seq(Nat) /\ Len(fl) <= Len(g)
      /\ \A v \in DOMAIN fl : fl[v] <= r[v]
  BY DEF FloorOK
<1>2. /\ Len(fl) \in Nat /\ DOMAIN fl = 1..Len(fl)
      /\ \A v \in DOMAIN fl : fl[v] \in Nat
  BY <1>1, LenProperties, ElementOfSeq
<1>3. /\ Len(g) \in Nat /\ DOMAIN g = 1..Len(g)
      /\ Len(g1) \in Nat /\ DOMAIN g1 = 1..Len(g1)
  BY Positions
<1>4. Len(g) <= Len(g1)
  <2>1. 1..Len(g) \subseteq 1..Len(g1)
    BY <1>3 DEF Advance
  <2> DEFINE m == Len(g)
             n == Len(g1)
  <2> HIDE DEF m, n
  <2>2. m \in Nat /\ n \in Nat /\ 1..m \subseteq 1..n
    BY <1>3, <2>1 DEF m, n
  <2>3. m <= n
    BY <2>2
  <2>4. QED
    BY <2>3 DEF m, n
<1>5. ASSUME NEW v \in DOMAIN fl PROVE fl[v] <= r1[v]
  <2>1. v \in DOMAIN g
    BY <1>1, <1>2, <1>3
  <2>2. r[v] \in Nat /\ r1[v] \in Nat /\ r[v] <= r1[v]
    BY <2>1, Positions DEF Advance
  <2>3. QED
    BY <1>1, <1>2, <2>2
<1>6. Len(fl) <= Len(g1)
  BY <1>1, <1>2, <1>3, <1>4
<1>7. QED
  BY <1>1, <1>5, <1>6 DEF FloorOK

LEMMA WriteLasts ==
    ASSUME NEW g, NEW r, NEW i, Stored(g, r, i),
           NEW g1, NEW r1, NEW j, Stored(g1, r1, j), Advance(g, r, g1, r1),
           NEW w, WriteSound(w, g, r)
    PROVE  WriteSound(w, g1, r1)
<1>1. w.of \in {0} \union DOMAIN g1
  BY DEF WriteSound, Advance
<1>2. ASSUME w.kind = "save"
      PROVE  /\ w.base <= r1[w.of]
             /\ w.base = r1[w.of] => Rebuilds(w.body, g1[w.of], w.edited)
  <2>1. w.of \in DOMAIN g
    BY <1>2 DEF WriteSound
  <2>2. /\ w.base <= r[w.of] /\ w.base \in Nat
        /\ w.base = r[w.of] => Rebuilds(w.body, g[w.of], w.edited)
    BY <1>2 DEF WriteSound
  <2>3. /\ r[w.of] <= r1[w.of] /\ w.of \in DOMAIN g1
        /\ r[w.of] = r1[w.of] => g1[w.of] = g[w.of]
    BY <2>1 DEF Advance
  <2>4. r[w.of] \in Nat /\ r1[w.of] \in Nat
    BY <2>1, <2>3, Positions
  <2>5. QED
    BY <2>2, <2>3, <2>4
<1>3. QED
  BY <1>1, <1>2 DEF WriteSound

-----------------------------------------------------------------------------
(* Renderings, over what the server holds.                                 *)

\* What a rendering makes of a request tells as much as the request.
Same(u, w) ==
    /\ u.kind = w.kind /\ u.of = w.of /\ u.base = w.base /\ u.body = w.body
    /\ u.edited = w.edited /\ u.rows = w.rows /\ u.phase = w.phase

LEMMA SameSound ==
    ASSUME NEW u, NEW w, Same(u, w), NEW g, NEW r, WriteSound(w, g, r)
    PROVE  WriteSound(u, g, r)
<1>1. /\ u.kind = w.kind /\ u.of = w.of /\ u.base = w.base /\ u.body = w.body
      /\ u.edited = w.edited /\ u.rows = w.rows /\ u.phase = w.phase
  BY DEF Same
<1>2. QED
  BY <1>1, Zenon DEF WriteSound

LEMMA Disowned ==
    ASSUME NEW w, Request(w), NEW open
    PROVE  Same([w EXCEPT !.own = @ /\ open], w)
<1>1. PICK own : own = (w.own /\ open)
  OBVIOUS
<1>2. [w EXCEPT !.own = @ /\ open] = [w EXCEPT !.own = own]
  BY <1>1, Zenon
<1>3. Same([w EXCEPT !.own = own], w)
  BY DEF Request, Same
<1>4. QED
  BY <1>2, <1>3, Zenon

LEMMA Left ==
    ASSUME NEW w, Request(w)
    PROVE  LET u == [w EXCEPT !.live = FALSE] IN Same(u, w) /\ Request(u)
<1>1. PICK no : no = FALSE
  OBVIOUS
<1> DEFINE u == [w EXCEPT !.live = no]
<1>2. Same(u, w) /\ Request(u)
  BY DEF Request, Same
<1>3. QED
  BY <1>1, <1>2, Zenon

LEMMA Fewer ==
    ASSUME NEW D, NEW i, Distinct(D, i), NEW E, E \subseteq D
    PROVE  Distinct(E, i)
BY DEF Distinct

\* Whatever is rendered from parts in order is in order.
LEMMA Painted ==
    ASSUME Stored(garage, revision, issued), UNCHANGED server,
           NEW p \in Places, NEW h, h.key = p,
           NEW fl, floor' = fl, FloorOK(fl, garage, revision),
           HookOK(h, garage, revision, fl),
           NEW d, DetailShape(d), DetailOK(d), NEW f, FormShape(f), FormOK(f),
           NEW ws, \A w \in ws : Request(w) /\ WriteSound(w, garage, revision),
           Distinct(Known(garage, h, d), issued),
           Render(p, h, d, f, ws)
    PROVE  PInv'
<1> DEFINE h1 == Rendered(h)
<1>1. PICK open : open = ModalOpen(h1, d)
  OBVIOUS
<1>2. /\ place' = p /\ hook' = h1
      /\ detail' = [d EXCEPT !.saving = @ /\ open]
      /\ form' = IF Component(p) = "form" THEN Filled(f, h1) ELSE f
      /\ writes' = {[w EXCEPT !.own = @ /\ open] : w \in ws}
  BY <1>1, Zenon DEF Render
<1>3. garage' = garage /\ revision' = revision /\ issued' = issued
  BY DEF server
<1>4. /\ Sound(h1) /\ Items(h1) \subseteq Items(h) /\ h1.key = p /\ h1.of = p
      /\ Fresh(h1, garage, fl)
  BY RenderedPasses DEF HookOK, Passed
<1> HIDE DEF h1
<1>5. HookOK(h1, garage, revision, fl)
  BY <1>4 DEF HookOK
<1>6. detail'.managing = d.managing /\ detail'.confirming = d.confirming
  <2>1. PICK still : still = (d.saving /\ open)
    OBVIOUS
  <2>2. detail' = [d EXCEPT !.saving = still]
    BY <1>2, <2>1, Zenon
  <2>3. QED
    BY <2>2 DEF DetailShape
<1>7. DetailOK(detail')
  BY <1>6 DEF DetailOK
<1>8. FormOK(form')
  <2>1. h1.data \subseteq Items(h1)
    BY DEF Items
  <2>2. \A x \in h1.data : x \in Item /\ Consistent(x.vehicle)
    BY <1>5, <2>1 DEF HookOK, Snapshot
  <2>3. FormOK(Filled(f, h1))
    BY <2>2, FilledKeeps
  <2>4. QED
    BY <1>2, <2>3
<1>9. \A u \in writes' : WriteSound(u, garage, revision)
  <2>1. ASSUME NEW u \in writes' PROVE WriteSound(u, garage, revision)
    <3>1. PICK w \in ws : u = [w EXCEPT !.own = @ /\ open]
      BY <1>2
    <3>2. Same(u, w)
      BY <3>1, Disowned
    <3>3. QED
      BY <3>2, SameSound
  <2>2. QED
    BY <2>1
<1>10. Distinct(Known(garage, h1, detail'), issued)
  <2>1. Held(h1) \subseteq Held(h)
    BY <1>4 DEF Held
  <2>2. Known(garage, h1, detail') \subseteq Known(garage, h, d)
    BY <1>6, <2>1 DEF Known
  <2>3. QED
    BY <2>2, Fewer
<1>11. QED
  BY <1>2, <1>3, <1>4, <1>5, <1>7, <1>8, <1>9, <1>10 DEF PInv

\* A page that renders again with the same hook.
LEMMA StillHeld ==
    ASSUME NEW g, NEW h, NEW h1, Items(h1) \subseteq Items(h), NEW d, NEW d1,
           d1.managing \subseteq d.managing \union Held(h)
    PROVE  Known(g, h1, d1) \subseteq Known(g, h, d)
<1>1. Held(h1) \subseteq Held(h)
  BY DEF Held
<1>2. QED
  BY <1>1 DEF Known

\* What the page has to have seen once it asks: all there is.
LEMMA Abreast ==
    ASSUME NEW g, NEW r, NEW i, Stored(g, r, i)
    PROVE  FloorOK(r, g, r)
<1>1. r \in Seq(Nat) /\ Len(r) = Len(g)
  BY DEF Stored
<1>2. Len(g) \in Nat /\ \A v \in DOMAIN r : r[v] \in Nat
  BY <1>1, Positions, ElementOfSeq, LenProperties
<1>3. QED
  BY <1>1, <1>2 DEF FloorOK

\* A route that is arrived at.
LEMMA ArrivalKeeps ==
    ASSUME IInv, PInv, UNCHANGED server, NEW p \in Places,
           NEW ws, ws \subseteq writes, Arrive(p, ws)
    PROVE  PInv'
<1>1. /\ Stored(garage, revision, issued) /\ FloorOK(floor, garage, revision)
      /\ hook.key = place /\ HookOK(hook, garage, revision, floor)
      /\ DetailOK(detail) /\ FormOK(form)
      /\ \A w \in ws : WriteSound(w, garage, revision)
      /\ Distinct(Known(garage, hook, detail), issued)
  BY DEF PInv
<1>2. /\ DetailShape(detail) /\ FormShape(form) /\ \A w \in ws : Request(w)
  BY DEF IInv, WInv, Formed
<1>3. PICK fl : fl = IF p = place THEN floor ELSE revision
  OBVIOUS
<1>4. floor' = fl
  BY <1>3 DEF Arrive
<1>5. FloorOK(revision, garage, revision)
  BY <1>1, Abreast
<1>6. FloorOK(fl, garage, revision)
  BY <1>1, <1>3, <1>5
<1>7. CASE Component(p) = Component(place)
  <2> DEFINE h0 == Flushed(hook)
             h == Keyed(h0, p)
  <2>1. Render(p, h, detail, form, ws)
    BY <1>7 DEF Arrive
  <2>2. /\ Sound(h0) /\ Items(h0) \subseteq Items(hook) /\ h0.key = place
        /\ Fresh(h0, garage, floor)
    BY <1>1, FlushedPasses DEF HookOK, Passed
  <2> HIDE DEF h0
  <2>3. p = h0.key => Fresh(h0, garage, fl)
    BY <1>3, <2>2
  <2>4. Sound(h) /\ Items(h) \subseteq Items(h0) /\ h.key = p /\ Fresh(h, garage, fl)
    BY <2>2, <2>3, KeyedPasses DEF Passed
  <2> HIDE DEF h
  <2>5. HookOK(h, garage, revision, fl)
    BY <1>1, <2>2, <2>4 DEF HookOK
  <2>6. Distinct(Known(garage, h, detail), issued)
    BY <1>1, <2>2, <2>4, StillHeld, Fewer
  <2>7. QED
    BY <1>1, <1>2, <1>4, <1>6, <2>1, <2>4, <2>5, <2>6, Painted
<1>8. CASE Component(p) # Component(place)
  <2> DEFINE h == Mounted(p)
             us == {[w EXCEPT !.live = FALSE] : w \in ws}
  <2>1. Render(p, h, NoDetail, NoForm, us)
    BY <1>8 DEF Arrive
  <2>2. Sound(h) /\ Items(h) = {} /\ h.key = p /\ Fresh(h, garage, fl)
    BY MountedPasses
  <2>3. HookOK(h, garage, revision, fl)
    BY <2>2 DEF HookOK
  <2>4. /\ DetailShape(NoDetail) /\ NoDetail.managing = {}
        /\ NoDetail.confirming \in BOOLEAN
    BY DEF NoDetail, DetailShape
  <2>5. DetailOK(NoDetail)
    BY <2>4 DEF DetailOK
  <2>6. FormOK(NoForm) /\ FormShape(NoForm)
    BY EmptyForm
  <2>7. ASSUME NEW u \in us PROVE Request(u) /\ WriteSound(u, garage, revision)
    <3>1. PICK w \in ws : u = [w EXCEPT !.live = FALSE]
      OBVIOUS
    <3>2. Same(u, w) /\ Request(u)
      BY <1>2, <3>1, Left
    <3>3. QED
      BY <1>1, <3>2, SameSound
  <2>8. Distinct(Known(garage, h, NoDetail), issued)
    <3>1. Items(h) \subseteq Items(hook)
      BY <2>2
    <3>2. NoDetail.managing \subseteq detail.managing \union Held(hook)
      BY <2>4
    <3> HIDE DEF h
    <3>3. QED
      BY <1>1, <3>1, <3>2, StillHeld, Fewer
  <2> HIDE DEF h, us
  <2>9. QED
    BY <1>1, <1>4, <1>6, <2>1, <2>2, <2>3, <2>4, <2>5, <2>6, <2>7, <2>8, Painted
<1>9. QED
  BY <1>7, <1>8

\* The page renders again, with other values in its dialogs and its form.
LEMMA RedrawnKeeps ==
    ASSUME IInv, PInv, UNCHANGED <<server, floor>>,
           NEW d, DetailShape(d), DetailOK(d),
           d.managing \subseteq detail.managing \union Held(hook),
           NEW f, FormShape(f), FormOK(f),
           NEW ws, \A w \in ws : Request(w) /\ WriteSound(w, garage, revision),
           Render(place, Flushed(hook), d, f, ws)
    PROVE  PInv'
<1> DEFINE h == Flushed(hook)
<1>1. /\ Stored(garage, revision, issued) /\ FloorOK(floor, garage, revision)
      /\ place \in Places /\ hook.key = place /\ HookOK(hook, garage, revision, floor)
      /\ Distinct(Known(garage, hook, detail), issued)
  BY DEF PInv
<1>2. /\ Sound(h) /\ Items(h) \subseteq Items(hook) /\ h.key = place
      /\ Fresh(h, garage, floor)
  BY <1>1, FlushedPasses DEF HookOK, Passed
<1>3. Render(place, h, d, f, ws)
  OBVIOUS
<1> HIDE DEF h
<1>4. HookOK(h, garage, revision, floor)
  BY <1>1, <1>2 DEF HookOK
<1>5. Distinct(Known(garage, h, d), issued)
  BY <1>1, <1>2, StillHeld, Fewer
<1>6. QED
  BY <1>1, <1>2, <1>3, <1>4, <1>5, Painted

\* The page asks again for what it shows.
LEMMA ReloadedKeeps ==
    ASSUME IInv, PInv, UNCHANGED server, floor' = revision,
           NEW d, DetailShape(d), DetailOK(d), d.managing \subseteq detail.managing,
           NEW ws, ws \subseteq writes,
           Render(place, reload(Flushed(hook)), d, form, ws)
    PROVE  PInv'
<1> DEFINE h0 == Flushed(hook)
           h == reload(h0)
<1>1. /\ Stored(garage, revision, issued) /\ FormOK(form)
      /\ place \in Places /\ hook.key = place /\ HookOK(hook, garage, revision, floor)
      /\ \A w \in ws : WriteSound(w, garage, revision)
      /\ Distinct(Known(garage, hook, detail), issued)
  BY DEF PInv
<1>2. /\ FormShape(form) /\ \A w \in ws : Request(w)
  BY DEF IInv, WInv, Formed
<1>3. FloorOK(revision, garage, revision)
  BY <1>1, Abreast
<1>4. Sound(h0) /\ Items(h0) \subseteq Items(hook) /\ h0.key = place
  BY <1>1, FlushedPasses DEF HookOK, Passed
<1>5. Render(place, h, d, form, ws)
  OBVIOUS
<1> HIDE DEF h0
<1>6. /\ Sound(h) /\ Items(h) \subseteq Items(h0) /\ h.key = place
      /\ Fresh(h, garage, revision)
  BY <1>4, ReloadPasses DEF Passed
<1> HIDE DEF h
<1>7. HookOK(h, garage, revision, revision)
  BY <1>1, <1>4, <1>6 DEF HookOK
<1>8. Distinct(Known(garage, h, d), issued)
  BY <1>1, <1>4, <1>6, StillHeld, Fewer
<1>9. QED
  BY <1>1, <1>2, <1>3, <1>5, <1>6, <1>7, <1>8, Painted

-----------------------------------------------------------------------------
\* What the dialogs change of the state of VehicleDetail.
LEMMA Changes ==
    ASSUME NEW d, DetailShape(d), DetailOK(d), NEW x
    PROVE  /\ LET e == [d EXCEPT !.saving = x] IN
              DetailShape(e) /\ e.managing = d.managing /\ e.confirming = d.confirming
           /\ LET e == [d EXCEPT !.deleting = x] IN
              DetailShape(e) /\ e.managing = d.managing /\ e.confirming = d.confirming
           /\ x \in BOOLEAN =>
              LET e == [d EXCEPT !.confirming = x] IN
              DetailShape(e) /\ e.managing = d.managing /\ e.confirming \in BOOLEAN
BY DEF DetailShape, DetailOK

LEMMA ModalOf ==
    ASSUME NEW d, DetailShape(d), DetailOK(d), NEW S, S \subseteq Deadline,
           \A x, y \in S : x = y,
           NEW e, e = [d EXCEPT !.managing = S]
    PROVE  DetailShape(e) /\ DetailOK(e) /\ e.managing = S
<1>1. DetailShape(e) /\ e.managing = S /\ e.confirming = d.confirming
  BY DEF DetailShape
<1>2. QED
  BY <1>1 DEF DetailOK

LEMMA FormChanges ==
    ASSUME NEW f, FormShape(f), FormOK(f), NEW x
    PROVE  /\ LET e == [f EXCEPT !.saving = x] IN FormShape(e) /\ FormOK(e)
           /\ x \in FormValues /\ Offered(x.make, x.model) =>
                LET e == [f EXCEPT !.values = x] IN FormShape(e) /\ FormOK(e)
<1>1. LET e == [f EXCEPT !.saving = x] IN
      FormShape(e) /\ e.values = f.values /\ e.filledFrom = f.filledFrom
  BY DEF FormShape
<1>2. LET e == [f EXCEPT !.values = x] IN
      FormShape(e) /\ e.values = x /\ e.filledFrom = f.filledFrom
  BY DEF FormShape
<1>3. QED
  BY <1>1, <1>2 DEF FormOK

LEMMA SentSound ==
    ASSUME NEW kind \in {"save", "delete", "create", "update"},
           NEW v \in {0} \union DOMAIN garage, v = 0 => kind = "create",
           NEW base \in Nat, NEW body, NEW edited,
           kind # "delete" => Proper(body),
           kind = "create" => body.fields.make # Omitted,
           kind \in {"create", "update"} =>
              Brings(body, Rows(form.values)) /\ Long(body.deadlines) = {},
           kind = "save" =>
              /\ Modest(body) /\ body.fields = NoFields
              /\ base <= revision[v]
              /\ base = revision[v] => Rebuilds(body, garage[v], edited)
    PROVE  LET w == Send(kind, v, base, body, edited) IN
           Request(w) /\ WriteSound(w, garage, revision)
<1> DEFINE w == Send(kind, v, base, body, edited)
<1>1. PICK own, yes : own = (kind = "save") /\ yes = TRUE
  OBVIOUS
<1>2. w = [n |-> acts, kind |-> kind, of |-> v, base |-> base, body |-> body,
           edited |-> edited, rows |-> Rows(form.values), phase |-> "asked",
           live |-> yes, own |-> own]
  BY <1>1, Zenon DEF Send
<1> HIDE DEF w
<1>3. /\ Request(w) /\ w.kind = kind /\ w.of = v /\ w.base = base /\ w.body = body
      /\ w.edited = edited /\ w.rows = Rows(form.values) /\ w.phase = "asked"
  BY <1>2 DEF Request
<1>4. WriteSound(w, garage, revision)
  BY <1>3 DEF WriteSound
<1>5. QED
  BY <1>3, <1>4 DEF w

-----------------------------------------------------------------------------
(* The steps of the user.                                                  *)

\* What a page of one vehicle shows.
LEMMA OnScreen ==
    ASSUME PInv, hook.status = "shown", place.page \in {"detail", "edit"}
    PROVE  LET x == Vehicle(hook) IN
           /\ x \in hook.data /\ x \in Items(hook) /\ x \in Item
           /\ x.id \in DOMAIN garage /\ x.id # 0 /\ x.revision \in Nat
           /\ x.vehicle \in VehicleRow /\ Consistent(x.vehicle)
           /\ x.revision <= revision[x.id]
           /\ x.revision = revision[x.id] => garage[x.id] = x.vehicle
<1> DEFINE x == Vehicle(hook)
<1>1. Ids(hook.data) = {place.of}
  BY DEF PInv, HookOK, Sound, Names
<1>2. x \in hook.data
  BY <1>1 DEF Vehicle, Ids
<1> HIDE DEF x
<1>3. x \in Items(hook)
  BY <1>2 DEF Items
<1>4. Snapshot(x, garage, revision)
  BY <1>3 DEF PInv, HookOK
<1>5. x \in Item /\ x.id \in DOMAIN garage
  BY <1>4 DEF Snapshot
<1>6. x.id # 0 /\ x.revision \in Nat /\ x.vehicle \in VehicleRow
  BY <1>5, BoundsAssumption DEF Item
<1>7. QED
  BY <1>2, <1>3, <1>4, <1>5, <1>6 DEF Snapshot, x

\* Two deadlines that the server or the page knows.
LEMMA OneOfAKind ==
    ASSUME PInv, NEW x \in Items(hook), NEW d \in detail.managing,
           NEW y \in x.vehicle.deadlines, y.id = d.id
    PROVE  y = d
<1>1. y \in Known(garage, hook, detail) /\ d \in Known(garage, hook, detail)
  BY DEF Known, Held
<1>2. QED
  BY <1>1 DEF PInv, Distinct

LEMMA ManageKeeps ==
    ASSUME IInv, PInv, NEW d \in UNION {x.vehicle.deadlines : x \in hook.data}, Manage(d)
    PROVE  PInv'
<1>1. PICK x \in hook.data : d \in x.vehicle.deadlines
  OBVIOUS
<1>2. x \in Items(hook)
  BY DEF Items
<1>3. x \in Item
  BY <1>2 DEF PInv, HookOK, Snapshot
<1>4. d \in Deadline
  BY <1>1, <1>3 DEF Item, VehicleRow
<1>5. d \in Held(hook)
  BY <1>1, <1>2 DEF Held
<1> DEFINE e == [detail EXCEPT !.managing = {d}]
<1>6. /\ DetailShape(detail) /\ DetailOK(detail) /\ FormShape(form) /\ FormOK(form)
      /\ \A w \in writes : Request(w) /\ WriteSound(w, garage, revision)
  BY DEF IInv, PInv, WInv, Formed
<1>7. Render(place, Flushed(hook), e, form, writes) /\ UNCHANGED <<server, floor>>
  BY DEF Manage
<1>8. PICK S : S = {d}
  OBVIOUS
<1>9. S \subseteq Deadline /\ (\A y, z \in S : y = z) /\ e = [detail EXCEPT !.managing = S]
  BY <1>4, <1>8
<1> HIDE DEF e
<1>10. DetailShape(e) /\ DetailOK(e) /\ e.managing = S
  BY <1>6, <1>9, ModalOf
<1>11. QED
  BY <1>5, <1>6, <1>7, <1>8, <1>10, RedrawnKeeps

LEMMA SaveKeeps ==
    ASSUME IInv, PInv, SaveDeadline
    PROVE  PInv'
<1> DEFINE x == Vehicle(hook)
<1>1. PICK d \in detail.managing, e \in Edits :
        Render(place, Flushed(hook), [detail EXCEPT !.saving = TRUE], form,
               writes \union {Send("save", x.id, x.revision, ModalBody(x, d, e), d.id)})
  BY DEF SaveDeadline
<1>2. /\ place.page = "detail" /\ hook.status = "shown" /\ UNCHANGED <<server, floor>>
  BY DEF SaveDeadline, Shows
<1>3. /\ x \in Items(hook) /\ x \in Item
      /\ x.id \in DOMAIN garage /\ x.id # 0 /\ x.revision \in Nat
      /\ x.vehicle \in VehicleRow /\ Consistent(x.vehicle)
      /\ x.revision <= revision[x.id]
      /\ x.revision = revision[x.id] => garage[x.id] = x.vehicle
  BY <1>2, OnScreen
<1> DEFINE body == ModalBody(x, d, e)
           w == Send("save", x.id, x.revision, body, d.id)
           c == [detail EXCEPT !.saving = TRUE]
<1>4. /\ DetailShape(detail) /\ DetailOK(detail) /\ FormShape(form) /\ FormOK(form)
      /\ \A v \in writes : Request(v) /\ WriteSound(v, garage, revision)
  BY DEF IInv, PInv, WInv, Formed
<1>5. DetailShape(c) /\ c.managing = detail.managing /\ c.confirming = detail.confirming
  BY <1>4, Changes
<1>6. Render(place, Flushed(hook), c, form, writes \union {w})
  BY <1>1
<1> HIDE DEF x, c
<1>7. d \in Deadline /\ \A y \in x.vehicle.deadlines : y.id = d.id => y = d
  BY <1>3, <1>4, OneOfAKind DEF DetailOK
<1>8. /\ Proper(body) /\ Modest(body) /\ Rebuilds(body, x.vehicle, d.id)
      /\ body.fields = NoFields
  BY <1>3, <1>7, ModalBodyProper DEF Rebuilds
<1> HIDE DEF body
<1>9. Request(w) /\ WriteSound(w, garage, revision)
  BY <1>3, <1>8, SentSound
<1> HIDE DEF w
<1>10. DetailOK(c)
  BY <1>4, <1>5 DEF DetailOK
<1>11. QED
  BY <1>2, <1>4, <1>5, <1>6, <1>9, <1>10, RedrawnKeeps

LEMMA DeleteKeeps ==
    ASSUME IInv, PInv, handleDelete
    PROVE  PInv'
<1> DEFINE x == Vehicle(hook)
           w == Send("delete", x.id, x.revision, NoBody, 0)
           c == [detail EXCEPT !.deleting = TRUE]
<1>1. Render(place, Flushed(hook), c, form, writes \union {w})
  BY DEF handleDelete
<1>2. /\ place.page = "detail" /\ hook.status = "shown" /\ UNCHANGED <<server, floor>>
  BY DEF handleDelete, Shows
<1>3. x.id \in DOMAIN garage /\ x.id # 0 /\ x.revision \in Nat
  BY <1>2, OnScreen
<1>4. /\ DetailShape(detail) /\ DetailOK(detail) /\ FormShape(form) /\ FormOK(form)
      /\ \A v \in writes : Request(v) /\ WriteSound(v, garage, revision)
  BY DEF IInv, PInv, WInv, Formed
<1>5. DetailShape(c) /\ c.managing = detail.managing /\ c.confirming = detail.confirming
  BY <1>4, Changes
<1> HIDE DEF x, c
<1>6. Request(w) /\ WriteSound(w, garage, revision)
  BY <1>3, SentSound
<1> HIDE DEF w
<1>7. DetailOK(c)
  BY <1>4, <1>5 DEF DetailOK
<1>8. QED
  BY <1>1, <1>2, <1>4, <1>5, <1>6, <1>7, RedrawnKeeps

LEMMA SubmitKeeps ==
    ASSUME IInv, PInv, handleSubmit
    PROVE  PInv'
<1> DEFINE x == Vehicle(hook)
           body == buildPayload(form.values)
           sent == IF place.page = "create" THEN Send("create", 0, 0, body, 0)
                   ELSE Send("update", x.id, x.revision, body, 0)
           f == [form EXCEPT !.saving = TRUE]
<1>1. Render(place, Flushed(hook), detail, f, writes \union {sent})
  BY DEF handleSubmit
<1>2. FormVisible /\ UNCHANGED <<server, floor>>
  BY DEF handleSubmit
<1>3. /\ DetailShape(detail) /\ DetailOK(detail) /\ FormShape(form) /\ FormOK(form)
      /\ \A v \in writes : Request(v) /\ WriteSound(v, garage, revision)
  BY DEF IInv, PInv, WInv, Formed
<1>4. /\ Proper(body) /\ Brings(body, Rows(form.values))
      /\ body.fields.make # Omitted /\ Long(body.deadlines) = {}
  BY <1>3, FormBodyProper DEF FormOK
<1>5. FormShape(f) /\ FormOK(f)
  BY <1>3, FormChanges
<1> HIDE DEF body, f
<1>6. Request(sent) /\ WriteSound(sent, garage, revision)
  <2>1. CASE place.page = "create"
    <3>1. sent = Send("create", 0, 0, body, 0)
      BY <2>1
    <3>2. QED
      BY <1>4, <3>1, SentSound
  <2>2. CASE place.page # "create"
    <3>1. place.page = "edit" /\ hook.status = "shown"
      BY <1>2, <2>2 DEF FormVisible, Shows
    <3>2. x.id \in DOMAIN garage /\ x.id # 0 /\ x.revision \in Nat
      BY <3>1, OnScreen
    <3>3. sent = Send("update", x.id, x.revision, body, 0)
      BY <2>2
    <3> HIDE DEF x, sent
    <3>4. QED
      BY <1>4, <3>2, <3>3, SentSound
  <2>3. QED
    BY <2>1, <2>2
<1> HIDE DEF sent
<1>7. QED
  BY <1>1, <1>2, <1>3, <1>5, <1>6, RedrawnKeeps

LEMMA TypeKeeps ==
    ASSUME IInv, PInv, Type
    PROVE  PInv'
<1>1. PICK v \in Typed(form.values) :
        Render(place, Flushed(hook), detail, [form EXCEPT !.values = v], writes)
  BY DEF Type
<1>2. UNCHANGED <<server, floor>>
  BY DEF Type
<1>3. /\ DetailShape(detail) /\ DetailOK(detail) /\ FormShape(form) /\ FormOK(form)
      /\ \A w \in writes : Request(w) /\ WriteSound(w, garage, revision)
  BY DEF IInv, PInv, WInv, Formed
<1>4. v \in FormValues /\ Offered(v.make, v.model)
  BY <1>3, TypedKeeps DEF FormOK
<1> DEFINE f == [form EXCEPT !.values = v]
<1>5. FormShape(f) /\ FormOK(f)
  BY <1>3, <1>4, FormChanges
<1>6. Render(place, Flushed(hook), detail, f, writes)
  BY <1>1
<1> HIDE DEF f
<1>7. QED
  BY <1>2, <1>3, <1>5, <1>6, RedrawnKeeps

LEMMA GesturesKeep ==
    ASSUME IInv, PInv, User
    PROVE  PInv'
<1>1. /\ DetailShape(detail) /\ DetailOK(detail) /\ FormShape(form) /\ FormOK(form)
      /\ \A w \in writes : Request(w) /\ WriteSound(w, garage, revision)
  BY DEF IInv, PInv, WInv, Formed
<1>2. ASSUME NEW p \in Places, Go(p) PROVE PInv'
  BY <1>2, ArrivalKeeps DEF Go
<1>3. CASE Retry
  BY <1>1, <1>3, ReloadedKeeps DEF Retry
<1>4. CASE CloseModal
  <2> DEFINE d == [detail EXCEPT !.managing = {}]
  <2>1. Render(place, Flushed(hook), d, form, writes) /\ UNCHANGED <<server, floor>>
    BY <1>4 DEF CloseModal
  <2>2. PICK S : S = {}
    OBVIOUS
  <2>3. S \subseteq Deadline /\ (\A x, y \in S : x = y) /\ d = [detail EXCEPT !.managing = S]
    BY <2>2
  <2> HIDE DEF d
  <2>4. DetailShape(d) /\ DetailOK(d) /\ d.managing = S
    BY <1>1, <2>3, ModalOf
  <2>5. QED
    BY <1>1, <2>1, <2>2, <2>4, RedrawnKeeps
<1>5. ASSUME NEW yes \in BOOLEAN,
             Render(place, Flushed(hook), [detail EXCEPT !.confirming = yes], form, writes),
             UNCHANGED <<server, floor>>
      PROVE  PInv'
  <2> DEFINE d == [detail EXCEPT !.confirming = yes]
  <2>1. DetailShape(d) /\ d.managing = detail.managing /\ d.confirming \in BOOLEAN
    BY <1>1, Changes
  <2>2. Render(place, Flushed(hook), d, form, writes)
    BY <1>5
  <2> HIDE DEF d
  <2>3. DetailOK(d)
    BY <1>1, <2>1 DEF DetailOK
  <2>4. QED
    BY <1>1, <1>5, <2>1, <2>2, <2>3, RedrawnKeeps
<1>6. CASE AskDelete
  BY <1>5, <1>6 DEF AskDelete
<1>7. CASE KeepVehicle
  BY <1>5, <1>7 DEF KeepVehicle
<1>8. QED
  BY <1>2, <1>3, <1>4, <1>6, <1>7, ManageKeeps, SaveKeeps, DeleteKeeps, TypeKeeps,
     SubmitKeeps
  DEF User

-----------------------------------------------------------------------------
(* The steps of the server.                                                *)

\* Deadlines that were entered under the identifiers from i to j.
Ordered(E, i, j) ==
    /\ i <= j /\ E \subseteq Deadline
    /\ \A d \in E : i < d.id /\ d.id <= j
    /\ \A d, e \in E : d.id = e.id => d = e

\* A step of the server.
Moved(g, r, i, g1, r1, i1) ==
    /\ Stored(g1, r1, i1) /\ Advance(g, r, g1, r1)
    /\ \E E : Recorded(g1) \subseteq Recorded(g) \union E /\ Ordered(E, i, i1)

LEMMA KnownTyped ==
    ASSUME PInv
    PROVE  Known(garage, hook, detail) \subseteq Deadline
<1>1. \A v \in DOMAIN garage : garage[v].deadlines \subseteq Deadline
  <2>1. \A v \in DOMAIN garage : garage[v] \in VehicleRow
    BY Positions DEF PInv
  <2>2. QED
    BY <2>1 DEF VehicleRow
<1>2. \A x \in Items(hook) : x.vehicle.deadlines \subseteq Deadline
  <2>1. \A x \in Items(hook) : x \in Item
    BY DEF PInv, HookOK, Snapshot
  <2>2. QED
    BY <2>1 DEF Item, VehicleRow
<1>3. detail.managing \subseteq Deadline
  BY DEF PInv, DetailOK
<1>4. Recorded(garage) \subseteq Deadline
  BY <1>1 DEF Recorded
<1>5. Held(hook) \subseteq Deadline
  BY <1>2 DEF Held
<1>6. QED
  BY <1>3, <1>4, <1>5 DEF Known

\* Identifiers are never given twice.
LEMMA StillDistinct ==
    ASSUME NEW D, D \subseteq Deadline, NEW i \in Nat, Distinct(D, i),
           NEW j \in Nat, NEW E, Ordered(E, i, j), NEW F, F \subseteq D \union E
    PROVE  Distinct(F, j)
<1>1. \A d \in D : d.id \in Nat /\ d.id <= i /\ d.id <= j
  BY DEF Distinct, Ordered, Deadline
<1>2. \A d \in E : d.id \in Nat /\ i < d.id /\ d.id <= j
  BY DEF Ordered, Deadline
<1>3. ASSUME NEW d \in D \union E, NEW e \in D \union E, d.id = e.id PROVE d = e
  <2>1. CASE d \in D /\ e \in D
    BY <1>3, <2>1 DEF Distinct
  <2>2. CASE d \in E /\ e \in E
    BY <1>3, <2>2 DEF Ordered
  <2>3. CASE d \in D /\ e \in E
    BY <1>1, <1>2, <1>3, <2>3
  <2>4. CASE d \in E /\ e \in D
    BY <1>1, <1>2, <1>3, <2>4
  <2>5. QED
    BY <2>1, <2>2, <2>3, <2>4
<1>4. QED
  BY <1>1, <1>2, <1>3 DEF Distinct

LEMMA MovedKeeps ==
    ASSUME PInv, UNCHANGED <<page, floor>>,
           Moved(garage, revision, issued, garage', revision', issued'),
           \A u \in writes' : WriteSound(u, garage', revision')
    PROVE  PInv'
<1>1. /\ Stored(garage, revision, issued) /\ FloorOK(floor, garage, revision)
      /\ place \in Places /\ hook.key = place /\ hook.of = place
      /\ HookOK(hook, garage, revision, floor)
      /\ DetailOK(detail) /\ FormOK(form)
      /\ Distinct(Known(garage, hook, detail), issued)
  BY DEF PInv
<1>2. /\ Stored(garage', revision', issued')
      /\ Advance(garage, revision, garage', revision')
  BY DEF Moved
<1>3. PICK E : Recorded(garage') \subseteq Recorded(garage) \union E
               /\ Ordered(E, issued, issued')
  BY DEF Moved
<1>4. HookOK(hook, garage', revision', floor)
  BY <1>1, <1>2, HookLasts
<1>5. FloorOK(floor, garage', revision')
  BY <1>1, <1>2, FloorLasts
<1>6. issued \in Nat /\ issued' \in Nat
  BY <1>1, <1>2 DEF Stored
<1>7. Known(garage', hook, detail) \subseteq Known(garage, hook, detail) \union E
  BY <1>3 DEF Known
<1>8. Distinct(Known(garage', hook, detail), issued')
  BY <1>1, <1>3, <1>6, <1>7, KnownTyped, StillDistinct
<1>9. QED
  BY <1>1, <1>2, <1>4, <1>5, <1>8 DEF page, PInv

\* What a payload brings is entered under new identifiers.
LEMMA EnteredInOrder ==
    ASSUME Stored(garage, revision, issued), NEW body, body \in VehiclePayload, Acceptable(body),
           issued' = issued + Len(body.deadlines)
    PROVE  Ordered(Server!Entries(body), issued, issued')
<1> DEFINE E == Server!Entries(body)
           n == Len(body.deadlines)
<1>1. issued \in Nat
  BY DEF Stored
<1>2. /\ n \in Nat /\ E \in SUBSET Deadline
      /\ \A d \in E : issued < d.id /\ d.id <= issued + n
      /\ \A d, e \in E : d.id = e.id => d = e
  BY <1>1, Entered
<1> HIDE DEF E, n
<1>3. issued' = issued + n
  BY DEF n
<1>4. issued <= issued'
  BY <1>1, <1>2, <1>3
<1>5. Ordered(E, issued, issued')
  BY <1>2, <1>3, <1>4 DEF Ordered
<1>6. QED
  BY <1>5 DEF E

LEMMA CommitMoves ==
    ASSUME IInv, PInv, NEW w \in writes, Commit(w)
    PROVE  /\ Moved(garage, revision, issued, garage', revision', issued')
           /\ w.of = 0 => Len(garage') \in DOMAIN garage'
<1>1. Stored(garage, revision, issued) /\ WriteSound(w, garage, revision)
  BY DEF PInv
<1>2. Live \subseteq DOMAIN garage
  BY DEF Live
<1>3. CASE /\ w.kind = "create" /\ Accepted(w.body) /\ Len(garage) < MaxVehicles
           /\ Server!Add(Account, w.body) /\ revision' = Append(revision, 0)
  <2>1. /\ Proper(w.body) /\ w.body.fields.make # Omitted
    BY <1>1, <1>3 DEF WriteSound
  <2>2. /\ Stored(garage', revision', issued')
        /\ Advance(garage, revision, garage', revision')
        /\ Recorded(garage') \subseteq Recorded(garage) \union Server!Entries(w.body)
        /\ issued' = issued + Len(w.body.deadlines)
        /\ Len(garage') \in DOMAIN garage'
    BY <1>1, <1>3, <2>1, AddKeeps DEF Proper
  <2>3. Ordered(Server!Entries(w.body), issued, issued')
    BY <1>1, <2>1, <2>2, EnteredInOrder DEF Proper
  <2>4. QED
    BY <2>2, <2>3 DEF Moved
<1>4. CASE /\ w.kind \in {"save", "update"} /\ w.of \in Live /\ Accepted(w.body)
           /\ Server!Edit(w.of, w.body) /\ Touch(w.of)
  <2>1. Proper(w.body) /\ w.of # 0
    BY <1>1, <1>4 DEF WriteSound
  <2>2. /\ Stored(garage', revision', issued')
        /\ Advance(garage, revision, garage', revision')
        /\ Recorded(garage') \subseteq Recorded(garage) \union Server!Entries(w.body)
        /\ issued' = issued + Len(w.body.deadlines)
    BY <1>1, <1>2, <1>4, <2>1, EditKeeps DEF Proper
  <2>3. Ordered(Server!Entries(w.body), issued, issued')
    BY <1>1, <2>1, <2>2, EnteredInOrder DEF Proper
  <2>4. QED
    BY <2>1, <2>2, <2>3 DEF Moved
<1>5. CASE w.kind = "delete" /\ w.of \in Live /\ Server!Remove(w.of) /\ Touch(w.of)
  <2>1. /\ Stored(garage', revision', issued')
        /\ Advance(garage, revision, garage', revision')
        /\ Recorded(garage') \subseteq Recorded(garage) \union {}
        /\ issued' = issued
    BY <1>1, <1>2, <1>5, RemoveKeeps
  <2>2. issued \in Nat /\ w.of # 0
    BY <1>1, <1>5 DEF Stored, WriteSound
  <2>3. Ordered({}, issued, issued')
    BY <2>1, <2>2 DEF Ordered
  <2>4. QED
    BY <2>1, <2>2, <2>3 DEF Moved
<1>6. QED
  BY <1>3, <1>4, <1>5 DEF Commit

LEMMA CommitKeepsAll ==
    ASSUME IInv, PInv, NEW w \in writes, Commit(w)
    PROVE  PInv'
<1>1. /\ Stored(garage, revision, issued)
      /\ \A u \in writes : WriteSound(u, garage, revision)
  BY DEF PInv
<1>2. /\ Moved(garage, revision, issued, garage', revision', issued')
      /\ w.of = 0 => Len(garage') \in DOMAIN garage'
  BY CommitMoves
<1>3. PICK phase, of :
        /\ of = IF w.of = 0 THEN Len(garage') ELSE w.of
        /\ writes' = (writes \ {w}) \union {[w EXCEPT !.phase = phase, !.of = of]}
  <2>1. PICK of : of = IF w.of = 0 THEN Len(garage') ELSE w.of
    OBVIOUS
  <2>2. PICK phase : writes' = (writes \ {w}) \union
            {[w EXCEPT !.phase = phase, !.of = IF @ = 0 THEN Len(garage') ELSE @]}
    BY DEF Commit
  <2>3. writes' = (writes \ {w}) \union {[w EXCEPT !.phase = phase, !.of = of]}
    BY <2>1, <2>2, Zenon
  <2>4. QED
    BY <2>1, <2>3
<1>4. UNCHANGED <<page, floor>>
  BY DEF Commit
<1>5. Stored(garage', revision', issued') /\ Advance(garage, revision, garage', revision')
  BY <1>2 DEF Moved
<1>6. \A u \in writes : WriteSound(u, garage', revision')
  BY <1>1, <1>5, WriteLasts
<1> DEFINE u == [w EXCEPT !.phase = phase, !.of = of]
<1>7. WriteSound(u, garage', revision')
  <2>1. Request(w)
    BY DEF IInv, WInv, Formed
  <2>2. /\ u.kind = w.kind /\ u.of = of /\ u.base = w.base /\ u.body = w.body
        /\ u.edited = w.edited /\ u.rows = w.rows
    BY <2>1 DEF Request
  <2> HIDE DEF u
  <2>3. of \in DOMAIN garage' /\ of # 0
    <3>1. w.of \in {0} \union DOMAIN garage'
      BY <1>6 DEF WriteSound
    <3>2. \A v \in DOMAIN garage' : v # 0
      BY <1>5, Positions, BoundsAssumption
    <3>3. QED
      BY <1>2, <1>3, <3>1, <3>2
  <2>4. w.kind = "save" => w.of = of
    BY <1>1, <1>3 DEF WriteSound
  <2>5. WriteSound(w, garage', revision')
    BY <1>6
  <2>6. QED
    BY <2>2, <2>3, <2>4, <2>5 DEF WriteSound
<1>8. \A v \in writes' : WriteSound(v, garage', revision')
  BY <1>3, <1>6, <1>7
<1>9. QED
  BY <1>2, <1>4, <1>8, MovedKeeps

LEMMA OtherDeviceKeeps ==
    ASSUME PInv, NEW v \in DOMAIN garage, OtherDevice(v)
    PROVE  PInv'
<1>1. /\ Stored(garage, revision, issued)
      /\ \A u \in writes : WriteSound(u, garage, revision)
  BY DEF PInv
<1>2. Moved(garage, revision, issued, garage', revision', issued')
  <2>1. CASE Server!Remove(v)
    <3>1. /\ Stored(garage', revision', issued')
          /\ Advance(garage, revision, garage', revision')
          /\ Recorded(garage') \subseteq Recorded(garage) \union {}
          /\ issued' = issued
      BY <1>1, <2>1, RemoveKeeps DEF OtherDevice
    <3>2. issued \in Nat
      BY <1>1 DEF Stored
    <3>3. Ordered({}, issued, issued')
      BY <3>1, <3>2 DEF Ordered
    <3>4. QED
      BY <3>1, <3>3 DEF Moved
  <2>2. ASSUME NEW body \in OtherBodies, Server!Edit(v, body)
        PROVE  Moved(garage, revision, issued, garage', revision', issued')
    <3>1. body \in VehiclePayload /\ Acceptable(body) /\ Accepted(body)
      BY OtherDeviceAssumption
    <3>2. /\ Stored(garage', revision', issued')
          /\ Advance(garage, revision, garage', revision')
          /\ Recorded(garage') \subseteq Recorded(garage) \union Server!Entries(body)
          /\ issued' = issued + Len(body.deadlines)
      BY <1>1, <2>2, <3>1, EditKeeps DEF OtherDevice
    <3>3. Ordered(Server!Entries(body), issued, issued')
      BY <1>1, <3>1, <3>2, EnteredInOrder
    <3>4. QED
      BY <3>2, <3>3 DEF Moved
  <2>3. QED
    BY <2>1, <2>2 DEF OtherDevice
<1>3. Stored(garage', revision', issued') /\ Advance(garage, revision, garage', revision')
  BY <1>2 DEF Moved
<1>4. \A u \in writes : WriteSound(u, garage', revision')
  BY <1>1, <1>3, WriteLasts
<1>5. UNCHANGED <<page, floor, writes>>
  BY DEF OtherDevice
<1>6. QED
  BY <1>2, <1>4, <1>5, MovedKeeps

-----------------------------------------------------------------------------
(* Answers and callbacks.                                                  *)

\* The hook moves by itself.
LEMMA HookMoves ==
    ASSUME PInv, UNCHANGED <<server, place, detail, form, writes, floor>>,
           Sound(hook'), Fresh(hook', garage, floor),
           hook'.key = hook.key, hook'.of = hook.of,
           NEW data, Items(hook') \subseteq Items(hook) \union data,
           \A x \in data : Snapshot(x, garage, revision),
           \A x \in data : x.vehicle.deadlines \subseteq Recorded(garage)
    PROVE  PInv'
<1>1. /\ Stored(garage, revision, issued) /\ FloorOK(floor, garage, revision)
      /\ place \in Places /\ hook.key = place /\ hook.of = place
      /\ HookOK(hook, garage, revision, floor)
      /\ DetailOK(detail) /\ FormOK(form)
      /\ \A w \in writes : WriteSound(w, garage, revision)
      /\ Distinct(Known(garage, hook, detail), issued)
  BY DEF PInv
<1>2. HookOK(hook', garage, revision, floor)
  BY <1>1 DEF HookOK
<1>3. Held(hook') \subseteq Held(hook) \union Recorded(garage)
  BY DEF Held
<1>4. Known(garage, hook', detail) \subseteq Known(garage, hook, detail)
  BY <1>3 DEF Known
<1>5. Distinct(Known(garage, hook', detail), issued)
  BY <1>1, <1>4, Fewer
<1>6. QED
  BY <1>1, <1>2, <1>5 DEF server, PInv

\* A vehicle as the API answers it is one as the server holds it.
LEMMA SeenIsSnapshot ==
    ASSUME PInv, NEW v \in Live
    PROVE  /\ Snapshot(Seen(v), garage, revision) /\ Seen(v) \in Item
           /\ Seen(v).id = v /\ Seen(v).revision = revision[v]
           /\ Seen(v).vehicle.deadlines \subseteq Recorded(garage)
<1>1. v \in DOMAIN garage
  BY DEF Live
<1>2. /\ v \in 1..MaxVehicles /\ revision[v] \in Nat
      /\ garage[v] \in VehicleRow /\ Consistent(garage[v])
  BY <1>1, Positions DEF PInv
<1>3. /\ Seen(v).id = v /\ Seen(v).revision = revision[v]
      /\ Seen(v).vehicle = garage[v]
  BY DEF Seen
<1>4. Seen(v) \in Item
  <2>1. PICK x, n : x = garage[v] /\ n = revision[v]
    OBVIOUS
  <2>2. Seen(v) = [id |-> v, vehicle |-> x, revision |-> n]
    BY <2>1, Zenon DEF Seen
  <2>3. QED
    BY <1>2, <2>1, <2>2 DEF Item
<1>5. Snapshot(Seen(v), garage, revision)
  BY <1>1, <1>2, <1>3, <1>4 DEF Snapshot
<1>6. QED
  BY <1>1, <1>3, <1>4, <1>5 DEF Recorded

LEMMA AnswerKeeps ==
    ASSUME PInv, NEW l \in hook.loads, AnswerLoad(l)
    PROVE  PInv'
<1> DEFINE found == l.key.page = "list" \/ l.key.of \in Live
           asked == {v \in Live : l.key.page = "list" \/ l.key.of = v}
           data == {Seen(v) : v \in asked}
<1>1. /\ FloorOK(floor, garage, revision) /\ Stored(garage, revision, issued)
      /\ Sound(hook) /\ Fresh(hook, garage, floor)
  BY DEF PInv, HookOK
<1>2. /\ \/ hook' = IF found THEN Answered(hook, l, "shown", data)
                    ELSE Answered(hook, l, "notFound", {})
         \/ hook' = Answered(hook, l, "failed", {})
      /\ UNCHANGED <<server, place, detail, form, writes, floor>>
  <2>1. asked = {u \in Live : l.key.page = "list" \/ l.key.of = u}
    OBVIOUS
  <2> HIDE DEF asked
  <2>2. QED
    BY <2>1 DEF AnswerLoad
<1>3. \A v \in asked : v \in Live
  OBVIOUS
<1>4. \A x \in data : \E v \in Live : x = Seen(v)
  OBVIOUS
<1>5. \A v \in asked : Seen(v) \in data
  OBVIOUS
<1>6. l.key.page = "list" => asked = Live
  OBVIOUS
<1>7. ~(l.key.page = "list") /\ l.key.of \in Live => asked = {l.key.of}
  OBVIOUS
<1>8. l.key.page \in {"detail", "edit"} /\ found => data = {Seen(l.key.of)}
  BY <1>7
<1>9. found /\ ~(l.key.page = "list") => l.key.of \in Live
  OBVIOUS
<1> HIDE DEF asked, data, found
<1>10. \A x \in data : /\ Snapshot(x, garage, revision) /\ x \in Item
                       /\ x.vehicle.deadlines \subseteq Recorded(garage)
                       /\ x.id \in Live /\ x.revision = revision[x.id]
  BY <1>4, SeenIsSnapshot
<1>11. found => Names("shown", data, l.key)
  <2>1. ASSUME found, l.key.page \in {"detail", "edit"} PROVE Ids(data) = {l.key.of}
    <3>1. l.key.of \in Live /\ data = {Seen(l.key.of)}
      BY <1>8, <1>9, <2>1
    <3>2. Seen(l.key.of).id = l.key.of
      BY <3>1, SeenIsSnapshot
    <3>3. QED
      BY <3>1, <3>2 DEF Ids
  <2>2. QED
    BY <2>1 DEF Names
<1>12. Recent(data, l.key, garage, floor)
  <2>1. ASSUME NEW x \in data, x.id \in DOMAIN floor PROVE x.revision >= floor[x.id]
    <3>1. floor[x.id] <= revision[x.id] /\ floor \in Seq(Nat)
      BY <1>1, <2>1 DEF FloorOK
    <3>2. floor[x.id] \in Nat
      BY <2>1, <3>1, ElementOfSeq, LenProperties
    <3>3. x.revision = revision[x.id] /\ revision[x.id] \in Nat
      BY <1>1, <1>10, Positions DEF Live
    <3>4. QED
      BY <3>1, <3>2, <3>3
  <2>2. ASSUME l.key.page = "list"
        PROVE  {v \in DOMAIN garage : ~garage[v].deleted} \intersect DOMAIN floor
                  \subseteq Ids(data)
    <3>1. ASSUME NEW v \in Live PROVE v \in Ids(data)
      <4>1. Seen(v) \in data /\ Seen(v).id = v
        BY <1>5, <1>6, <2>2, SeenIsSnapshot
      <4>2. QED
        BY <4>1 DEF Ids
    <3>2. QED
      BY <3>1 DEF Live
  <2>3. QED
    BY <2>1, <2>2 DEF Recent
<1>13. data \in SUBSET Item
  BY <1>10
<1>14. CASE found /\ hook' = Answered(hook, l, "shown", data)
  <2>1. /\ Sound(hook') /\ Items(hook') \subseteq Items(hook) \union data
        /\ hook'.key = hook.key /\ hook'.of = hook.of /\ Fresh(hook', garage, floor)
    BY <1>1, <1>11, <1>12, <1>13, <1>14, AnsweredPasses
  <2>2. QED
    BY <1>2, <1>10, <2>1, HookMoves
<1>15. ASSUME NEW told \in {"notFound", "failed"}, hook' = Answered(hook, l, told, {})
       PROVE  PInv'
  <2>1. Names(told, {}, l.key) /\ told # "shown"
    BY DEF Names
  <2>2. /\ Sound(hook') /\ Items(hook') \subseteq Items(hook) \union {}
        /\ hook'.key = hook.key /\ hook'.of = hook.of /\ Fresh(hook', garage, floor)
    BY <1>1, <1>15, <2>1, AnsweredPasses
  <2>3. QED
    BY <1>2, <2>2, HookMoves
<1>16. QED
  BY <1>2, <1>14, <1>15

LEMMA EffectKeeps ==
    ASSUME PInv, RunEffect
    PROVE  PInv'
<1> DEFINE h == Flushed(hook)
<1>1. Sound(hook) /\ Fresh(hook, garage, floor)
  BY DEF PInv, HookOK
<1>2. /\ hook' = h /\ UNCHANGED <<server, place, detail, form, writes, floor>>
  BY DEF RunEffect
<1>3. /\ Sound(h) /\ Items(h) \subseteq Items(hook) \union {}
      /\ h.key = hook.key /\ h.of = hook.of /\ Fresh(h, garage, floor)
  BY <1>1, FlushedPasses DEF Passed
<1> HIDE DEF h
<1>4. PICK data : data = {}
  OBVIOUS
<1>5. /\ Sound(hook') /\ Items(hook') \subseteq Items(hook) \union data
      /\ hook'.key = hook.key /\ hook'.of = hook.of /\ Fresh(hook', garage, floor)
      /\ \A x \in data : Snapshot(x, garage, revision)
      /\ \A x \in data : x.vehicle.deadlines \subseteq Recorded(garage)
  BY <1>2, <1>3, <1>4
<1>6. UNCHANGED <<server, place, detail, form, writes, floor>>
  BY <1>2
<1>7. QED
  BY <1>5, <1>6, HookMoves

LEMMA DeliveryKeeps ==
    ASSUME IInv, PInv, NEW l \in hook.loads, DeliverLoad(l)
    PROVE  PInv'
<1> DEFINE h0 == Delivered(hook, l)
           h == Flushed(h0)
<1>1. /\ Stored(garage, revision, issued) /\ FloorOK(floor, garage, revision)
      /\ place \in Places /\ hook.key = place /\ HookOK(hook, garage, revision, floor)
      /\ DetailOK(detail) /\ FormOK(form)
      /\ \A w \in writes : WriteSound(w, garage, revision)
      /\ Distinct(Known(garage, hook, detail), issued)
  BY DEF PInv
<1>2. /\ DetailShape(detail) /\ FormShape(form) /\ \A w \in writes : Request(w)
  BY DEF IInv, WInv, Formed
<1>3. /\ l.told # "nothing" /\ UNCHANGED <<server, floor>>
      /\ Render(place, h, detail, form, writes)
  BY DEF DeliverLoad
<1>4. /\ Sound(h0) /\ Items(h0) \subseteq Items(hook) /\ h0.key = place
      /\ Fresh(h0, garage, floor)
  BY <1>1, <1>3, DeliveredPasses DEF HookOK, Passed
<1> HIDE DEF h0
<1>5. /\ Sound(h) /\ Items(h) \subseteq Items(h0) /\ h.key = place
      /\ Fresh(h, garage, floor)
  BY <1>4, FlushedPasses DEF Passed
<1> HIDE DEF h
<1>6. HookOK(h, garage, revision, floor)
  BY <1>1, <1>4, <1>5 DEF HookOK
<1>7. Distinct(Known(garage, h, detail), issued)
  BY <1>1, <1>4, <1>5, StillHeld, Fewer
<1>8. QED
  BY <1>1, <1>2, <1>3, <1>5, <1>6, <1>7, Painted

LEMMA WriteAnswerKeeps ==
    ASSUME IInv, PInv, NEW w \in writes, AnswerWrite(w)
    PROVE  PInv'
<1> DEFINE ws == writes \ {w}
<1>1. /\ Stored(garage, revision, issued)
      /\ DetailShape(detail) /\ DetailOK(detail) /\ FormShape(form) /\ FormOK(form)
      /\ \A u \in writes : Request(u) /\ WriteSound(u, garage, revision)
  BY DEF IInv, PInv, WInv, Formed
<1>2. UNCHANGED server /\ ws \subseteq writes
  BY DEF AnswerWrite
<1>3. CASE SavedAnswer(w)
  <2> DEFINE d == [detail EXCEPT !.managing = {}]
  <2>1. Render(place, reload(Flushed(hook)), d, form, ws) /\ floor' = revision
    BY <1>3 DEF SavedAnswer
  <2>2. PICK S : S = {}
    OBVIOUS
  <2>3. S \subseteq Deadline /\ (\A x, y \in S : x = y) /\ d = [detail EXCEPT !.managing = S]
    BY <2>2
  <2> HIDE DEF d, ws
  <2>4. DetailShape(d) /\ DetailOK(d) /\ d.managing = S
    BY <1>1, <2>3, ModalOf
  <2>5. QED
    BY <1>1, <1>2, <2>1, <2>2, <2>4, ReloadedKeeps
<1>4. CASE SubmittedAnswer(w)
  <2>1. /\ Arrive(DetailOf(w.of), ws)
        /\ w.kind \in {"create", "update"} /\ w.phase = "ok"
    BY <1>4 DEF SubmittedAnswer
  <2>2. w.of \in DOMAIN garage
    BY <1>1, <2>1 DEF WriteSound
  <2>3. w.of \in 1..MaxVehicles
    BY <1>1, <2>2, Positions
  <2>4. DetailOf(w.of) \in Places
    <3>1. PICK v \in 1..MaxVehicles : v = w.of
      BY <2>3
    <3>2. DetailOf(v) \in Places
      BY DEF DetailOf, Places
    <3>3. QED
      BY <3>1, <3>2
  <2> HIDE DEF ws
  <2>5. QED
    BY <1>2, <2>1, <2>4, ArrivalKeeps
<1>5. CASE DeletedAnswer(w)
  <2>1. Arrive(List, ws)
    BY <1>5 DEF DeletedAnswer
  <2>2. List \in Places
    BY DEF List, Places
  <2> HIDE DEF ws
  <2>3. QED
    BY <1>2, <2>1, <2>2, ArrivalKeeps
<1>6. CASE FailedAnswer(w)
  <2>1. PICK sv, dl, fs :
          /\ sv = (detail.saving /\ ~w.own)
          /\ dl = (detail.deleting /\ ~(w.live /\ w.kind = "delete"))
          /\ fs = (form.saving /\ ~(w.live /\ w.kind \in {"create", "update"}))
    OBVIOUS
  <2> DEFINE c == [detail EXCEPT !.saving = sv]
             d == [c EXCEPT !.deleting = dl]
             f == [form EXCEPT !.saving = fs]
  <2>2. Render(place, Flushed(hook), d, f, ws) /\ floor' = floor
    <3>1. [detail EXCEPT !.saving = @ /\ ~w.own,
                         !.deleting = @ /\ ~(w.live /\ w.kind = "delete")] = d
      BY <1>1, <2>1 DEF DetailShape
    <3>2. [form EXCEPT !.saving =
              @ /\ ~(w.live /\ w.kind \in {"create", "update"})] = f
      BY <2>1, Zenon
    <3>3. QED
      BY <1>6, <3>1, <3>2, Zenon DEF FailedAnswer
  <2>3. DetailShape(c) /\ c.managing = detail.managing /\ c.confirming = detail.confirming
    BY <1>1, Changes
  <2> HIDE DEF c
  <2>4. DetailOK(c)
    BY <1>1, <2>3 DEF DetailOK
  <2>5. DetailShape(d) /\ d.managing = c.managing /\ d.confirming = c.confirming
    BY <2>3, <2>4, Changes
  <2>6. FormShape(f) /\ FormOK(f)
    BY <1>1, FormChanges
  <2> HIDE DEF d, f
  <2>7. DetailOK(d)
    BY <2>4, <2>5 DEF DetailOK
  <2>8. QED
    BY <1>1, <1>2, <2>2, <2>3, <2>5, <2>6, <2>7, RedrawnKeeps
<1>7. CASE UnheardAnswer(w)
  <2>1. writes' \subseteq writes /\ UNCHANGED <<page, floor, server>>
    BY <1>2, <1>7 DEF UnheardAnswer
  <2>2. QED
    BY <1>1, <2>1 DEF page, server, PInv
<1>8. QED
  BY <1>3, <1>4, <1>5, <1>6, <1>7 DEF AnswerWrite

LEMMA RefuseKeeps ==
    ASSUME IInv, PInv, NEW w \in writes, Refuse(w)
    PROVE  PInv'
<1> DEFINE u == [w EXCEPT !.phase = "failed"]
<1>1. /\ \A v \in writes : Request(v) /\ WriteSound(v, garage, revision)
  BY DEF IInv, PInv, WInv, Formed
<1>2. /\ writes' = (writes \ {w}) \union {u} /\ UNCHANGED <<server, page, floor>>
  BY DEF Refuse
<1>3. /\ u.kind = w.kind /\ u.of = w.of /\ u.base = w.base /\ u.body = w.body
      /\ u.edited = w.edited /\ u.rows = w.rows /\ u.phase = "failed"
  BY <1>1 DEF Request
<1> HIDE DEF u
<1>4. WriteSound(u, garage, revision)
  BY <1>1, <1>3 DEF WriteSound
<1>5. \A v \in writes' : WriteSound(v, garage, revision)
  BY <1>1, <1>2, <1>4
<1>6. QED
  BY <1>2, <1>5 DEF server, page, PInv

LEMMA StockStored ==
    ASSUME NEW r, r = [v \in DOMAIN Stock |-> 0],
           NEW i, i = Cardinality(UNION {Stock[v].deadlines : v \in DOMAIN Stock})
    PROVE  Stored(Stock, r, i) /\ Distinct(Recorded(Stock), i)
<1> DEFINE sets == {Stock[v].deadlines : v \in DOMAIN Stock}
           rows == UNION sets
<1>1. /\ Stock \in Seq(VehicleRow) /\ Len(Stock) <= MaxVehicles
      /\ \A v \in DOMAIN Stock : Consistent(Stock[v])
  BY StockAssumption
<1>2. \A d, e \in rows : d.id <= i /\ (d.id = e.id => d = e)
  BY StockAssumption, Zenon
<1>3. Len(Stock) \in Nat /\ DOMAIN Stock = 1..Len(Stock)
  BY <1>1, LenProperties
<1>4. IsFiniteSet(DOMAIN Stock)
  BY <1>3, FS_Interval
<1>5. IsFiniteSet(sets)
  <2> DEFINE f == [v \in DOMAIN Stock |-> Stock[v].deadlines]
  <2>1. sets = {f[v] : v \in DOMAIN Stock} /\ f \in [DOMAIN Stock -> sets]
    OBVIOUS
  <2>2. f \in Surjection(DOMAIN Stock, sets)
    BY <2>1 DEF Surjection
  <2> HIDE DEF f, sets
  <2>3. QED
    BY <1>4, <2>2, FS_Surjection
<1>6. \A S \in sets : IsFiniteSet(S)
  BY <1>1 DEF Consistent
<1>7. IsFiniteSet(rows)
  <2> HIDE DEF sets
  <2>1. QED
    BY <1>5, <1>6, FS_UNION
<1>8. i = Cardinality(rows)
  OBVIOUS
<1> HIDE DEF rows
<1>9. i \in Nat
  BY <1>7, <1>8, FS_CardinalityType
<1>10. r \in Seq(Nat) /\ Len(r) = Len(Stock)
  <2>1. r \in [1..Len(Stock) -> Nat]
    BY <1>3
  <2>2. r \in Seq(Nat)
    BY <1>3, <2>1, SeqDef
  <2>3. DOMAIN r = 1..Len(Stock) /\ DOMAIN r = 1..Len(r) /\ Len(r) \in Nat
    BY <2>1, <2>2, LenProperties
  <2>4. QED
    BY <1>3, <2>2, <2>3
<1>11. Distinct(Recorded(Stock), i)
  BY <1>2 DEF Distinct, Recorded, rows
<1>12. QED
  BY <1>1, <1>9, <1>10, <1>11 DEF Stored

LEMMA StartKeeps == Init => PInv
<1> SUFFICES ASSUME Init PROVE PInv
  OBVIOUS
<1>1. /\ garage = Stock /\ revision = [v \in DOMAIN Stock |-> 0]
      /\ issued = Cardinality(UNION {Stock[v].deadlines : v \in DOMAIN Stock})
      /\ place \in Places /\ hook = Mounted(place)
      /\ detail = NoDetail /\ form = NoForm /\ writes = {} /\ floor = revision
  BY DEF Init
<1>2. Stored(garage, revision, issued) /\ Distinct(Recorded(garage), issued)
  BY <1>1, StockStored
<1>3. FloorOK(floor, garage, revision)
  BY <1>1, <1>2, Abreast
<1>4. /\ Sound(hook) /\ Items(hook) = {} /\ hook.key = place /\ hook.of = place
      /\ Fresh(hook, garage, floor)
  BY <1>1, MountedPasses
<1>5. HookOK(hook, garage, revision, floor)
  BY <1>4 DEF HookOK
<1>6. detail.managing = {} /\ detail.confirming \in BOOLEAN
  BY <1>1 DEF NoDetail
<1>7. FormOK(form)
  BY <1>1, EmptyForm
<1>8. Known(garage, hook, detail) = Recorded(garage)
  BY <1>4, <1>6 DEF Known, Held
<1>9. QED
  BY <1>1, <1>2, <1>3, <1>4, <1>5, <1>6, <1>7, <1>8 DEF PInv, DetailOK

LEMMA AllKeep == IInv /\ PInv /\ [Next]_vars => PInv'
<1> SUFFICES ASSUME IInv, PInv, [Next]_vars PROVE PInv'
  OBVIOUS
<1>1. CASE UNCHANGED vars
  BY <1>1 DEF vars, server, page, PInv
<1>2. QED
  BY <1>1, GesturesKeep, CommitKeepsAll, RefuseKeeps, OtherDeviceKeeps, AnswerKeeps,
     EffectKeeps, DeliveryKeeps, WriteAnswerKeeps
  DEF Next

\* What the page holds, what it may still be told and what it has sent is an
\* invariant.
THEOREM ScreenInductive == Spec => [](IInv /\ PInv)
<1>1. Init => IInv /\ PInv
  BY Beginning, StartKeeps
<1>2. IInv /\ PInv /\ [Next]_vars => IInv' /\ PInv'
  BY Kept, AllKeep
<1>3. QED
  BY <1>1, <1>2, PTL DEF Spec

\* The variables have the types the code gives them, and what is on the screen
\* belongs to the route.
THEOREM TypeCorrect == Spec => []TypeOK
<1>1. PInv => TypeOK
  <2> SUFFICES ASSUME PInv PROVE TypeOK
    OBVIOUS
  <2>1. /\ garage \in Seq(VehicleRow) /\ DOMAIN revision = DOMAIN garage
    BY Positions DEF PInv, Stored
  <2>2. hook \in Resource(Places, [id: 1..MaxVehicles, vehicle: VehicleRow, revision: Nat])
    BY DEF PInv, HookOK, Sound, Item
  <2>3. Cardinality(detail.managing) <= 1
    <3> DEFINE S == detail.managing
    <3>1. \A x, y \in S : x = y
      BY DEF PInv, DetailOK
    <3> HIDE DEF S
    <3>2. CASE S = {}
      BY <3>2, FS_EmptySet DEF S
    <3>3. ASSUME NEW x \in S PROVE Cardinality(S) <= 1
      <4>1. S = {x}
        BY <3>1
      <4>2. QED
        BY <4>1, FS_Singleton
    <3>4. QED
      BY <3>2, <3>3 DEF S
  <2>4. QED
    BY <2>1, <2>2, <2>3 DEF PInv, DetailOK, FormOK, TypeOK
<1>2. QED
  BY <1>1, ScreenInductive, PTL

\* Whatever answers come late, are aborted or get lost, a page paints what its
\* address names, and once settled nothing older than what it last asked for.
THEOREM AskedIsShown == Spec => []ShownIsAskedFor
<1>1. PInv => ShownIsAskedFor
  <2> SUFFICES ASSUME PInv PROVE ShownIsAskedFor
    OBVIOUS
  <2>1. hook.of = place /\ Names(hook.status, hook.data, hook.of)
        /\ Fresh(hook, garage, floor)
    BY DEF PInv, HookOK, Sound
  <2>2. QED
    BY <2>1 DEF Names, Ids, Fresh, Recent, Live, ShownIsAskedFor
<1>2. QED
  BY <1>1, ScreenInductive, PTL

\* Whatever the user types, opens or clears, a body has no fault but one that
\* was just put on the page.
THEOREM SoundBodies == Spec => []BodiesAreSound
<1>1. PInv => BodiesAreSound
  <2> SUFFICES ASSUME PInv, NEW w \in writes, w.kind # "delete"
               PROVE  LET sent == w.body.deadlines
                          fields == w.body.fields IN
                      /\ WellFormed(sent)
                      /\ fields.model \notin {"", Omitted} =>
                            fields.make # "" /\ fields.model \in Catalog[fields.make]
                      /\ IF w.kind = "save"
                         THEN /\ fields = NoFields
                              /\ Len(sent) <= MAX_DEADLINES_PER_VEHICLE
                              /\ \A i, j \in Long(sent) : i = j
                         ELSE Long(sent) = {}
    BY DEF BodiesAreSound
  <2>1. WriteSound(w, garage, revision)
    BY DEF PInv
  <2>2. Acceptable(w.body)
    BY <2>1 DEF WriteSound, Proper
  <2>3. CASE w.kind = "save"
    BY <2>1, <2>2, <2>3 DEF WriteSound, Modest, Acceptable, Offered
  <2>4. CASE w.kind # "save"
    BY <2>1, <2>2, <2>4 DEF WriteSound, Acceptable, Offered
  <2>5. QED
    BY <2>3, <2>4
<1>2. QED
  BY <1>1, ScreenInductive, PTL

-----------------------------------------------------------------------------
(* What a save leaves alone.                                               *)

\* Only the server's act on a request both takes it out and writes its vehicle.
LEMMA OnlyCommits ==
    ASSUME [Next]_vars, NEW w \in writes, Commits(w)
    PROVE  Commit(w)
<1>1. w \notin writes' /\ revision' # revision
  BY DEF Commits
<1>2. ASSUME UNCHANGED server PROVE FALSE
  BY <1>1, <1>2 DEF server
<1>3. CASE User
  BY <1>2, <1>3 DEF User, Go, Retry, Manage, CloseModal, SaveDeadline, AskDelete,
     KeepVehicle, handleDelete, Type, handleSubmit
<1>4. ASSUME NEW v \in writes, Commit(v) PROVE Commit(w)
  <2>1. writes \ {v} \subseteq writes'
    BY <1>4 DEF Commit
  <2>2. v = w
    BY <1>1, <2>1
  <2>3. QED
    BY <1>4, <2>2
<1>5. ASSUME NEW v \in writes, Refuse(v) PROVE FALSE
  BY <1>2, <1>5 DEF Refuse
<1>6. ASSUME NEW v \in DOMAIN garage, OtherDevice(v) PROVE FALSE
  BY <1>1, <1>6 DEF OtherDevice
<1>7. ASSUME NEW l \in hook.loads, AnswerLoad(l) \/ DeliverLoad(l) PROVE FALSE
  BY <1>2, <1>7 DEF AnswerLoad, DeliverLoad
<1>8. CASE RunEffect \/ UNCHANGED vars
  BY <1>2, <1>8 DEF RunEffect, vars
<1>9. ASSUME NEW v \in writes, AnswerWrite(v) PROVE FALSE
  BY <1>2, <1>9 DEF AnswerWrite
<1>10. QED
  BY <1>3, <1>4, <1>5, <1>6, <1>7, <1>8, <1>9 DEF Next

LEMMA Spared ==
    ASSUME IInv, PInv, [Next]_vars, NEW w \in writes, Commits(w),
           w.base = revision[w.of]
    PROVE  LET before == garage[w.of]
               after == garage'[w.of] IN
           IF w.kind = "save"
           THEN /\ {Content(d) : d \in {x \in before.deadlines : x.id # w.edited}}
                     \subseteq {Content(d) : d \in after.deadlines}
                /\ Cardinality(after.deadlines) = Cardinality(before.deadlines)
                /\ after.fields = before.fields
           ELSE {Row(d) : d \in before.deadlines} \intersect w.rows
                     \subseteq {Row(d) : d \in after.deadlines}
<1> DEFINE v == w.of
           body == w.body
           before == garage[v]
           after == garage'[v]
           E == Server!Entries(body)
           n == Len(body.deadlines)
<1>1. w.kind \in {"save", "update"} /\ Commit(w)
  BY OnlyCommits DEF Commits
<1>2. v \in DOMAIN garage /\ Server!Edit(v, body) /\ Touch(v) /\ Accepted(body)
  BY <1>1 DEF Commit, Live
<1>3. Stored(garage, revision, issued) /\ WriteSound(w, garage, revision)
  BY DEF PInv
<1>4. body \in VehiclePayload /\ Acceptable(body) /\ body.replaces
  BY <1>1, <1>3 DEF WriteSound, Proper
<1>5. /\ body.fields = NoFields => after.fields = before.fields
      /\ after.deadlines = E
  BY <1>2, <1>3, <1>4, EditKeeps
<1>6. /\ Cardinality(E) = n
      /\ \A j \in DOMAIN body.deadlines :
            \E d \in E : /\ Content(d) = body.deadlines[j]
                         /\ Row(d) = Row(body.deadlines[j])
  <2>1. issued \in Nat
    BY <1>3 DEF Stored
  <2>2. QED
    BY <1>4, <2>1, Entered
<1> HIDE DEF E
<1>7. CASE w.kind = "save"
  <2>1. Rebuilds(body, before, w.edited)
    BY <1>3, <1>7 DEF WriteSound
  <2>2. body.fields = NoFields /\ n = Cardinality(before.deadlines)
    BY <2>1 DEF Rebuilds
  <2>3. ASSUME NEW d \in before.deadlines, d.id # w.edited
        PROVE  \E e \in after.deadlines : Content(e) = Content(d)
    <3>1. PICK j \in DOMAIN body.deadlines : body.deadlines[j] = Content(d)
      BY <2>1, <2>3 DEF Rebuilds
    <3>2. QED
      BY <1>5, <1>6, <3>1
  <2>4. {Content(d) : d \in {x \in before.deadlines : x.id # w.edited}}
          \subseteq {Content(d) : d \in after.deadlines}
    <3> HIDE DEF before, after
    <3>1. QED
      BY <2>3
  <2>5. QED
    BY <1>5, <1>6, <1>7, <2>2, <2>4
<1>8. CASE w.kind = "update"
  <2>1. Brings(body, w.rows)
    BY <1>3, <1>8 DEF WriteSound
  <2>2. \A d \in before.deadlines : Valid(d)
    BY <1>2, <1>3 DEF Stored, Consistent
  <2>3. ASSUME NEW d \in before.deadlines, Row(d) \in w.rows
        PROVE  \E e \in after.deadlines : Row(e) = Row(d)
    <3>1. Row(d).dueDate = d.dueDate /\ Row(d).type = d.type /\ Row(d).title = d.title
      BY DEF Row
    <3>2. Full(Row(d))
      BY <2>2, <3>1 DEF Full, Valid
    <3>3. PICK j \in DOMAIN body.deadlines : Row(body.deadlines[j]) = Row(d)
      BY <2>1, <2>3, <3>2 DEF Brings
    <3>4. QED
      BY <1>5, <1>6, <3>3
  <2>4. {Row(d) : d \in before.deadlines} \intersect w.rows
          \subseteq {Row(d) : d \in after.deadlines}
    <3> HIDE DEF before, after
    <3>1. QED
      BY <2>3
  <2>5. QED
    BY <1>8, <2>4
<1>9. QED
  BY <1>1, <1>7, <1>8

\* A save on a vehicle that nobody wrote since the page loaded it leaves alone
\* what the user left alone.
THEOREM RestSpared == Spec => SavesSpareTheRest
<1>1. IInv /\ PInv /\ [Next]_vars =>
        [\A w \in writes : Commits(w) /\ w.base = revision[w.of] =>
            LET before == garage[w.of]
                after == garage'[w.of] IN
            IF w.kind = "save"
            THEN /\ {Content(d) : d \in {x \in before.deadlines : x.id # w.edited}}
                      \subseteq {Content(d) : d \in after.deadlines}
                 /\ Cardinality(after.deadlines) = Cardinality(before.deadlines)
                 /\ after.fields = before.fields
            ELSE {Row(d) : d \in before.deadlines} \intersect w.rows
                      \subseteq {Row(d) : d \in after.deadlines}]_vars
  BY Spared
<1>2. QED
  BY <1>1, ScreenInductive, PTL DEF Spec, SavesSpareTheRest

=============================================================================
