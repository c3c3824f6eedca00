----------------------------- MODULE ApiResource -----------------------------
(***************************************************************************)
(* useApiResource, the hook that turns an API call into what a page        *)
(* renders, as functions of its state.                                     *)
(*                                                                         *)
(* "key" is the key the page asks with and "of" the one its state belongs  *)
(* to; "due" says that React still has to run the effect of the latest     *)
(* rendering; "loads" are the calls the effects made.  Data is a set.      *)
(***************************************************************************)

Load(Keys, Data) ==
    [key: Keys, told: {"nothing", "shown", "notFound", "failed"},
     data: SUBSET Data, aborted: BOOLEAN]

Resource(Keys, Data) ==
    [key: Keys, of: Keys, status: {"loading", "shown", "notFound", "failed"},
     data: SUBSET Data, due: BOOLEAN, loads: SUBSET Load(Keys, Data)]

pending(h) == [h EXCEPT !.of = h.key, !.status = "loading", !.data = {}]

Mounted(key) ==
    [key |-> key, of |-> key, status |-> "loading", data |-> {},
     due |-> TRUE, loads |-> {}]

\* The page renders with a key: another one schedules the effect.
Keyed(h, key) ==
    IF h.key = key THEN h ELSE [h EXCEPT !.key = key, !.due = TRUE]

\* Mutant: the reset left to the answer of the new request.
RenderedAsItIs(h) == h

\* A state of another key is reset before anything of it is painted.
Rendered(h) == IF h.of = h.key THEN h ELSE pending(h)

reload(h) == [pending(h) EXCEPT !.due = TRUE]

\* The cleanup aborts what is under way: a call without an answer is cancelled,
\* one whose answer has come still has its callback to run. An effect without
\* an id rejects at once.
Asked(h, known) ==
    [h EXCEPT
        !.due = FALSE,
        !.loads = {[l EXCEPT !.aborted = TRUE] : l \in {x \in @ : x.told # "nothing"}}
                  \union {[key |-> h.key,
                           told |-> IF known THEN "nothing" ELSE "notFound",
                           data |-> {}, aborted |-> FALSE]}]

\* The server answers, or nothing does.
Answered(h, l, told, data) ==
    [h EXCEPT !.loads = (@ \ {l}) \union {[l EXCEPT !.told = told, !.data = data]}]

\* Mutant: the signal is not looked at.
HeededAnyway(l) == TRUE

Heeded(l) == ~l.aborted

\* The callbacks of the call.
Delivered(h, l) ==
    IF Heeded(l)
    THEN [h EXCEPT !.loads = @ \ {l}, !.of = l.key, !.status = l.told, !.data = l.data]
    ELSE [h EXCEPT !.loads = @ \ {l}]

\* Nothing is on its way that could replace what is shown.
Settled(h) ==
    h.status = "shown" /\ ~h.due /\ \A l \in h.loads : l.aborted
=============================================================================
