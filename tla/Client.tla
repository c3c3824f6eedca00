-------------------------------- MODULE Client --------------------------------
(***************************************************************************)
(* Who is signed in, as the tabs of one browser see it: SessionProvider,   *)
(* ProtectedRoute, Login, AppLayout, the marker in localStorage and what   *)
(* useApiResource does with a 401.                                         *)
(*                                                                         *)
(* A tab runs a document, which keeps what it knows in React state. The    *)
(* marker is shared between the tabs, none of which listens to its         *)
(* changes, and so is the session cookie. Sign-ins are numbered, and a     *)
(* number stands for the account that signed in then: the server has the   *)
(* session, or none, that the cookie names.                                *)
(*                                                                         *)
(* Any request may fail, for want of a network or of a backend.            *)
(* Requests that a cleaned-up effect aborted are ignored when they are     *)
(* answered, so only the current one of a tab is kept.                     *)
(***************************************************************************)
EXTENDS Naturals

CONSTANTS
    Tabs,
    MaxSignIns,   \* bound on sign-ins
    MaxVisits     \* bound on what the user opens and follows

ASSUME BoundsAssumption == MaxSignIns \in Nat /\ MaxVisits \in Nat

VARIABLES
    signIns,   \* how many sign-ins there have been
    session,   \* the one the server still honours, 0 for none
    marker,    \* the sign-in that localStorage remembers, 0 for none or too old
    tab,       \* what each tab's document knows and waits for
    visits     \* how often the user opened or followed something

vars == <<signIns, session, marker, tab, visits>>

\* "who" and "checking" are SessionProvider's state; "check" is its request to
\* /auth/me and "told" what the server said, 0 for a 401; "logout" and "load"
\* are the requests of AppLayout and useApiResource; "bound" is where
\* window.location has been sent. "since" is the first sign-in that was or came
\* alive after the document had started, and "within" says that it was.
Tab ==
    [page: {"closed", "public", "login", "app"}, who: 0..MaxSignIns,
     checking: BOOLEAN,
     check: {"none", "asked", "answered", "settled", "unknown"},
     told: 0..MaxSignIns, logout: {"no", "asked", "answered", "failed"},
     load: {"none", "asked", "refused"},
     bound: {"nowhere", "keycloak", "home", "here"},
     since: 1..MaxSignIns + 1, within: BOOLEAN]

Closed ==
    [page |-> "closed", who |-> 0, checking |-> FALSE, check |-> "none",
     told |-> 0, logout |-> "no", load |-> "none", bound |-> "nowhere",
     since |-> 1, within |-> FALSE]

Init ==
    /\ signIns = 0 /\ session = 0
    /\ marker = 0
    /\ tab = [t \in Tabs |-> Closed]
    /\ visits = 0

-----------------------------------------------------------------------------
(* What React renders.                                                     *)

\* ProtectedRoute lets the page through, and with it AppLayout.
Mounted(r) == r.page = "app" /\ ~r.checking /\ r.who # 0

\* ProtectedRoute sends away who is not known, Login who is.
Routed(r) ==
    IF r.page = "app" /\ ~r.checking /\ r.who = 0 THEN [r EXCEPT !.page = "login"]
    ELSE IF r.page = "login" /\ r.who # 0 THEN [r EXCEPT !.page = "app"]
    ELSE r

\* useApiResource asks when its page is mounted and aborts when it goes.
Loading(before, r) ==
    IF ~Mounted(r) THEN [r EXCEPT !.load = "none"]
    ELSE IF ~Mounted(before) THEN [r EXCEPT !.load = "asked"]
    ELSE r

Render(t, r) == tab' = [tab EXCEPT ![t] = Loading(tab[t], Routed(r))]

-----------------------------------------------------------------------------
(* The marker.                                                             *)

\* readSessionMarker; a marker that is too old is none for every reader.
Remembered == marker

WriteMarker(n) == marker' = n

\* Mutant: the marker left alone.
Keep == UNCHANGED marker

ClearMarker == marker' = 0

-----------------------------------------------------------------------------
(* Documents.                                                              *)

\* A document starts: what it renders first is up to the marker, and
\* SessionProvider asks the server. The state it takes the place of is gone,
\* with every request of it.
Started(p, live, known) ==
    [Closed EXCEPT
        !.page = p, !.who = Remembered, !.checking = (Remembered = 0),
        !.check = "asked",
        !.since = IF live # 0 THEN live ELSE known + 1, !.within = (live # 0)]

Start(t, p, live, known) ==
    /\ UNCHANGED marker
    /\ tab' = [tab EXCEPT ![t] = Loading(Closed, Routed(Started(p, live, known)))]

Visit == visits < MaxVisits /\ visits' = visits + 1

\* The service worker has the shell, with or without a network.
Open(t, p) ==
    /\ Visit
    /\ Start(t, p, session, signIns)
    /\ UNCHANGED <<signIns, session>>

\* Sign-in is a full-page round trip, from the anchor of the login page to
\* the page it came from.
SignIn(t) ==
    /\ tab[t].page = "login"
    /\ signIns < MaxSignIns
    /\ signIns' = signIns + 1
    /\ session' = signIns'
    /\ Start(t, "app", session', signIns')
    /\ UNCHANGED visits

\* window.location takes effect; until then the old document goes on running.
\* Keycloak, if it can be reached, comes back to the landing page.
Arrive(t) ==
    LET destination == tab[t].bound IN
    /\ destination # "nowhere"
    /\ \/ Start(t, IF destination = "here" THEN tab[t].page ELSE "public",
                session, signIns)
       \/ destination = "keycloak" /\ tab' = [tab EXCEPT ![t] = Closed] /\ UNCHANGED marker
    /\ UNCHANGED <<signIns, session, visits>>

-----------------------------------------------------------------------------
(* SessionProvider's check.                                                *)

AnswerCheck(t) ==
    /\ tab[t].check = "asked"
    /\ tab' = [tab EXCEPT ![t].check = "answered", ![t].told = session]
    /\ UNCHANGED <<signIns, session, marker, visits>>

\* Mutant: the end of the check forgotten.
ConfirmedChecking(r) == [r EXCEPT !.who = r.told, !.told = 0, !.check = "settled"]

Confirmed(r) ==
    [r EXCEPT !.who = r.told, !.told = 0, !.checking = FALSE, !.check = "settled"]

Confirm(t) ==
    /\ tab[t].check = "answered" /\ tab[t].told # 0
    /\ WriteMarker(tab[t].told)
    /\ Render(t, Confirmed(tab[t]))
    /\ UNCHANGED <<signIns, session, visits>>

\* Mutant: only the marker cleared.
RefusedOnDisk(r) == [r EXCEPT !.checking = FALSE, !.check = "settled"]

Refused(r) == [r EXCEPT !.who = 0, !.checking = FALSE, !.check = "settled"]

Refuse(t) ==
    /\ tab[t].check = "answered" /\ tab[t].told = 0
    /\ ClearMarker
    /\ Render(t, Refused(tab[t]))
    /\ UNCHANGED <<signIns, session, visits>>

\* Mutant: every failure taken for a 401.
Disbelieved(r) == [r EXCEPT !.who = 0, !.checking = FALSE, !.check = "unknown"]

\* Any other failure says nothing about the session.
Believed(r) == [r EXCEPT !.checking = FALSE, !.check = "unknown"]

FailCheck(t) ==
    /\ tab[t].check = "asked"
    /\ Render(t, Believed(tab[t]))
    /\ UNCHANGED <<signIns, session, marker, visits>>

-----------------------------------------------------------------------------
(* AppLayout.handleLogout.                                                 *)

Logout(t) ==
    /\ Mounted(tab[t]) /\ tab[t].logout = "no"
    /\ tab' = [tab EXCEPT ![t].logout = "asked"]
    /\ UNCHANGED <<signIns, session, marker, visits>>

\* Whatever session the cookie names by now ends, unless the request is lost.
\* The answer may be lost as well, or be an error because the logout URL could
\* not be built.
AnswerLogout(t) ==
    /\ tab[t].logout = "asked"
    /\ \E answer \in {"answered", "failed"} :
          /\ tab' = [tab EXCEPT ![t].logout = answer]
          /\ session' = 0 \/ (answer = "failed" /\ session' = session)
    /\ UNCHANGED <<signIns, marker, visits>>

\* forget, in the same turn as the assignment of window.location.
Forget(t) ==
    /\ tab[t].logout \in {"answered", "failed"}
    /\ ClearMarker
    /\ Render(t, [tab[t] EXCEPT
            !.who = 0, !.logout = "no",
            !.bound = IF tab[t].logout = "answered" THEN "keycloak" ELSE "home"])
    /\ UNCHANGED <<signIns, session, visits>>

-----------------------------------------------------------------------------
(* useApiResource, on the pages behind the guard.                          *)

\* The next page: the request of the last one is aborted, and it may have one
\* of its own.
Follow(t) ==
    /\ Visit
    /\ Mounted(tab[t])
    /\ \E load \in {"none", "asked"} : tab' = [tab EXCEPT ![t].load = load]
    /\ UNCHANGED <<signIns, session, marker>>

\* Data, or an error message.
Show(t) ==
    /\ tab[t].load = "asked"
    /\ tab' = [tab EXCEPT ![t].load = "none"]
    /\ UNCHANGED <<signIns, session, marker, visits>>

RefuseLoad(t) ==
    /\ tab[t].load = "asked" /\ session = 0
    /\ tab' = [tab EXCEPT ![t].load = "refused"]
    /\ UNCHANGED <<signIns, session, marker, visits>>

\* The marker goes and the page is loaded again, through the guard.
TurnBack(t) ==
    /\ tab[t].load = "refused"
    /\ ClearMarker
    /\ tab' = [tab EXCEPT ![t].load = "none", ![t].bound = "here"]
    /\ UNCHANGED <<signIns, session, visits>>

-----------------------------------------------------------------------------
(* The rest of the world.                                                  *)

\* The session expires, or its account is closed.
Revoke ==
    /\ session # 0
    /\ session' = 0
    /\ UNCHANGED <<signIns, marker, tab, visits>>

\* The marker passes its expiresAt.
Age ==
    /\ marker # 0
    /\ marker' = 0
    /\ UNCHANGED <<signIns, session, tab, visits>>

Act(t) ==
    \/ \E p \in {"login", "app"} : Open(t, p)
    \/ SignIn(t) \/ Logout(t) \/ Follow(t)

Settle(t) ==
    \/ AnswerCheck(t) \/ FailCheck(t) \/ Confirm(t) \/ Refuse(t)
    \/ AnswerLogout(t) \/ Forget(t)
    \/ Show(t) \/ RefuseLoad(t) \/ TurnBack(t)
    \/ Arrive(t)

Next ==
    \/ \E t \in Tabs : Act(t) \/ Settle(t)
    \/ Revoke \/ Age

Spec == Init /\ [][Next]_vars

\* A tab that waits gets on with something it waits for: requests are answered
\* or fail, the event loop runs their callbacks, and the browser goes where it
\* was sent. Users need not do anything.
Fairness == \A t \in Tabs : WF_vars(Settle(t))

FairSpec == Spec /\ Fairness

-----------------------------------------------------------------------------
(* Properties.                                                             *)

\* Every variable keeps its shape; nobody is shown while checking, nor anybody
\* who never signed in.
TypeOK ==
    /\ signIns \in 0..MaxSignIns /\ session \in 0..signIns
    /\ marker \in 0..signIns
    /\ visits \in 0..MaxVisits
    /\ tab \in [Tabs -> Tab]
    /\ \A t \in Tabs :
          /\ tab[t].who <= signIns
          /\ tab[t].checking => tab[t].who = 0

\* The marker "is a convenience, never an authority": a document that shows a
\* session which was over before it started has yet to hear of it, or could
\* not reach the server, whatever other tabs wrote to the marker meanwhile.
LiesAreShort ==
    \A t \in Tabs :
        tab[t].check = "settled" /\ tab[t].who # 0 => tab[t].who >= tab[t].since

\* A tab that opened in the session it shows is its user's to leave.
AtHome(t) ==
    /\ Mounted(tab[t]) /\ tab[t].who = session /\ tab[t].since = session /\ tab[t].within
    /\ tab[t].logout = "no" /\ tab[t].bound = "nowhere"

StaysHome(t) ==
    AtHome(t) /\ visits' = visits =>
        Mounted(tab'[t]) /\ tab'[t].bound = "nowhere"

\* While the session lasts, no answer and no failure of the network turns the
\* user away from such a tab, nor does any other tab.
OnlyUsersLeave == [][\A t \in Tabs : StaysHome(t)]_vars

Waiting(r) ==
    r.checking \/ r.load # "none" \/ r.logout # "no" \/ r.bound # "nowhere"

\* No tab waits for good: checks, loads and logouts end in every order of
\* their answers, and a 401 does not lead round in circles between the guard
\* and the page behind it.
TabsComeToRest == \A t \in Tabs : Waiting(tab[t]) ~> ~Waiting(tab[t])

=============================================================================
