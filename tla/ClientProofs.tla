----------------------------- MODULE ClientProofs -----------------------------
(***************************************************************************)
(* Proofs about Client, for any tabs and any number of sign-ins: the shape *)
(* of the state, that a marker which lies is found out, and that nobody    *)
(* is turned away from a session that lasts.                               *)
(*                                                                         *)
(* Everything rests on what a document may know of the sessions there have *)
(* been, TabSound: an argument about one tab, under the number of sign-ins *)
(* n and the session s that is honoured.                                   *)
(***************************************************************************)
EXTENDS Client, TLAPS

TabSound(r, n, s) ==
    /\ r \in Tab /\ r.who <= n /\ r.told <= n
    /\ r.checking => r.who = 0
    /\ r.since <= n + 1
    /\ s # 0 => r.since <= s
    /\ r.within => r.since <= n
    /\ r.check = "answered" /\ r.told # 0 => r.told >= r.since
    /\ r.check = "settled" /\ r.who # 0 => r.who >= r.since
    /\ r.within /\ r.since = s =>
          /\ r.check = "answered" => r.told = s
          /\ r.load # "refused"

Counted ==
    /\ signIns \in 0..MaxSignIns /\ session \in 0..signIns
    /\ marker \in 0..signIns /\ visits \in 0..MaxVisits

IInv ==
    /\ Counted
    /\ tab \in [Tabs -> Tab]
    /\ \A t \in Tabs : TabSound(tab[t], signIns, session)

-----------------------------------------------------------------------------
(* One document.                                                           *)

\* Rendering redirects and asks, and changes nothing else of what is known.
LEMMA Painted ==
    ASSUME NEW b, NEW r, NEW n \in Nat, NEW s \in Nat, TabSound(r, n, s)
    PROVE  TabSound(Loading(b, Routed(r)), n, s)
<1>1. TabSound(Routed(r), n, s)
  BY DEF TabSound, Tab, Routed
<1>2. ASSUME NEW q, TabSound(q, n, s) PROVE TabSound(Loading(b, q), n, s)
  <2>1. Loading(b, q) \in {q, [q EXCEPT !.load = "none"], [q EXCEPT !.load = "asked"]}
    BY DEF Loading
  <2>2. QED
    BY <1>2, <2>1 DEF TabSound, Tab
<1>3. QED
  BY <1>1, <1>2

\* A document that starts knows what the marker says, and nothing has been
\* answered yet.
LEMMA Starting ==
    ASSUME NEW n \in 0..MaxSignIns, NEW s \in 0..n, marker \in 0..n,
           NEW p \in {"public", "login", "app", "closed"}
    PROVE  TabSound(Loading(Closed, Routed(Started(p, s, n))), n, s)
<1>1. /\ MaxSignIns \in Nat /\ n \in Nat /\ s \in Nat /\ marker \in Nat
      /\ marker \in 0..MaxSignIns /\ n + 1 \in 1..MaxSignIns + 1
      /\ s # 0 => s \in 1..MaxSignIns + 1
  BY BoundsAssumption
<1>2. \E c, w \in BOOLEAN :
        /\ c => marker = 0
        /\ w => s # 0
        /\ Started(p, s, n) =
              [Closed EXCEPT !.page = p, !.who = marker, !.checking = c,
                             !.check = "asked",
                             !.since = IF s # 0 THEN s ELSE n + 1, !.within = w]
  <2>1. (marker = 0) \in BOOLEAN /\ (s # 0) \in BOOLEAN
    OBVIOUS
  <2>2. QED
    BY <2>1, Zenon DEF Started, Remembered
<1>3. PICK c, w \in BOOLEAN :
        /\ c => marker = 0
        /\ w => s # 0
        /\ Started(p, s, n) =
              [Closed EXCEPT !.page = p, !.who = marker, !.checking = c,
                             !.check = "asked",
                             !.since = IF s # 0 THEN s ELSE n + 1, !.within = w]
  BY <1>2
<1> DEFINE r == Started(p, s, n)
<1>4. r \in Tab
  <2> DEFINE since == IF s # 0 THEN s ELSE n + 1
  <2>1. since \in 1..MaxSignIns + 1
    BY <1>1
  <2>2. r = [Closed EXCEPT !.page = p, !.who = marker, !.checking = c,
                           !.check = "asked", !.since = since, !.within = w]
    BY <1>3
  <2> HIDE DEF since, r
  <2>3. r = [page |-> p, who |-> marker, checking |-> c, check |-> "asked",
             told |-> 0, logout |-> "no", load |-> "none",
             bound |-> "nowhere", since |-> since, within |-> w]
    BY <2>2 DEF Closed
  <2>4. QED
    BY <1>1, <2>1, <2>3 DEF Tab
<1>5. /\ r.who = marker /\ r.checking = c /\ r.check = "asked" /\ r.told = 0
      /\ r.load = "none" /\ r.within = w
      /\ r.since = IF s # 0 THEN s ELSE n + 1
  BY <1>3 DEF Closed
<1> HIDE DEF r
<1>6. TabSound(r, n, s)
  BY <1>1, <1>3, <1>4, <1>5 DEF TabSound
<1>7. QED
  BY <1>1, <1>6, Painted DEF r

\* The answer to the check is the session there is by then.
LEMMA Told ==
    ASSUME NEW n \in 0..MaxSignIns, NEW s \in 0..n, NEW r, TabSound(r, n, s)
    PROVE  TabSound([r EXCEPT !.check = "answered", !.told = s], n, s)
<1>1. MaxSignIns \in Nat /\ n \in Nat /\ s \in 0..MaxSignIns
  BY BoundsAssumption
<1> DEFINE q == [r EXCEPT !.check = "answered", !.told = s]
<1>2. q \in Tab
  BY <1>1 DEF TabSound, Tab
<1>3. /\ q.check = "answered" /\ q.told = s /\ q.who = r.who
      /\ q.checking = r.checking /\ q.since = r.since /\ q.within = r.within
      /\ q.load = r.load
  BY DEF TabSound, Tab
<1> HIDE DEF q
<1>4. TabSound(q, n, s)
  BY <1>1, <1>2, <1>3 DEF TabSound
<1>5. QED
  BY <1>4 DEF q

\* A document that heard of a session shows one it was told of.
LEMMA Heard ==
    ASSUME NEW n \in Nat, NEW s \in Nat, NEW r, TabSound(r, n, s),
           r.check = "answered"
    PROVE  TabSound(Confirmed(r), n, s) /\ TabSound(Refused(r), n, s)
<1> DEFINE Settled(w, told) == [r EXCEPT !.who = w, !.told = told,
                                   !.checking = FALSE, !.check = "settled"]
<1>1. ASSUME NEW w \in 0..MaxSignIns, NEW told \in 0..MaxSignIns,
             w <= n, told <= n, w # 0 => w >= r.since
      PROVE  TabSound(Settled(w, told), n, s)
  <2> DEFINE q == Settled(w, told)
  <2>1. q \in Tab
    BY <1>1, BoundsAssumption DEF TabSound, Tab
  <2>2. /\ q.check = "settled" /\ q.told = told /\ q.who = w
        /\ ~q.checking /\ q.since = r.since /\ q.within = r.within
        /\ q.load = r.load
    BY DEF TabSound, Tab
  <2> HIDE DEF q
  <2>3. TabSound(q, n, s)
    BY <1>1, <2>1, <2>2 DEF TabSound
  <2>4. QED
    BY <2>3 DEF q
<1>2. /\ 0 \in 0..MaxSignIns /\ 0 <= n /\ (0 # 0 => 0 >= r.since)
      /\ r.told \in 0..MaxSignIns /\ r.told <= n
      /\ r.told # 0 => r.told >= r.since
  BY BoundsAssumption DEF TabSound, Tab
<1>3. Confirmed(r) = Settled(r.told, 0)
  BY DEF Confirmed, TabSound, Tab
<1>4. Refused(r) = Settled(0, r.told)
  BY DEF Refused, TabSound, Tab
<1> HIDE DEF Settled
<1>5. TabSound(Settled(r.told, 0), n, s) /\ TabSound(Settled(0, r.told), n, s)
  BY <1>1, <1>2
<1>6. QED
  BY <1>3, <1>4, <1>5

\* Nor does a document learn anything by leaving, or by asking to leave.
LEMMA Leaving ==
    ASSUME NEW n \in Nat, NEW s \in Nat, NEW r, TabSound(r, n, s),
           NEW b \in {"nowhere", "keycloak", "home", "here"}
    PROVE  TabSound([r EXCEPT !.who = 0, !.logout = "no", !.bound = b], n, s)
<1> DEFINE q == [r EXCEPT !.who = 0, !.logout = "no", !.bound = b]
<1>1. q \in Tab
  <2>1. [r EXCEPT !.who = 0] \in Tab
    BY BoundsAssumption DEF TabSound, Tab
  <2>2. \A x \in Tab : [x EXCEPT !.logout = "no"] \in Tab
    BY DEF Tab
  <2>3. \A x \in Tab : [x EXCEPT !.bound = b] \in Tab
    BY DEF Tab
  <2>4. q = [[[r EXCEPT !.who = 0] EXCEPT !.logout = "no"] EXCEPT !.bound = b]
    BY DEF TabSound, Tab
  <2>5. QED
    BY <2>1, <2>2, <2>3, <2>4
<1>2. /\ q.check = r.check /\ q.told = r.told /\ q.who = 0
      /\ q.checking = r.checking /\ q.since = r.since /\ q.within = r.within
      /\ q.load = r.load
  BY DEF TabSound, Tab
<1> HIDE DEF q
<1>3. TabSound(q, n, s)
  BY <1>1, <1>2 DEF TabSound
<1>4. QED
  BY <1>3 DEF q

\* The end of the session outdates no tab.
LEMMA Ended ==
    ASSUME NEW n \in Nat, NEW s \in Nat, NEW r, TabSound(r, n, s)
    PROVE  TabSound(r, n, 0)
BY DEF TabSound, Tab

\* A new session is newer than every document that is open.
LEMMA Renewed ==
    ASSUME NEW n \in Nat, NEW s \in Nat, NEW r, TabSound(r, n, s)
    PROVE  TabSound(r, n + 1, n + 1)
BY BoundsAssumption DEF TabSound, Tab

LEMMA ClosedIsSound ==
    ASSUME NEW n \in Nat, NEW s \in Nat
    PROVE  TabSound(Closed, n, s)
BY BoundsAssumption DEF TabSound, Tab, Closed

-----------------------------------------------------------------------------
(* Every step.                                                             *)

LEMMA Beginning == Init => IInv
BY BoundsAssumption, ClosedIsSound DEF Init, IInv, Counted, TabSound

\* A step that writes one tab has to answer for that tab, and for what it does
\* to the sessions the other tabs were told of.
LEMMA OneTab ==
    ASSUME IInv, Counted', NEW t \in Tabs, NEW r,
           tab' = [tab EXCEPT ![t] = r],
           TabSound(r, signIns', session'),
           \A u \in Tabs : TabSound(tab[u], signIns', session')
    PROVE  IInv'
<1>1. r \in Tab
  BY DEF TabSound
<1>2. tab' \in [Tabs -> Tab]
  BY <1>1 DEF IInv
<1>3. ASSUME NEW u \in Tabs PROVE TabSound(tab'[u], signIns', session')
  <2>1. tab'[u] = IF u = t THEN r ELSE tab[u]
    BY DEF IInv
  <2>2. QED
    BY <2>1
<1>4. QED
  BY <1>2, <1>3 DEF IInv

\* So has a document that takes the place of another.
LEMMA Reloading ==
    ASSUME IInv, Counted', NEW t \in Tabs,
           NEW p \in {"public", "login", "app", "closed"},
           Start(t, p, session', signIns'),
           \A u \in Tabs : TabSound(tab[u], signIns', session')
    PROVE  IInv'
<1>1. /\ signIns' \in 0..MaxSignIns /\ session' \in 0..signIns'
      /\ marker \in 0..signIns'
  BY DEF Counted, Start
<1>2. TabSound(Loading(Closed, Routed(Started(p, session', signIns'))),
               signIns', session')
  BY <1>1, Starting
<1>3. QED
  BY <1>2, OneTab DEF Start

LEMMA Kept == IInv /\ [Next]_vars => IInv'
<1> SUFFICES ASSUME IInv, [Next]_vars PROVE IInv'
  OBVIOUS
<1>1. /\ MaxSignIns \in Nat /\ MaxVisits \in Nat
      /\ signIns \in Nat /\ session \in Nat /\ marker \in Nat /\ visits \in Nat
      /\ signIns <= MaxSignIns /\ session <= signIns /\ marker <= signIns
      /\ visits <= MaxVisits
  BY BoundsAssumption DEF IInv, Counted
<1>2. \A u \in Tabs : TabSound(tab[u], signIns, session)
  BY DEF IInv
<1>3. \A u \in Tabs : TabSound(tab[u], signIns, 0)
  BY <1>1, <1>2, Ended
<1>4. \A u \in Tabs : tab[u] \in Tab
  BY DEF IInv
<1>5. Counted
  BY DEF IInv
<1>6. ASSUME NEW t \in Tabs, NEW p \in {"login", "app"}, Open(t, p) PROVE IInv'
  <2>1. Counted'
    BY <1>1, <1>5, <1>6 DEF Open, Visit, Start, Counted
  <2>2. Start(t, p, session', signIns') /\ session' = session /\ signIns' = signIns
    BY <1>6 DEF Open
  <2>3. QED
    BY <1>2, <2>1, <2>2, Reloading
<1>7. ASSUME NEW t \in Tabs, SignIn(t) PROVE IInv'
  <2>1. Counted'
    BY <1>1, <1>5, <1>7 DEF SignIn, Start, Counted
  <2>2. Start(t, "app", session', signIns')
    BY <1>7 DEF SignIn
  <2>3. \A u \in Tabs : TabSound(tab[u], signIns', session')
    BY <1>1, <1>2, <1>7, Renewed DEF SignIn
  <2>4. QED
    BY <2>1, <2>2, <2>3, Reloading
<1>8. ASSUME NEW t \in Tabs, Arrive(t) PROVE IInv'
  <2>1. Counted' /\ session' = session /\ signIns' = signIns
    BY <1>5, <1>8 DEF Arrive, Start, Counted
  <2>2. CASE tab' = [tab EXCEPT ![t] = Closed]
    BY <1>1, <1>2, <2>1, <2>2, ClosedIsSound, OneTab
  <2>3. CASE \E p \in {"public", "login", "app", "closed"} :
                 Start(t, p, session, signIns)
    BY <1>2, <2>1, <2>3, Reloading
  <2>4. tab[t].page \in {"public", "login", "app", "closed"}
    BY <1>4 DEF Tab
  <2>5. QED
    BY <1>8, <2>2, <2>3, <2>4 DEF Arrive
<1>9. ASSUME NEW t \in Tabs, AnswerCheck(t) PROVE IInv'
  <2> DEFINE r == [tab[t] EXCEPT !.check = "answered", !.told = session]
  <2>1. tab' = [tab EXCEPT ![t] = r] /\ Counted'
        /\ session' = session /\ signIns' = signIns
    BY <1>5, <1>9 DEF AnswerCheck, Counted
  <2>2. TabSound(r, signIns, session)
    BY <1>2, <1>5, Told DEF Counted
  <2>3. QED
    BY <1>2, <2>1, <2>2, OneTab
<1>10. ASSUME NEW t \in Tabs, FailCheck(t) PROVE IInv'
  <2> DEFINE r == Believed(tab[t])
  <2>1. tab' = [tab EXCEPT ![t] = Loading(tab[t], Routed(r))] /\ Counted'
        /\ session' = session /\ signIns' = signIns
    BY <1>5, <1>10 DEF FailCheck, Render, Counted
  <2>2. TabSound(r, signIns, session)
    BY <1>1, <1>2 DEF Believed, TabSound, Tab
  <2>3. TabSound(Loading(tab[t], Routed(r)), signIns, session)
    BY <1>1, <2>2, Painted
  <2>4. QED
    BY <1>2, <2>1, <2>3, OneTab
<1>11. ASSUME NEW t \in Tabs, Confirm(t) PROVE IInv'
  <2> DEFINE r == Confirmed(tab[t])
  <2>1. tab[t].told \in 0..signIns
    BY <1>1, <1>2 DEF TabSound, Tab
  <2>2. tab' = [tab EXCEPT ![t] = Loading(tab[t], Routed(r))] /\ Counted'
        /\ session' = session /\ signIns' = signIns
    BY <1>5, <1>11, <2>1 DEF Confirm, Render, WriteMarker, Counted
  <2>3. TabSound(r, signIns, session)
    BY <1>1, <1>2, <1>11, Heard DEF Confirm
  <2>4. TabSound(Loading(tab[t], Routed(r)), signIns, session)
    BY <1>1, <2>3, Painted
  <2>5. QED
    BY <1>2, <2>2, <2>4, OneTab
<1>12. ASSUME NEW t \in Tabs, Refuse(t) PROVE IInv'
  <2> DEFINE r == Refused(tab[t])
  <2>1. tab' = [tab EXCEPT ![t] = Loading(tab[t], Routed(r))] /\ Counted'
        /\ session' = session /\ signIns' = signIns
    BY <1>1, <1>5, <1>12 DEF Refuse, Render, ClearMarker, Counted
  <2>2. TabSound(r, signIns, session)
    BY <1>1, <1>2, <1>12, Heard DEF Refuse
  <2>3. TabSound(Loading(tab[t], Routed(r)), signIns, session)
    BY <1>1, <2>2, Painted
  <2>4. QED
    BY <1>2, <2>1, <2>3, OneTab
<1>13. ASSUME NEW t \in Tabs, Logout(t) PROVE IInv'
  <2> DEFINE r == [tab[t] EXCEPT !.logout = "asked"]
  <2>1. tab' = [tab EXCEPT ![t] = r] /\ Counted'
        /\ session' = session /\ signIns' = signIns
    BY <1>5, <1>13 DEF Logout, Counted
  <2>2. TabSound(r, signIns, session)
    BY <1>1, <1>2 DEF TabSound, Tab
  <2>3. QED
    BY <1>2, <2>1, <2>2, OneTab
<1>14. ASSUME NEW t \in Tabs, AnswerLogout(t) PROVE IInv'
  <2>1. PICK answer \in {"answered", "failed"} :
            /\ tab' = [tab EXCEPT ![t].logout = answer]
            /\ session' = 0 \/ session' = session
    BY <1>14 DEF AnswerLogout
  <2> DEFINE r == [tab[t] EXCEPT !.logout = answer]
  <2>2. Counted' /\ signIns' = signIns
    BY <1>1, <1>5, <1>14, <2>1 DEF AnswerLogout, Counted
  <2>3. \A u \in Tabs : TabSound(tab[u], signIns', session')
    BY <1>2, <1>3, <2>1, <2>2
  <2>4. tab' = [tab EXCEPT ![t] = r]
    BY <2>1
  <2>5. TabSound(r, signIns', session')
    BY <2>3 DEF TabSound, Tab
  <2>6. QED
    BY <2>2, <2>3, <2>4, <2>5, OneTab
<1>15. ASSUME NEW t \in Tabs, Forget(t) PROVE IInv'
  <2>1. PICK b \in {"keycloak", "home"} :
            Render(t, [tab[t] EXCEPT !.who = 0, !.logout = "no", !.bound = b])
    BY <1>15 DEF Forget
  <2> DEFINE r == [tab[t] EXCEPT !.who = 0, !.logout = "no", !.bound = b]
  <2>2. tab' = [tab EXCEPT ![t] = Loading(tab[t], Routed(r))] /\ Counted'
        /\ session' = session /\ signIns' = signIns
    <3>1. tab' = [tab EXCEPT ![t] = Loading(tab[t], Routed(r))]
      BY <2>1 DEF Render
    <3>2. Counted' /\ session' = session /\ signIns' = signIns
      BY <1>1, <1>5, <1>15 DEF Forget, ClearMarker, Counted
    <3>3. QED
      BY <3>1, <3>2
  <2>3. TabSound(r, signIns, session)
    BY <1>1, <1>2, Leaving
  <2>4. TabSound(Loading(tab[t], Routed(r)), signIns, session)
    BY <1>1, <2>3, Painted
  <2>5. QED
    BY <1>2, <2>2, <2>4, OneTab
<1>16. ASSUME NEW t \in Tabs, Follow(t) \/ Show(t) PROVE IInv'
  <2>1. PICK load \in {"none", "asked"} : tab' = [tab EXCEPT ![t].load = load]
    BY <1>16 DEF Follow, Show
  <2> DEFINE r == [tab[t] EXCEPT !.load = load]
  <2>2. tab' = [tab EXCEPT ![t] = r] /\ Counted'
        /\ session' = session /\ signIns' = signIns
    BY <1>1, <1>5, <1>16, <2>1 DEF Follow, Show, Visit, Counted
  <2>3. TabSound(r, signIns, session)
    BY <1>1, <1>2 DEF TabSound, Tab
  <2>4. QED
    BY <1>2, <2>2, <2>3, OneTab
<1>17. ASSUME NEW t \in Tabs, RefuseLoad(t) PROVE IInv'
  <2> DEFINE r == [tab[t] EXCEPT !.load = "refused"]
  <2>1. tab' = [tab EXCEPT ![t] = r] /\ Counted' /\ session = 0
        /\ session' = session /\ signIns' = signIns
    BY <1>5, <1>17 DEF RefuseLoad, Counted
  <2>2. TabSound(r, signIns, session)
    BY <1>1, <1>2, <2>1 DEF TabSound, Tab
  <2>3. QED
    BY <1>2, <2>1, <2>2, OneTab
<1>18. ASSUME NEW t \in Tabs, TurnBack(t) PROVE IInv'
  <2> DEFINE r == [tab[t] EXCEPT !.load = "none", !.bound = "here"]
  <2>1. tab' = [tab EXCEPT ![t] = r] /\ Counted'
        /\ session' = session /\ signIns' = signIns
    <3>1. tab' = [tab EXCEPT ![t] = r]
      BY <1>4, <1>18 DEF TurnBack, IInv
    <3>2. Counted' /\ session' = session /\ signIns' = signIns
      BY <1>1, <1>5, <1>18 DEF TurnBack, ClearMarker, Counted
    <3>3. QED
      BY <3>1, <3>2
  <2>2. TabSound(r, signIns, session)
    BY <1>1, <1>2 DEF TabSound, Tab
  <2>3. QED
    BY <1>2, <2>1, <2>2, OneTab
<1>19. CASE Revoke
  BY <1>1, <1>3, <1>5, <1>19 DEF Revoke, IInv, Counted
<1>20. CASE Age
  BY <1>1, <1>5, <1>20 DEF Age, IInv, Counted
<1>21. CASE UNCHANGED vars
  BY <1>21 DEF vars, IInv, Counted
<1>22. QED
  BY <1>6, <1>7, <1>8, <1>9, <1>10, <1>11, <1>12, <1>13, <1>14, <1>15,
     <1>16, <1>17, <1>18, <1>19, <1>20, <1>21 DEF Next, Act, Settle

\* What is known of the tabs and of the sessions is an invariant.
THEOREM Inductive == Spec => []IInv
BY Beginning, Kept, PTL DEF Spec

-----------------------------------------------------------------------------
(* What follows.                                                           *)

\* Every variable keeps its shape, and nobody is shown while SessionProvider
\* still asks who is there.
THEOREM TypeCorrect == Spec => []TypeOK
<1>1. IInv => TypeOK
  BY DEF IInv, Counted, TabSound, TypeOK
<1>2. QED
  BY <1>1, Inductive, PTL

\* The marker of localStorage is a convenience: in any number of tabs, one that
\* shows a session which was over when its document started has not heard the
\* server's answer to its check.
THEOREM LiesFoundOut == Spec => []LiesAreShort
<1>1. IInv => LiesAreShort
  BY DEF IInv, TabSound, LiesAreShort
<1>2. QED
  BY <1>1, Inductive, PTL

-----------------------------------------------------------------------------
(* Who stays.                                                              *)

\* Rendering a page that may be seen leaves it where it is.
LEMMA Undisturbed ==
    ASSUME NEW b, NEW r \in Tab, Mounted(r)
    PROVE  /\ Mounted(Loading(b, Routed(r)))
           /\ Loading(b, Routed(r)).bound = r.bound
<1>1. Routed(r) = r
  BY DEF Routed, Mounted
<1>2. Loading(b, r) \in {r, [r EXCEPT !.load = "none"], [r EXCEPT !.load = "asked"]}
  BY DEF Loading
<1>3. QED
  BY <1>1, <1>2 DEF Mounted, Tab

LEMMA StepKeepsHome ==
    ASSUME IInv, [Next]_vars, NEW t \in Tabs
    PROVE  StaysHome(t)
<1> SUFFICES ASSUME AtHome(t), visits' = visits
             PROVE  Mounted(tab'[t]) /\ tab'[t].bound = "nowhere"
  BY DEF StaysHome
<1>1. /\ tab \in [Tabs -> Tab] /\ tab[t] \in Tab
      /\ TabSound(tab[t], signIns, session) /\ visits \in Nat
  BY BoundsAssumption DEF IInv, Counted
<1>2. /\ tab[t].page = "app" /\ ~tab[t].checking /\ tab[t].who # 0
      /\ tab[t].who = session /\ tab[t].logout = "no"
      /\ tab[t].bound = "nowhere" /\ tab[t].load # "refused"
      /\ tab[t].check = "answered" => tab[t].told = session
  BY <1>1 DEF AtHome, Mounted, TabSound
<1>3. Mounted(tab[t])
  BY <1>2 DEF Mounted
<1>4. CASE tab'[t] = tab[t]
  BY <1>2, <1>3, <1>4
<1>5. CASE \E r \in Tab : Mounted(r) /\ r.bound = "nowhere" /\ Render(t, r)
  BY <1>1, <1>5, Undisturbed DEF Render
<1>6. ASSUME NEW u \in Tabs, Act(u) \/ Settle(u), u # t PROVE tab'[t] = tab[t]
  BY <1>1, <1>6 DEF Act, Settle, Open, SignIn, Logout, Follow, Start, Render,
     AnswerCheck, FailCheck, Confirm, Refuse, AnswerLogout, Forget, Show,
     RefuseLoad, TurnBack, Arrive
<1>7. CASE Confirm(t)
  <2>1. Confirmed(tab[t]) \in Tab /\ Mounted(Confirmed(tab[t]))
        /\ Confirmed(tab[t]).bound = "nowhere"
    <3>1. signIns \in Nat /\ session \in Nat /\ tab[t].check = "answered"
      BY <1>7, BoundsAssumption DEF IInv, Counted, Confirm
    <3>2. Confirmed(tab[t]) \in Tab
      BY <1>1, <3>1, Heard DEF TabSound
    <3>3. QED
      BY <1>1, <1>2, <3>1, <3>2 DEF Confirmed, Mounted, Tab
  <2>2. QED
    BY <1>5, <1>7, <2>1 DEF Confirm
<1>8. CASE FailCheck(t)
  <2>1. Believed(tab[t]) \in Tab /\ Mounted(Believed(tab[t]))
        /\ Believed(tab[t]).bound = "nowhere"
    BY <1>1, <1>2 DEF Believed, Mounted, Tab
  <2>2. QED
    BY <1>5, <1>8, <2>1 DEF FailCheck
<1>9. CASE AnswerCheck(t)
  BY <1>1, <1>2, <1>9 DEF AnswerCheck, Mounted, Tab
<1>10. CASE Logout(t)
  BY <1>1, <1>2, <1>10 DEF Logout, Mounted, Tab
<1>11. CASE Show(t)
  BY <1>1, <1>2, <1>11 DEF Show, Mounted, Tab
<1>12. CASE RefuseLoad(t)
  BY <1>1, <1>2, <1>12 DEF RefuseLoad, Mounted, Tab
<1>13. ~Refuse(t) /\ ~AnswerLogout(t) /\ ~Forget(t) /\ ~TurnBack(t)
       /\ ~Arrive(t) /\ ~SignIn(t)
  BY <1>2 DEF Refuse, AnswerLogout, Forget, TurnBack, Arrive, SignIn
<1>14. ~Follow(t) /\ \A p : ~Open(t, p)
  BY <1>1 DEF Follow, Open, Visit
<1>15. CASE Revoke \/ Age \/ UNCHANGED vars
  BY <1>4, <1>15 DEF Revoke, Age, vars
<1>16. CASE \E u \in Tabs : u # t /\ (Act(u) \/ Settle(u))
  BY <1>4, <1>6, <1>16
<1>17. QED
  BY <1>7, <1>8, <1>9, <1>10, <1>11, <1>12, <1>13, <1>14, <1>15, <1>16
  DEF Next, Act, Settle

\* While the session lasts, neither the answers of the server, nor their
\* failure, nor what the other tabs do to the marker turns the user of a tab
\* away from the pages behind the guard.
THEOREM NobodyTurnedAway == Spec => OnlyUsersLeave
<1>1. IInv /\ [Next]_vars => [\A t \in Tabs : StaysHome(t)]_vars
  BY StepKeepsHome
<1>2. QED
  BY <1>1, Inductive, PTL DEF Spec, OnlyUsersLeave

=============================================================================
