--------------------------- MODULE SessionsProofs ---------------------------
(***************************************************************************)
(* Proofs about Sessions, for any browsers, accounts, requests and bounds  *)
(* and any lifetime of at least a day.                                     *)
(***************************************************************************)
EXTENDS Sessions, SequenceTheorems, TLAPS

Beyond == {"expired", "found", "renewing", "planned", "leaving"}

\* Past its arrival, a request works on a session that exists or existed, and
\* it has a statement to run once save has chosen one.
RequestsSound ==
    \A r \in Requests :
        /\ request[r].phase \in Beyond => request[r].token # 0
        /\ request[r].phase = "leaving" => request[r].op = "logout"
        /\ request[r].phase \in {"opening", "opened"} => request[r].op = "login"
        /\ request[r].phase = "planned" => request[r].plan # "none"

\* No date is ahead of the clock, and no expiry more than a lifetime ahead.
DatesPast ==
    /\ \A r \in Requests : request[r].at <= today
    /\ \A b \in Browsers : cookie[b].until <= today + TtlDays

\* Until its cookie arrives, nobody else has the token of a sign-in, and its row
\* is as the INSERT left it.
OpenedSound ==
    \A r \in Requests : request[r].phase = "opened" =>
        LET k == request[r].token IN
        /\ k \in DOMAIN sessions
        /\ sessions[k].live => sessions[k].expires = request[r].at + TtlDays
        /\ \A q \in Requests : q # r => request[q].token # k
        /\ \A b \in Browsers : cookie[b].token # k

\* The copy a request holds would put back a row that outlives the cookie.
CopiesOutliveCookies ==
    \A b \in Browsers, r \in Requests :
        Holds(r, cookie[b].token) => cookie[b].until <= request[r].at + TtlDays

\* A request that let its bearer through, or is about to without writing.
Renewer(r) ==
    \/ LetThrough(r)
    \/ request[r].phase = "planned" /\ request[r].plan = "nothing"

RenewalsCovered ==
    \A r \in Requests :
        Renewer(r) /\ Live(request[r].token)
        => request[r].at + TtlDays <= sessions[request[r].token].expires + 1

\* CookieDiesFirst, from the moment save finds that it has nothing to write.
CookiesCovered ==
    \A b \in Browsers :
        LET k == cookie[b].token IN
        Live(k) =>
          /\ cookie[b].until <= sessions[k].expires + 1
          /\ (\E r \in Requests : Renewer(r) /\ request[r].token = k)
                => cookie[b].until <= sessions[k].expires

IInv ==
    /\ TypeOK
    /\ RequestsSound
    /\ DatesPast
    /\ OpenedSound
    /\ CookiesCovered
    /\ CopiesOutliveCookies
    /\ RenewalsCovered

-----------------------------------------------------------------------------
(* What one step does to a row, to a request and to a cookie.              *)

Renews(r, k) ==
    /\ request[r].phase = "planned" /\ request[r].token = k
    /\ request'[r].phase = "done"

\* A row stays, goes, or takes the dates of a request that finishes.
RowStep(k) ==
    \/ sessions'[k] = sessions[k]
    \/ sessions'[k] = [sessions[k] EXCEPT !.live = FALSE]
    \/ \E r \in Requests : /\ Renews(r, k)
                           /\ sessions'[k] = Renewed(k, request[r].at)

\* The table grows by at most one row.
TableStep ==
    \/ sessions' = sessions
    \/ \E row \in SessionRow : sessions' = Append(sessions, row)
    \/ /\ sessions' \in [DOMAIN sessions -> SessionRow]
       /\ \A k \in DOMAIN sessions : RowStep(k)

\* A request sets off, signs in and opens a session, is found one, goes past the
\* account, has its statement chosen, or finishes.
SetsOff(r) ==
    /\ request'[r].phase = "arriving"
    /\ request'[r].at = today
    /\ \/ request'[r].token = 0
       \/ \E b \in Browsers : request'[r].token = cookie[b].token

SignsIn(r) ==
    /\ request'[r].phase = "opening" /\ request'[r].op = "login"
    /\ request'[r].at = today /\ request'[r].token = 0

Opens(r) ==
    /\ request[r].phase = "opening" /\ request'[r].phase = "opened"
    /\ request'[r].op = request[r].op /\ request'[r].at = request[r].at
    /\ request'[r].token = Len(sessions) + 1
    /\ Len(sessions') = Len(sessions) + 1
    /\ sessions'[Len(sessions) + 1].expires = request[r].at + TtlDays
    /\ \A q \in Requests : q # r => request'[q] = request[q]
    /\ cookie' = cookie

Arrives(r) ==
    /\ request[r].phase = "arriving" /\ Live(request[r].token)
    /\ request'[r].phase \in {"expired", "found", "leaving"}
    /\ request'[r].phase = "leaving" => request[r].op = "logout"
    /\ request'[r].at = today

PassesAccount(r) ==
    /\ request[r].phase = "found" /\ request'[r].phase = "renewing"
    /\ sessions[request[r].token].user \notin closed
    /\ request'[r].at = request[r].at

Chooses(r) ==
    /\ request[r].phase = "renewing" /\ request'[r].phase = "planned"
    /\ request'[r].plan # "none"
    /\ request'[r].at = request[r].at
    /\ request'[r].plan = "nothing" =>
          sessions[request[r].token] = Renewed(request[r].token, request[r].at)

\* The statement of a renewal has put its dates into the row, if there is one.
Written(r) ==
    \/ request[r].plan = "nothing"
    \/ ~sessions'[request[r].token].live
    \/ sessions'[request[r].token] = Renewed(request[r].token, request[r].at)

Ends(r) ==
    /\ InFlight(r) /\ request'[r].phase = "done"
    /\ request'[r].at = request[r].at
    /\ request'[r].status = 200 /\ request[r].op = "use"
       => request[r].phase = "planned" /\ Written(r)

GoesOn(r) ==
    /\ request'[r].token = request[r].token
    /\ request'[r].op = request[r].op
    /\ Arrives(r) \/ PassesAccount(r) \/ Chooses(r) \/ Ends(r)

RequestStep(r) ==
    \/ request'[r] = request[r]
    \/ SetsOff(r)
    \/ SignsIn(r)
    \/ Opens(r)
    \/ GoesOn(r)

CookieStep(b) ==
    \/ cookie'[b] \in {cookie[b], NoCookie}
    \/ \E r \in Requests :
          /\ request[r].phase = "opened" /\ request'[r].phase = "done"
          /\ cookie'[b] = NewCookie(r)
          /\ sessions' = sessions

LEMMA SessionsTyped ==
    ASSUME TypeOK
    PROVE  /\ Len(sessions) \in Nat /\ DOMAIN sessions = 1..Len(sessions)
           /\ \A k \in DOMAIN sessions : sessions[k] \in SessionRow
BY LenProperties, ElementOfSeq DEF TypeOK

RequestsStep ==
    /\ request' \in [Requests -> RequestState]
    /\ \A r \in Requests : RequestStep(r)

CookiesStep ==
    /\ cookie' \in [Browsers -> Cookie]
    /\ \A b \in Browsers : CookieStep(b)

ClockStep ==
    /\ today' \in {today, today + 1}
    /\ today' # today => \A r \in Requests : InFlight(r) => request[r].at = today

AccountsStep == closed \subseteq closed' /\ closed' \subseteq Users

LEMMA RenewedRow ==
    ASSUME NEW row \in SessionRow, NEW now \in Nat
    PROVE  [row EXCEPT !.seen = now, !.expires = now + TtlDays, !.live = TRUE] \in SessionRow
<1>1. now + TtlDays \in Nat
  BY TtlAssumption
<1>2. QED
  BY <1>1 DEF SessionRow

LEMMA EndedRequest ==
    ASSUME NEW h \in RequestState, NEW status \in Statuses
    PROVE  [h EXCEPT !.phase = "done", !.plan = "none", !.status = status] \in RequestState
BY DEF RequestState, Plans

LEMMA OneRequestSteps ==
    ASSUME TypeOK, NEW r \in Requests, NEW h \in RequestState,
           request' = [request EXCEPT ![r] = h],
           RequestStep(r)
    PROVE  RequestsStep
<1>1. request \in [Requests -> RequestState]
  BY DEF TypeOK
<1>2. \A q \in Requests : q # r => request'[q] = request[q]
  BY <1>1
<1>3. request' \in [Requests -> RequestState]
  BY <1>1
<1>4. QED
  BY <1>2, <1>3 DEF RequestsStep, RequestStep

LEMMA AnswersEnd ==
    ASSUME TypeOK, NEW r \in Requests, NEW status \in Statuses,
           InFlight(r), Answer(r, status),
           status = 200 /\ request[r].op = "use"
           => request[r].phase = "planned" /\ Written(r)
    PROVE  RequestsStep /\ request'[r].phase = "done"
<1> DEFINE h == [request[r] EXCEPT !.phase = "done", !.plan = "none", !.status = status]
<1>1. request \in [Requests -> RequestState] /\ request[r] \in RequestState
  BY DEF TypeOK
<1>2. h \in RequestState
  BY <1>1, EndedRequest
<1>3. request' = [request EXCEPT ![r] = h] /\ request'[r] = h
  BY <1>1 DEF Answer
<1>4. GoesOn(r)
  BY <1>1, <1>3 DEF GoesOn, Ends, RequestState
<1>5. request'[r].phase = "done"
  BY <1>1, <1>3 DEF RequestState
<1> HIDE DEF h
<1>6. QED
  BY <1>2, <1>3, <1>4, <1>5, OneRequestSteps DEF RequestStep

LEMMA ProceedsArrive ==
    ASSUME TypeOK, NEW r \in Requests, NEW phase \in {"expired", "found", "leaving"},
           request[r].phase = "arriving", Live(request[r].token),
           phase = "leaving" => request[r].op = "logout",
           Proceed(r, phase, "none")
    PROVE  RequestsStep
<1> DEFINE h == [request[r] EXCEPT !.phase = phase, !.at = today, !.plan = "none"]
<1>1. /\ request \in [Requests -> RequestState] /\ request[r] \in RequestState
      /\ today \in Nat
  BY DEF TypeOK
<1>2. h \in RequestState
  BY <1>1 DEF RequestState, Plans, UnderWay
<1>3. request' = [request EXCEPT ![r] = h] /\ request'[r] = h
  BY <1>1 DEF Proceed
<1>4. GoesOn(r)
  BY <1>1, <1>3 DEF GoesOn, Arrives, RequestState
<1> HIDE DEF h
<1>5. QED
  BY <1>2, <1>3, <1>4, OneRequestSteps DEF RequestStep

\* Whatever the step, it is one of those above for every row, request and cookie.
LEMMA NextSteps ==
    ASSUME IInv, [Next]_vars
    PROVE  TableStep /\ RequestsStep /\ CookiesStep /\ ClockStep /\ AccountsStep
<1> DEFINE Goal == TableStep /\ RequestsStep /\ CookiesStep /\ ClockStep /\ AccountsStep
<1> SUFFICES Goal
  OBVIOUS
<1>1. /\ TypeOK
      /\ Len(sessions) \in Nat /\ DOMAIN sessions = 1..Len(sessions)
      /\ \A k \in DOMAIN sessions : sessions[k] \in SessionRow
      /\ request \in [Requests -> RequestState]
      /\ \A r \in Requests : request[r] \in RequestState
      /\ cookie \in [Browsers -> Cookie]
      /\ closed \subseteq Users /\ today \in Nat
      /\ \A b \in Browsers : Token(b) \in {0, cookie[b].token} /\ Token(b) \in Nat
      /\ TtlDays \in Nat
  BY SessionsTyped, TtlAssumption DEF IInv, TypeOK, Token, Cookie
<1>a. sessions' = sessions => TableStep
  BY DEF TableStep
<1>b. request' = request => RequestsStep
  BY <1>1 DEF RequestsStep, RequestStep
<1>c. cookie' = cookie => CookiesStep
  BY <1>1 DEF CookiesStep, CookieStep
<1>d. today' = today => ClockStep
  BY DEF ClockStep
<1>e. closed' = closed => AccountsStep
  BY <1>1 DEF AccountsStep
<1>f. ASSUME NEW r \in Requests, cookie' = [cookie EXCEPT ![request[r].browser] = NoCookie]
      PROVE  CookiesStep
  BY <1>1, <1>f DEF CookiesStep, CookieStep, NoCookie, Cookie
<1>g. ASSUME NEW k \in Nat, sessions' = Without(k)
      PROVE  TableStep
  <2>1. \A j \in DOMAIN sessions : sessions'[j] \in SessionRow /\ RowStep(j)
    BY <1>1, <1>g DEF Without, RowStep, SessionRow
  <2>2. sessions' \in [DOMAIN sessions -> SessionRow]
    BY <1>g, <2>1 DEF Without
  <2>3. QED
    BY <2>1, <2>2 DEF TableStep
<1>2. ASSUME UNCHANGED vars PROVE Goal
  BY <1>2, <1>a, <1>b, <1>c, <1>d, <1>e DEF vars
<1>3. ASSUME NEW r \in Requests, NEW b \in Browsers,
             NEW op \in {"use", "logout"}, Send(r, b, op)
      PROVE  Goal
  <2> DEFINE h == [phase |-> "arriving", op |-> op, browser |-> b, token |-> Token(b),
                   at |-> today, plan |-> "none", status |-> Lost]
  <2>1. h \in RequestState
    BY <1>1 DEF RequestState, UnderWay, Plans, Statuses, Lost
  <2>2. request' = [request EXCEPT ![r] = h] /\ request'[r] = h
    BY <1>1, <1>3 DEF Send
  <2>3. SetsOff(r)
    BY <1>1, <2>2 DEF SetsOff
  <2> HIDE DEF h
  <2>4. RequestsStep
    BY <1>1, <2>1, <2>2, <2>3, OneRequestSteps DEF RequestStep
  <2>5. QED
    BY <1>3, <2>4, <1>a, <1>c, <1>d, <1>e DEF Send
<1>4. ASSUME NEW r \in Requests, Refuse(r) PROVE Goal
  <2>1. RequestsStep
    BY <1>1, <1>4, AnswersEnd DEF Refuse, InFlight, UnderWay, Statuses
  <2>2. QED
    BY <1>4, <2>1, <1>a, <1>c, <1>d, <1>e DEF Refuse
<1>5. ASSUME NEW r \in Requests, Arrive(r) PROVE Goal
  <2>1. RequestsStep
    BY <1>1, <1>5, ProceedsArrive DEF Arrive
  <2>2. QED
    BY <1>5, <2>1, <1>a, <1>c, <1>d, <1>e DEF Arrive
<1>6. ASSUME NEW r \in Requests, Expire(r) PROVE Goal
  <2>1. RequestsStep
    BY <1>1, <1>6, AnswersEnd DEF Expire, InFlight, UnderWay, Statuses
  <2>2. request[r].token \in Nat
    BY <1>1 DEF RequestState
  <2>3. QED
    BY <1>6, <2>1, <2>2, <1>g, <1>c, <1>d, <1>e DEF Expire
<1>7. ASSUME NEW r \in Requests, LookUp(r) PROVE Goal
  <2>1. ASSUME sessions[request[r].token].user \in closed PROVE RequestsStep
    BY <1>1, <1>7, <2>1, AnswersEnd DEF LookUp, InFlight, UnderWay, Statuses
  <2>2. ASSUME sessions[request[r].token].user \notin closed PROVE RequestsStep
    <3> DEFINE h == [request[r] EXCEPT !.phase = "renewing"]
    <3>1. h \in RequestState
      BY <1>1 DEF RequestState, UnderWay
    <3>2. request' = [request EXCEPT ![r] = h] /\ request'[r] = h
      BY <1>1, <1>7, <2>2 DEF LookUp
    <3>3. GoesOn(r)
      BY <1>1, <1>7, <2>2, <3>2 DEF LookUp, GoesOn, PassesAccount, RequestState
    <3> HIDE DEF h
    <3>4. QED
      BY <1>1, <3>1, <3>2, <3>3, OneRequestSteps DEF RequestStep
  <2>3. QED
    BY <1>7, <2>1, <2>2, <1>a, <1>c, <1>d, <1>e DEF LookUp
<1>8. ASSUME NEW r \in Requests, Reload(r) PROVE Goal
  <2>1. PICK plan \in {"insert", "update", "nothing"} :
          /\ request' = [request EXCEPT ![r].phase = "planned", ![r].plan = plan]
          /\ plan = "nothing" => sessions[request[r].token]
                                 = Renewed(request[r].token, request[r].at)
    BY <1>8 DEF Reload
  <2> DEFINE h == [request[r] EXCEPT !.phase = "planned", !.plan = plan]
  <2>2. h \in RequestState
    BY <1>1 DEF RequestState, UnderWay, Plans
  <2>3. request' = [request EXCEPT ![r] = h] /\ request'[r] = h
    BY <1>1, <2>1
  <2>4. GoesOn(r)
    BY <1>1, <1>8, <2>1, <2>3 DEF Reload, GoesOn, Chooses, RequestState
  <2> HIDE DEF h
  <2>5. RequestsStep
    BY <1>1, <2>2, <2>3, <2>4, OneRequestSteps DEF RequestStep
  <2>6. QED
    BY <1>8, <2>5, <1>a, <1>c, <1>d, <1>e DEF Reload
<1>9. ASSUME NEW r \in Requests, Commit(r) PROVE Goal
  <2>1. RequestsStep
    <3> DEFINE k == request[r].token
    <3>1. /\ k \in DOMAIN sessions
          /\ request[r].phase = "planned"
          /\ request[r].plan \in {"insert", "update", "nothing"}
      BY <1>1, <1>9 DEF Commit, IInv, TypeOK, RequestsSound, Beyond, RequestState, Plans
    <3>2. Written(r)
      BY <1>1, <1>9, <3>1 DEF Commit, Written
    <3>3. QED
      BY <1>1, <1>9, <3>1, <3>2, AnswersEnd DEF Commit, InFlight, UnderWay, Statuses
  <2>2. request'[r].phase = "done"
    BY <1>1, <1>9 DEF Commit, Answer
  <2>3. ASSUME sessions' = [sessions EXCEPT ![request[r].token]
                              = Renewed(request[r].token, request[r].at)]
        PROVE  TableStep
    <3> DEFINE k == request[r].token
    <3>0. request[r].at \in Nat
      BY <1>1 DEF RequestState
    <3>1. \A j \in DOMAIN sessions : RowStep(j)
      <4>1. \A j \in DOMAIN sessions : j # k => sessions'[j] = sessions[j]
        BY <2>3
      <4>2. k \in DOMAIN sessions => sessions'[k] = Renewed(k, request[r].at)
        BY <2>3
      <4>3. Renews(r, k)
        BY <1>9, <2>2 DEF Commit, Renews
      <4> HIDE DEF k
      <4>4. QED
        BY <4>1, <4>2, <4>3 DEF RowStep
    <3>2. \A j \in DOMAIN sessions : Renewed(j, request[r].at) \in SessionRow
      BY <1>1, <3>0, RenewedRow DEF Renewed
    <3>3. sessions' \in [DOMAIN sessions -> SessionRow]
      BY <1>1, <2>3, <3>2
    <3>4. QED
      BY <3>1, <3>3 DEF TableStep
  <2>5. TableStep
    BY <1>9, <2>3, <1>a DEF Commit
  <2>6. QED
    BY <1>9, <2>1, <2>5, <1>c, <1>d, <1>e DEF Commit
<1>10. ASSUME NEW r \in Requests, Clash(r) PROVE Goal
  <2>1. RequestsStep
    BY <1>1, <1>10, AnswersEnd DEF Clash, InFlight, UnderWay, Statuses
  <2>2. QED
    BY <1>10, <2>1, <1>a, <1>c, <1>d, <1>e DEF Clash
<1>11. ASSUME NEW r \in Requests, LogoutOfNothing(r) PROVE Goal
  <2>1. RequestsStep
    BY <1>1, <1>11, AnswersEnd
       DEF LogoutOfNothing, AnswerLogout, InFlight, UnderWay, Statuses
  <2>2. QED
    BY <1>11, <2>1, <1>a, <1>c, <1>f, <1>d, <1>e DEF LogoutOfNothing, AnswerLogout
<1>12. ASSUME NEW r \in Requests, Leave(r) PROVE Goal
  <2>1. RequestsStep
    BY <1>1, <1>12, ProceedsArrive DEF Leave
  <2>2. QED
    BY <1>12, <2>1, <1>a, <1>c, <1>d, <1>e DEF Leave
<1>13. ASSUME NEW r \in Requests, DestroySession(r) PROVE Goal
  <2>1. request[r].op = "logout"
    BY <1>13 DEF DestroySession, IInv, RequestsSound
  <2>2. RequestsStep
    BY <1>1, <1>13, <2>1, AnswersEnd
       DEF DestroySession, AnswerLogout, InFlight, UnderWay, Statuses
  <2>3. request[r].token \in Nat
    BY <1>1 DEF RequestState
  <2>4. QED
    <3>1. TableStep
      BY <1>13, <2>3, <1>g DEF DestroySession
    <3>2. CookiesStep
      BY <1>13, <1>c, <1>f DEF DestroySession, AnswerLogout
    <3>3. QED
      BY <1>13, <2>2, <3>1, <3>2, <1>d, <1>e DEF DestroySession, AnswerLogout
<1>14. ASSUME NEW r \in Requests, NEW b \in Browsers, SignIn(r, b) PROVE Goal
  <2> DEFINE h == [phase |-> "opening", op |-> "login", browser |-> b, token |-> 0,
                   at |-> today, plan |-> "none", status |-> Lost]
  <2>1. h \in RequestState
    BY <1>1 DEF RequestState, UnderWay, Plans, Statuses, Lost
  <2>2. request' = [request EXCEPT ![r] = h] /\ request'[r] = h
    BY <1>1, <1>14 DEF SignIn
  <2>3. SignsIn(r)
    BY <2>2 DEF SignsIn
  <2> HIDE DEF h
  <2>4. RequestsStep
    BY <1>1, <2>1, <2>2, <2>3, OneRequestSteps DEF RequestStep
  <2>5. QED
    BY <1>14, <2>4, <1>a, <1>c, <1>d, <1>e DEF SignIn
<1>19. ASSUME NEW r \in Requests, NEW u \in Users, CreateSession(r, u) PROVE Goal
  <2> DEFINE row == [user |-> u, seen |-> request[r].at,
                     expires |-> request[r].at + TtlDays, live |-> TRUE]
             h == [request[r] EXCEPT !.phase = "opened", !.token = Len(sessions) + 1]
  <2>1. sessions' = Append(sessions, row)
    BY <1>19 DEF CreateSession
  <2>2. row \in SessionRow
    BY <1>1 DEF SessionRow, RequestState
  <2>3. Len(sessions') = Len(sessions) + 1 /\ sessions'[Len(sessions) + 1] = row
    BY <1>1, <2>1, <2>2, AppendProperties DEF TypeOK
  <2>4. sessions'[Len(sessions) + 1].expires = request[r].at + TtlDays
    BY <2>3
  <2>5. TableStep
    BY <2>1, <2>2 DEF TableStep
  <2>6. h \in RequestState
    <3>1. request[r] \in RequestState /\ Len(sessions) + 1 \in Nat
      BY <1>1
    <3>2. QED
      BY ONLY <3>1 DEF RequestState, UnderWay
  <2>7. request' = [request EXCEPT ![r] = h] /\ request'[r] = h
    BY <1>1, <1>19 DEF CreateSession
  <2>8. Opens(r)
    <3>1. /\ request'[r].phase = "opened" /\ request'[r].op = request[r].op
          /\ request'[r].at = request[r].at /\ request'[r].token = Len(sessions) + 1
      BY <1>1, <2>7 DEF RequestState
    <3>2. request[r].phase = "opening" /\ cookie' = cookie
      BY <1>19 DEF CreateSession
    <3>3. \A q \in Requests : q # r => request'[q] = request[q]
      BY <1>1, <2>7
    <3> HIDE DEF h, row
    <3>4. QED
      BY <2>3, <2>4, <3>1, <3>2, <3>3 DEF Opens
  <2> HIDE DEF h, row
  <2>9. RequestsStep
    BY <1>1, <2>6, <2>7, <2>8, OneRequestSteps DEF RequestStep
  <2>10. QED
    BY <1>19, <2>5, <2>9, <1>c, <1>d, <1>e DEF CreateSession
<1>20. ASSUME NEW r \in Requests, ReceiveCookie(r) PROVE Goal
  <2>1. request[r].phase = "opened" /\ request[r].op = "login"
    BY <1>20 DEF ReceiveCookie, IInv, RequestsSound
  <2>2. RequestsStep /\ request'[r].phase = "done"
    BY <1>1, <1>20, <2>1, AnswersEnd
       DEF ReceiveCookie, InFlight, UnderWay, Statuses, Lost
  <2>3. CookiesStep
    <3>1. NewCookie(r) \in Cookie
      BY <1>1 DEF NewCookie, Cookie, RequestState
    <3>2. CASE cookie' = cookie
      BY <1>c, <3>2
    <3>3. CASE cookie' = [cookie EXCEPT ![request[r].browser] = NewCookie(r)]
      <4>1. \A c \in Browsers : cookie'[c] \in {cookie[c], NewCookie(r)}
        BY <1>1, <3>3
      <4>2. cookie' \in [Browsers -> Cookie]
        BY <1>1, <3>1, <3>3
      <4>3. sessions' = sessions
        BY <1>20 DEF ReceiveCookie
      <4>4. QED
        BY <2>1, <2>2, <4>1, <4>2, <4>3 DEF CookiesStep, CookieStep
    <3>4. QED
      BY <1>20, <3>2, <3>3 DEF ReceiveCookie
  <2>4. QED
    BY <1>20, <2>2, <2>3, <1>a, <1>d, <1>e DEF ReceiveCookie
<1>15. CASE PruneExpiredSessions
  <2>1. \A k \in DOMAIN sessions : sessions'[k] \in SessionRow /\ RowStep(k)
    BY <1>1, <1>15 DEF PruneExpiredSessions, RowStep, SessionRow
  <2>2. sessions' \in [DOMAIN sessions -> SessionRow]
    BY <1>15, <2>1 DEF PruneExpiredSessions
  <2>3. QED
    BY <1>15, <2>1, <2>2, <1>b, <1>c, <1>d, <1>e DEF PruneExpiredSessions, TableStep
<1>16. ASSUME NEW u \in Users, CloseAccount(u) PROVE Goal
  <2>1. AccountsStep
    BY <1>1, <1>16 DEF CloseAccount, AccountsStep
  <2>2. QED
    BY <1>16, <2>1, <1>a, <1>b, <1>c, <1>d DEF CloseAccount
<1>17. CASE Tick
  <2>1. ClockStep
    BY <1>17 DEF Tick, ClockStep
  <2>2. QED
    BY <1>17, <2>1, <1>a, <1>b, <1>c, <1>e DEF Tick
<1>18. CASE Restart
  <2>1. ASSUME NEW r \in Requests
        PROVE  request'[r] \in RequestState /\ RequestStep(r)
    <3>1. CASE ~InFlight(r)
      BY <1>1, <1>18, <3>1 DEF Restart, RequestStep
    <3>2. CASE InFlight(r)
      <4> DEFINE h == [request[r] EXCEPT !.phase = "done", !.plan = "none",
                                         !.status = Lost]
      <4>1. request'[r] = h
        BY <1>18, <3>2 DEF Restart
      <4>2. h \in RequestState
        <5>1. Lost \in Statuses /\ request[r] \in RequestState
          BY <1>1 DEF Statuses
        <5>2. QED
          BY ONLY <5>1, EndedRequest
      <4>3. GoesOn(r)
        BY <1>1, <3>2, <4>1 DEF GoesOn, Ends, Lost, RequestState
      <4> HIDE DEF h
      <4>4. QED
        BY <4>1, <4>2, <4>3 DEF RequestStep
    <3>3. QED
      BY <3>1, <3>2
  <2>2. RequestsStep
    <3>1. request' \in [Requests -> RequestState]
      BY <1>18, <2>1 DEF Restart
    <3>2. QED
      BY <2>1, <3>1 DEF RequestsStep
  <2>3. QED
    BY <1>18, <2>2, <1>a, <1>c, <1>d, <1>e DEF Restart
<1> HIDE DEF Goal
<1>21. QED
  BY <1>2, <1>3, <1>4, <1>5, <1>6, <1>7, <1>8, <1>9, <1>10, <1>11, <1>12, <1>13,
     <1>14, <1>15, <1>16, <1>17, <1>18, <1>19, <1>20 DEF Next, Resolve, Logout, Login

-----------------------------------------------------------------------------
(* The invariant.                                                          *)

\* The table stays a table; a row it had takes a row's step.
LEMMA TableGrows ==
    ASSUME TypeOK, TableStep
    PROVE  /\ sessions' \in Seq(SessionRow)
           /\ DOMAIN sessions = 1..Len(sessions)
           /\ DOMAIN sessions' = 1..Len(sessions')
           /\ Len(sessions) \in Nat
           /\ Len(sessions') \in {Len(sessions), Len(sessions) + 1}
           /\ \A k \in DOMAIN sessions : RowStep(k)
<1>1. /\ sessions \in Seq(SessionRow)
      /\ Len(sessions) \in Nat /\ DOMAIN sessions = 1..Len(sessions)
      /\ today \in Nat /\ TtlDays \in Nat
  BY SessionsTyped, TtlAssumption DEF TypeOK
<1>2. CASE sessions' = sessions
  BY <1>1, <1>2 DEF RowStep
<1>3. ASSUME NEW row \in SessionRow, sessions' = Append(sessions, row)
      PROVE  /\ sessions' \in Seq(SessionRow)
             /\ Len(sessions') = Len(sessions) + 1
             /\ \A k \in DOMAIN sessions : RowStep(k)
  <2>1. /\ sessions' \in Seq(SessionRow) /\ Len(sessions') = Len(sessions) + 1
        /\ \A k \in 1..Len(sessions) : sessions'[k] = sessions[k]
    BY <1>1, <1>3, AppendProperties
  <2>2. QED
    BY <1>1, <2>1 DEF RowStep
<1>4. CASE /\ sessions' \in [DOMAIN sessions -> SessionRow]
           /\ \A k \in DOMAIN sessions : RowStep(k)
  <2>1. sessions' \in Seq(SessionRow)
    BY <1>1, <1>4, SeqDef
  <2>2. Len(sessions') = Len(sessions)
    BY <1>1, <1>4, <2>1, LenProperties
  <2>3. QED
    BY <1>1, <1>4, <2>1, <2>2
<1>5. sessions' \in Seq(SessionRow) => DOMAIN sessions' = 1..Len(sessions')
  BY LenProperties
<1>6. QED
  BY <1>1, <1>2, <1>3, <1>4, <1>5 DEF TableStep

LEMMA RowsRemain ==
    ASSUME TypeOK, TableStep, NEW k \in DOMAIN sessions
    PROVE  k \in DOMAIN sessions'
<1>1. /\ DOMAIN sessions = 1..Len(sessions) /\ DOMAIN sessions' = 1..Len(sessions')
      /\ Len(sessions) \in Nat
      /\ Len(sessions') \in {Len(sessions), Len(sessions) + 1}
  BY TableGrows
<1> DEFINE n == Len(sessions)
           m == Len(sessions')
<1>2. /\ n \in Nat /\ m \in {n, n + 1} /\ k \in 1..n
      /\ DOMAIN sessions' = 1..m
  BY <1>1
<1> HIDE DEF n, m
<1>3. k \in 1..m
  BY <1>2
<1>4. QED
  BY <1>2, <1>3

LEMMA InitIInv == Init => IInv
<1> SUFFICES ASSUME Init PROVE IInv
  OBVIOUS
<1>1. sessions = <<>> /\ Len(sessions) = 0 /\ sessions \in Seq(SessionRow)
  BY EmptySeq DEF Init
<1>2. /\ \A b \in Browsers : cookie[b].token = 0 /\ cookie[b].until = 0
      /\ \A r \in Requests : /\ request[r].phase = "idle" /\ request[r].token = 0
                             /\ request[r].at = 0
  BY DEF Init, NoCookie
<1>3. cookie \in [Browsers -> Cookie] /\ closed \subseteq Users /\ today = 0
  BY DEF Init, NoCookie, Cookie
<1>4. request \in [Requests -> RequestState]
  BY DEF Init, RequestState, Statuses, Lost, Plans
<1>5. TypeOK
  BY <1>1, <1>2, <1>3, <1>4 DEF TypeOK, InFlight, UnderWay
<1>6. RequestsSound /\ DatesPast /\ OpenedSound
  BY <1>2, <1>3, TtlAssumption DEF RequestsSound, DatesPast, OpenedSound, Beyond
<1>7. ~Live(0)
  BY <1>1, LenProperties DEF Live
<1>8. CookiesCovered /\ CopiesOutliveCookies /\ RenewalsCovered
  BY <1>2, <1>7 DEF CookiesCovered, CopiesOutliveCookies, Holds, RenewalsCovered, Renewer,
                    LetThrough
<1>9. QED
  BY <1>5, <1>6, <1>8 DEF IInv

\* What a step leaves in a row: nothing, the row, or the dates of a request
\* that set off no earlier than a day ago.
LEMMA RowsAfter ==
    ASSUME IInv, TableStep, NEW k \in DOMAIN sessions, sessions'[k].live
    PROVE  \/ sessions'[k] = sessions[k]
           \/ \E q \in Requests :
                /\ Renews(q, k) /\ Holds(q, k)
                /\ sessions'[k].expires = request[q].at + TtlDays
                /\ today <= request[q].at + 1
<1>1. sessions[k] \in SessionRow /\ RowStep(k)
  BY SessionsTyped, TableGrows DEF IInv
<1>2. CASE sessions'[k] = [sessions[k] EXCEPT !.live = FALSE]
  BY <1>1, <1>2 DEF SessionRow
<1>3. ASSUME NEW q \in Requests, Renews(q, k), sessions'[k] = Renewed(k, request[q].at)
      PROVE  /\ Holds(q, k) /\ today <= request[q].at + 1
             /\ sessions'[k].expires = request[q].at + TtlDays
  <2>1. Holds(q, k)
    BY <1>3 DEF Renews, Holds
  <2>2. today <= request[q].at + 1
    BY <1>3 DEF Renews, IInv, TypeOK, InFlight, UnderWay
  <2>3. sessions'[k].expires = request[q].at + TtlDays
    BY <1>1, <1>3 DEF Renewed, SessionRow
  <2>4. QED
    BY <2>1, <2>2, <2>3
<1>4. QED
  BY <1>1, <1>2, <1>3 DEF RowStep

LEMMA StepIInv == IInv /\ [Next]_vars => IInv'
<1> SUFFICES ASSUME IInv, [Next]_vars PROVE IInv'
  OBVIOUS
<1>1. TableStep /\ RequestsStep /\ CookiesStep /\ ClockStep /\ AccountsStep
  BY NextSteps
<1>2. /\ sessions' \in Seq(SessionRow)
      /\ DOMAIN sessions = 1..Len(sessions) /\ DOMAIN sessions' = 1..Len(sessions')
      /\ Len(sessions) \in Nat
      /\ Len(sessions') \in {Len(sessions), Len(sessions) + 1}
  BY <1>1, TableGrows DEF IInv
<1>3. /\ today \in Nat /\ today' \in Nat /\ today <= today' /\ TtlDays \in Nat
      /\ request \in [Requests -> RequestState]
      /\ request' \in [Requests -> RequestState]
      /\ \A r \in Requests : /\ request[r].at \in Nat /\ request'[r].at \in Nat
                             /\ request[r].at <= today
                             /\ request[r].token \in 0..Len(sessions)
                             /\ RequestStep(r)
      /\ \A b \in Browsers : /\ cookie[b].token \in 0..Len(sessions)
                             /\ cookie[b].until \in Nat
                             /\ cookie[b].until <= today + TtlDays
                             /\ CookieStep(b)
  BY <1>1, TtlAssumption
     DEF IInv, TypeOK, DatesPast, ClockStep, RequestsStep, CookiesStep, RequestState, Cookie
<1>j. ASSUME NEW b \in Browsers
      PROVE  cookie'[b].until \in Nat /\ cookie'[b].until <= today + TtlDays
  <2>1. CASE cookie'[b] \in {cookie[b], NoCookie}
    BY <1>3, <2>1 DEF NoCookie
  <2>2. ASSUME NEW q \in Requests, cookie'[b] = NewCookie(q)
        PROVE  cookie'[b].until = today + TtlDays
    BY <2>2 DEF NewCookie
  <2>3. QED
    BY <1>3, <2>1, <2>2 DEF CookieStep
<1>i. /\ 0 \in 0..Len(sessions') /\ 0 \notin DOMAIN sessions
      /\ Len(sessions) + 1 \notin 0..Len(sessions)
      /\ Len(sessions') = Len(sessions) + 1 => Len(sessions) + 1 \in 0..Len(sessions')
      /\ \A k \in 0..Len(sessions) :
            /\ k \in 0..Len(sessions')
            /\ k \in DOMAIN sessions' => k \in DOMAIN sessions
  <2> DEFINE n == Len(sessions)
             m == Len(sessions')
  <2>1. n \in Nat /\ m \in {n, n + 1} /\ DOMAIN sessions = 1..n /\ DOMAIN sessions' = 1..m
    BY <1>2
  <2> HIDE DEF n, m
  <2>2. QED
    <3>1. /\ 0 \in 0..m /\ 0 \notin 1..n /\ n + 1 \notin 0..n
          /\ m = n + 1 => n + 1 \in 0..m
      BY <2>1
    <3>2. \A k \in 0..n : k \in 0..m /\ (k \in 1..m => k \in 1..n)
      BY <2>1
    <3>3. QED
      BY <2>1, <3>1, <3>2 DEF n, m
<1>4. TypeOK'
  <2>1. ASSUME NEW b \in Browsers PROVE cookie'[b].token \in 0..Len(sessions')
    <3>1. CASE cookie'[b] = cookie[b]
      BY <1>3, <1>i, <3>1
    <3>2. CASE cookie'[b] = NoCookie
      BY <1>i, <3>2 DEF NoCookie
    <3>3. CASE \E q \in Requests : cookie'[b] = NewCookie(q)
      BY <1>3, <1>i, <3>3 DEF NewCookie
    <3>4. QED
      BY <1>3, <3>1, <3>2, <3>3 DEF CookieStep
  <2>2. ASSUME NEW r \in Requests PROVE request'[r].token \in 0..Len(sessions')
    <3>1. CASE Opens(r)
      BY <1>i, <3>1 DEF Opens
    <3>2. CASE request'[r].token \in 0..Len(sessions)
      BY <1>i, <3>2
    <3>3. 0 \in 0..Len(sessions)
      BY <1>3
    <3>4. CASE SetsOff(r) \/ SignsIn(r)
      BY <1>3, <3>2, <3>3, <3>4 DEF SetsOff, SignsIn
    <3>5. QED
      BY <1>3, <3>1, <3>2, <3>4 DEF RequestStep, GoesOn
  <2>3. ASSUME NEW r \in Requests, InFlight(r)'
        PROVE  today' <= request'[r].at + 1
    <3>1. InFlight(r) => today' <= request[r].at + 1
      BY <1>1, <1>3 DEF ClockStep, IInv, TypeOK
    <3>2. today' <= today + 1
      BY <1>1, <1>3 DEF ClockStep
    <3>3. CASE request'[r] = request[r]
      BY <2>3, <3>1, <3>3 DEF InFlight
    <3>4. CASE SetsOff(r) \/ SignsIn(r)
      BY <1>3, <3>2, <3>4 DEF SetsOff, SignsIn
    <3>5. CASE GoesOn(r) \/ Opens(r)
      BY <1>3, <2>3, <3>1, <3>2, <3>5
         DEF GoesOn, Arrives, PassesAccount, Chooses, Ends, Opens, InFlight, UnderWay
    <3>6. QED
      BY <1>3, <3>3, <3>4, <3>5 DEF RequestStep
  <2>4. QED
    BY <1>1, <1>2, <1>3, <2>1, <2>2, <2>3
       DEF TypeOK, RequestsStep, CookiesStep, AccountsStep
<1>5. RequestsSound'
  <2>1. ASSUME NEW r \in Requests
        PROVE  /\ request'[r].phase \in Beyond => request'[r].token # 0
               /\ request'[r].phase = "leaving" => request'[r].op = "logout"
               /\ request'[r].phase \in {"opening", "opened"}
                    => request'[r].op = "login"
               /\ request'[r].phase = "planned" => request'[r].plan # "none"
    <3>1. Live(request[r].token) => request[r].token # 0
      BY <1>i DEF Live
    <3>2. /\ request[r].phase \in Beyond => request[r].token # 0
          /\ request[r].phase = "leaving" => request[r].op = "logout"
          /\ request[r].phase \in {"opening", "opened"} => request[r].op = "login"
          /\ request[r].phase = "planned" => request[r].plan # "none"
      BY DEF IInv, RequestsSound
    <3>3. QED
      BY <1>3, <3>1, <3>2
         DEF RequestStep, SetsOff, SignsIn, Opens, GoesOn, Arrives, PassesAccount,
             Chooses, Ends, Beyond
  <2>2. QED
    BY <2>1 DEF RequestsSound
<1>6. DatesPast'
  <2>1. \A r \in Requests : request'[r].at <= today'
    BY <1>3 DEF RequestStep, SetsOff, SignsIn, Opens, GoesOn, Arrives, PassesAccount,
                Chooses, Ends
  <2>2. \A b \in Browsers : cookie'[b].until <= today' + TtlDays
    BY <1>3, <1>j
  <2>3. QED
    BY <2>1, <2>2 DEF DatesPast
<1>7. OpenedSound'
  <2> SUFFICES ASSUME NEW r \in Requests, request'[r].phase = "opened"
               PROVE  LET k == request'[r].token IN
                      /\ k \in DOMAIN sessions'
                      /\ sessions'[k].live => sessions'[k].expires = request'[r].at + TtlDays
                      /\ \A q \in Requests : q # r => request'[q].token # k
                      /\ \A b \in Browsers : cookie'[b].token # k
    BY DEF OpenedSound
  <2>1. CASE Opens(r)
    <3>1. Len(sessions) + 1 \in DOMAIN sessions'
      BY <1>2, <2>1 DEF Opens
    <3>2. QED
      BY <1>3, <1>i, <2>1, <3>1 DEF Opens
  <2>2. CASE request'[r] = request[r]
    <3> DEFINE k == request[r].token
    <3>1. /\ k \in DOMAIN sessions /\ k \in 0..Len(sessions) /\ k # 0
          /\ sessions[k].live => sessions[k].expires = request[r].at + TtlDays
          /\ \A q \in Requests : q # r => request[q].token # k
          /\ \A b \in Browsers : cookie[b].token # k
      BY <1>3, <1>i, <2>2 DEF IInv, OpenedSound
    <3> HIDE DEF k
    <3>2. k \in DOMAIN sessions'
      BY <1>1, <3>1, RowsRemain DEF IInv
    <3>3. ASSUME sessions'[k].live
          PROVE  sessions'[k].expires = request[r].at + TtlDays
      <4>1. ~\E q \in Requests : Renews(q, k)
        BY <2>2, <3>1 DEF Renews, k
      <4>2. sessions'[k] = sessions[k]
        BY <1>1, <3>1, <3>3, <4>1, RowsAfter
      <4>3. QED
        BY <3>1, <3>3, <4>2
    <3>4. ASSUME NEW q \in Requests, q # r PROVE request'[q].token # k
      <4>1. k # Len(sessions) + 1
        BY <1>i, <3>1
      <4>2. QED
        BY <1>3, <3>1, <3>4, <4>1 DEF RequestStep, SetsOff, SignsIn, Opens, GoesOn
    <3>5. ASSUME NEW b \in Browsers PROVE cookie'[b].token # k
      <4>1. ASSUME NEW q \in Requests, request'[q].phase = "done",
                   cookie'[b] = NewCookie(q)
            PROVE  cookie'[b].token # k
        BY <2>2, <3>1, <4>1 DEF NewCookie
      <4>2. QED
        BY <1>3, <3>1, <4>1 DEF CookieStep, NoCookie
    <3>6. QED
      BY <2>2, <3>2, <3>3, <3>4, <3>5 DEF k
  <2>3. QED
    BY <1>3, <2>1, <2>2
       DEF RequestStep, SetsOff, SignsIn, GoesOn, Arrives, PassesAccount, Chooses, Ends
<1>11. ASSUME NEW b \in Browsers, NEW q \in Requests,
              request[q].phase = "opened", request'[q].phase = "done",
              cookie'[b] = NewCookie(q)
       PROVE  /\ cookie'[b].token = request[q].token
              /\ cookie'[b].until = today + TtlDays
              /\ request[q].op = "login" /\ request'[q].op = "login"
              /\ request[q].token \in DOMAIN sessions
              /\ sessions[request[q].token].live
                 => sessions[request[q].token].expires = request[q].at + TtlDays
              /\ today <= request[q].at + 1
              /\ \A r \in Requests : r # q => request'[r].token # request[q].token
  <2>1. /\ request[q].op = "login"
        /\ request[q].token \in DOMAIN sessions /\ request[q].token # 0
        /\ sessions[request[q].token].live
           => sessions[request[q].token].expires = request[q].at + TtlDays
        /\ \A r \in Requests : r # q => request[r].token # request[q].token
        /\ \A c \in Browsers : cookie[c].token # request[q].token
        /\ request[q].token # Len(sessions) + 1
    BY <1>3, <1>i, <1>11 DEF IInv, OpenedSound, RequestsSound
  <2>2. today <= request[q].at + 1
    BY <1>11 DEF IInv, TypeOK, InFlight, UnderWay
  <2>3. request'[q].op = "login"
    BY <1>3, <1>11, <2>1
       DEF RequestStep, SetsOff, SignsIn, Opens, GoesOn, Arrives, PassesAccount, Chooses
  <2>4. \A r \in Requests : r # q => request'[r].token # request[q].token
    BY <1>3, <2>1 DEF RequestStep, SetsOff, SignsIn, Opens, GoesOn
  <2>5. QED
    BY <1>11, <2>1, <2>2, <2>3, <2>4 DEF NewCookie
<1>12. CookiesCovered'
  <2>1. ASSUME NEW b \in Browsers, Live(cookie[b].token)'
        PROVE  /\ cookie'[b].until <= sessions'[cookie'[b].token].expires + 1
               /\ (\E r \in Requests : Renewer(r)' /\ request'[r].token = cookie'[b].token)
                     => cookie'[b].until <= sessions'[cookie'[b].token].expires
    <3>0. /\ cookie'[b].token \in 1..Len(sessions')
          /\ cookie'[b].token \in DOMAIN sessions'
          /\ sessions'[cookie'[b].token].live
      BY <1>2, <2>1 DEF Live
    <3>1. CASE cookie'[b] = cookie[b]
      <4> DEFINE k == cookie[b].token
      <4>1. k \in DOMAIN sessions /\ sessions'[k].live /\ sessions[k] \in SessionRow
        <5>1. k \in 0..Len(sessions) /\ k \in DOMAIN sessions' /\ sessions'[k].live
          BY <1>2, <1>3, <3>0, <3>1
        <5>2. k \in DOMAIN sessions
          BY <1>i, <5>1
        <5>3. QED
          BY <5>1, <5>2, SessionsTyped DEF IInv
      <4>2. CASE sessions'[k] = sessions[k]
        <5>1. /\ cookie[b].until <= sessions[k].expires + 1
              /\ (\E r \in Requests : Renewer(r) /\ request[r].token = k)
                    => cookie[b].until <= sessions[k].expires
          BY <4>1, <4>2 DEF IInv, CookiesCovered, Live
        <5>2. ASSUME NEW r \in Requests, Renewer(r)', request'[r].token = k
              PROVE  cookie[b].until <= sessions[k].expires
          <6>1. \/ request'[r] = request[r]
                \/ Chooses(r) /\ request'[r].plan = "nothing" /\ request[r].token = k
                \/ request[r].phase = "planned" /\ Written(r) /\ request[r].token = k
            BY <1>3, <5>2
               DEF Renewer, LetThrough, RequestStep, SetsOff, SignsIn, Opens, GoesOn,
                   Arrives, PassesAccount, Chooses, Ends
          <6>2. CASE request'[r] = request[r]
            BY <5>1, <5>2, <6>2 DEF Renewer, LetThrough
          <6>3. CASE Chooses(r) /\ request'[r].plan = "nothing" /\ request[r].token = k
            <7>1. sessions[k].expires = request[r].at + TtlDays
              BY <4>1, <6>3 DEF Chooses, Renewed, SessionRow
            <7>2. Holds(r, k)
              BY <6>3 DEF Chooses, Holds
            <7>3. QED
              BY <7>1, <7>2 DEF IInv, CopiesOutliveCookies
          <6>4. CASE request[r].phase = "planned" /\ Written(r) /\ request[r].token = k
            <7>1. CASE request[r].plan = "nothing"
              BY <5>1, <6>4, <7>1 DEF Renewer
            <7>2. CASE sessions'[k] = Renewed(k, request[r].at)
              <8>1. sessions[k].expires = request[r].at + TtlDays
                BY <4>1, <4>2, <7>2 DEF Renewed, SessionRow
              <8>2. Holds(r, k)
                BY <6>4 DEF Holds
              <8>3. QED
                BY <8>1, <8>2 DEF IInv, CopiesOutliveCookies
            <7>3. QED
              BY <4>1, <6>4, <7>1, <7>2 DEF Written
          <6>5. QED
            BY <6>1, <6>2, <6>3, <6>4
        <5>3. QED
          BY <3>1, <4>2, <5>1, <5>2
      <4>3. CASE \E q \in Requests :
                   /\ Renews(q, k) /\ Holds(q, k)
                   /\ sessions'[k].expires = request[q].at + TtlDays
                   /\ today <= request[q].at + 1
        <5>1. cookie[b].until <= sessions'[k].expires
          BY <4>3 DEF IInv, CopiesOutliveCookies
        <5>2. cookie[b].until \in Nat /\ sessions'[k].expires \in Nat
          BY <1>3, <4>3
        <5>3. QED
          BY <3>1, <5>1, <5>2
      <4>4. QED
        BY <1>1, <4>1, <4>2, <4>3, RowsAfter
    <3>2. CASE cookie'[b] = NoCookie
      BY <3>0, <3>2 DEF NoCookie
    <3>3. ASSUME NEW q \in Requests,
                 request[q].phase = "opened", request'[q].phase = "done",
                 cookie'[b] = NewCookie(q), sessions' = sessions
          PROVE  /\ cookie'[b].until <= sessions'[cookie'[b].token].expires + 1
                 /\ ~\E r \in Requests : Renewer(r)' /\ request'[r].token = cookie'[b].token
      <4>1. sessions[request[q].token].live /\ cookie'[b].token = request[q].token
        BY <1>11, <3>0, <3>3
      <4>2. cookie'[b].until <= sessions'[cookie'[b].token].expires + 1
        <5>1. /\ sessions'[cookie'[b].token].expires = request[q].at + TtlDays
              /\ cookie'[b].until = today + TtlDays /\ today <= request[q].at + 1
          BY <1>11, <3>3, <4>1
        <5>2. request[q].at \in Nat /\ today \in Nat
          BY DEF IInv, TypeOK, RequestState
        <5>3. QED
          BY <5>1, <5>2, TtlAssumption
      <4>3. ~\E r \in Requests : Renewer(r)' /\ request'[r].token = cookie'[b].token
        BY <1>11, <3>3, <4>1 DEF Renewer, LetThrough
      <4>4. QED
        BY <4>2, <4>3
    <3>4. QED
      BY <1>3, <3>1, <3>2, <3>3 DEF CookieStep
  <2>2. QED
    BY <2>1 DEF CookiesCovered
<1>8. CopiesOutliveCookies'
  <2>1. ASSUME NEW b \in Browsers, NEW r \in Requests, Holds(r, cookie[b].token)'
        PROVE  cookie'[b].until <= request'[r].at + TtlDays
    <3>0. /\ request'[r].phase \in {"found", "renewing", "planned"}
          /\ request'[r].token = cookie'[b].token
      BY <2>1 DEF Holds
    <3>1. cookie'[b].until \in Nat /\ cookie'[b].until <= today + TtlDays
      BY <1>j
    <3>2. CASE request'[r].at = today
      BY <3>1, <3>2
    <3>3. CASE /\ request'[r].at = request[r].at
               /\ request'[r].token = request[r].token
               /\ request[r].phase \in {"found", "renewing", "planned"}
      <4>1. CASE cookie'[b] = cookie[b]
        BY <3>0, <3>3, <4>1 DEF Holds, IInv, CopiesOutliveCookies
      <4>2. CASE cookie'[b] = NoCookie
        BY <1>3, <4>2 DEF NoCookie
      <4>3. CASE \E q \in Requests :
                   /\ request[q].phase = "opened" /\ request'[q].phase = "done"
                   /\ cookie'[b] = NewCookie(q)
        BY <1>11, <3>0, <3>3, <4>3
      <4>4. QED
        BY <1>3, <4>1, <4>2, <4>3 DEF CookieStep
    <3>4. request'[r].at = today
          \/ /\ request'[r].at = request[r].at
             /\ request'[r].token = request[r].token
             /\ request[r].phase \in {"found", "renewing", "planned"}
      BY <1>3, <3>0
         DEF RequestStep, SetsOff, SignsIn, Opens, GoesOn, Arrives, PassesAccount,
             Chooses, Ends
    <3>5. QED
      BY <3>2, <3>3, <3>4
  <2>2. QED
    BY <2>1 DEF CopiesOutliveCookies
<1>9. RenewalsCovered'
  <2>1. ASSUME NEW r \in Requests, Renewer(r)', Live(request[r].token)'
        PROVE  request'[r].at + TtlDays <= sessions'[request'[r].token].expires + 1
    <3> DEFINE k == request[r].token
    <3>1. /\ request'[r].at = request[r].at /\ request'[r].token = k
          /\ \/ request'[r] = request[r]
             \/ Chooses(r) /\ request'[r].plan = "nothing"
             \/ /\ request[r].phase = "planned" /\ Written(r)
      BY <1>3, <2>1
         DEF Renewer, LetThrough, RequestStep, SetsOff, SignsIn, Opens, GoesOn, Arrives,
             PassesAccount, Chooses, Ends
    <3>2. k \in DOMAIN sessions /\ sessions'[k].live /\ sessions[k] \in SessionRow
      <4>1. k \in DOMAIN sessions' /\ sessions'[k].live /\ k \in 0..Len(sessions)
        BY <1>3, <2>1, <3>1 DEF Live
      <4>2. k \in DOMAIN sessions
        BY <1>i, <4>1
      <4>3. QED
        BY <4>1, <4>2, SessionsTyped DEF IInv
    <3>3. ASSUME NEW q \in Requests, sessions'[k].expires = request[q].at + TtlDays,
                 today <= request[q].at + 1
          PROVE  request[r].at + TtlDays <= sessions'[k].expires + 1
      BY <1>3, <3>3
    <3>4. ASSUME sessions[k].expires = request[r].at + TtlDays,
                 sessions'[k] = sessions[k]
          PROVE  request[r].at + TtlDays <= sessions'[k].expires + 1
      BY <1>3, <3>4
    <3>5. ASSUME Renewer(r), sessions'[k] = sessions[k]
          PROVE  request[r].at + TtlDays <= sessions'[k].expires + 1
      BY <3>2, <3>5 DEF IInv, RenewalsCovered, Live
    <3>6. ASSUME request[r].phase = "planned", Written(r), sessions'[k] = sessions[k]
          PROVE  request[r].at + TtlDays <= sessions'[k].expires + 1
      <4>1. CASE request[r].plan = "nothing"
        BY <3>5, <3>6, <4>1 DEF Renewer
      <4>2. CASE sessions'[k] = Renewed(k, request[r].at)
        BY <1>3, <3>2, <4>2 DEF Renewed, SessionRow
      <4>3. QED
        BY <3>2, <3>6, <4>1, <4>2 DEF Written
    <3>7. ASSUME Chooses(r), request'[r].plan = "nothing"
          PROVE  sessions[k].expires = request[r].at + TtlDays
      BY <3>2, <3>7 DEF Chooses, Renewed, SessionRow
    <3>8. request'[r] = request[r] => Renewer(r)
      BY <2>1 DEF Renewer, LetThrough
    <3>9. CASE sessions'[k] = sessions[k]
      BY <3>1, <3>4, <3>5, <3>6, <3>7, <3>8, <3>9
    <3>10. QED
      BY <1>1, <3>1, <3>2, <3>3, <3>9, RowsAfter
  <2>2. QED
    BY <2>1 DEF RenewalsCovered
<1>10. QED
  BY <1>4, <1>5, <1>6, <1>7, <1>8, <1>9, <1>12 DEF IInv

-----------------------------------------------------------------------------
(* The theorems.                                                           *)

\* The inductive invariant: what Sessions' properties rest on.
THEOREM Inductive == Spec => []IInv
BY InitIInv, StepIInv, PTL DEF Spec

\* Every variable keeps its shape: tokens are issued ones, and no request in
\* flight is more than a day behind the clock.
THEOREM TypeCorrect == Spec => []TypeOK
<1>1. IInv => TypeOK
  BY DEF IInv
<1>2. QED
  BY <1>1, Inductive, PTL

\* A cookie outlives its session in the table by no more than the sign-in took,
\* and not at all once that session has let a request through, whatever
\* renewals, sign-outs and midnights overlap.
THEOREM CookiesGoFirst == Spec => []CookieDiesFirst
<1>1. IInv => CookieDiesFirst
  BY DEF IInv, CookiesCovered, CookieDiesFirst, Renewer
<1>2. QED
  BY <1>1, Inductive, PTL

\* However renewals overlap, one that let a request through costs the session
\* at most a day of its lifetime.
THEOREM RenewalsAlwaysHold == Spec => []RenewalsHold
<1>1. IInv => RenewalsHold
  BY DEF IInv, RenewalsCovered, Renewer, RenewalsHold
<1>2. QED
  BY <1>1, Inductive, PTL

\* A session that is gone comes back only through a request that held a copy.
THEOREM EndedForGood == Spec => EndedStaysEnded
<1>1. ASSUME IInv, [Next]_vars PROVE [KeepsEnded]_vars
  <2>1. TableStep /\ RequestsStep
    BY <1>1, NextSteps
  <2>2. ASSUME NEW k \in DOMAIN sessions, Ended(k) PROVE Ended(k)'
    <3>1. ~sessions'[k].live
      BY <1>1, <2>1, <2>2, RowsAfter DEF Ended
    <3>2. ASSUME NEW r \in Requests PROVE ~Holds(r, k)'
      BY <2>1, <2>2
         DEF Ended, Holds, Live, RequestsStep, RequestStep, SetsOff, SignsIn, Opens,
             GoesOn, Arrives, PassesAccount, Chooses, Ends
    <3>3. QED
      BY <3>1, <3>2 DEF Ended
  <2>3. QED
    BY <2>2 DEF KeepsEnded
<1>2. QED
  BY <1>1, Inductive, PTL DEF Spec, EndedStaysEnded

\* Once an account is closed, only requests past its look-up renew a session of
\* it or bring one back.
THEOREM ClosedForGood == Spec => ClosedAccountsStayOut
<1>1. ASSUME IInv, [Next]_vars PROVE [KeepsDormant]_vars
  <2>1. TableStep /\ RequestsStep /\ AccountsStep
    BY <1>1, NextSteps
  <2>2. ASSUME NEW k \in DOMAIN sessions, Dormant(k)
        PROVE  /\ Dormant(k)'
               /\ sessions'[k].seen = sessions[k].seen
               /\ sessions'[k].live => sessions[k].live
    <3>1. \A r \in Requests : ~Renews(r, k)
      BY <2>2 DEF Dormant, Renews, Holds
    <3>2. sessions[k] \in SessionRow /\ RowStep(k)
      BY <1>1, <2>1, SessionsTyped, TableGrows DEF IInv
    <3>3. /\ sessions'[k].user = sessions[k].user
          /\ sessions'[k].seen = sessions[k].seen
          /\ sessions'[k].live => sessions[k].live
      BY <3>1, <3>2 DEF RowStep, SessionRow
    <3>4. ASSUME NEW r \in Requests, Holds(r, k)' PROVE request'[r].phase = "found"
      BY <2>1, <2>2, <3>4
         DEF Dormant, Holds, RequestsStep, RequestStep, SetsOff, SignsIn, Opens,
             GoesOn, Arrives, PassesAccount, Chooses, Ends
    <3>5. QED
      BY <2>1, <2>2, <3>3, <3>4 DEF Dormant, AccountsStep
  <2>3. QED
    BY <2>2 DEF KeepsDormant
<1>2. QED
  BY <1>1, Inductive, PTL DEF Spec, ClosedAccountsStayOut

\* A step ends sessions in three ways only: a request ends the one it carries,
\* or pruning ends those that have expired (destroySession, resolveSession,
\* pruneExpiredSessions).
LEMMA WhatEndsSessions ==
    ASSUME IInv, [Next]_vars, NEW k \in DOMAIN sessions,
           sessions[k].live, ~sessions'[k].live
    PROVE  \/ sessions[k].expires < today
           \/ \E r \in Requests : /\ request[r].token = k
                                  /\ request[r].phase \in {"expired", "leaving"}
                                  /\ request'[r].phase = "done"
<1>1. /\ sessions \in Seq(SessionRow) /\ Len(sessions) \in Nat
      /\ DOMAIN sessions = 1..Len(sessions)
      /\ request \in [Requests -> RequestState]
  BY SessionsTyped DEF IInv, TypeOK
<1>2. CASE sessions' = sessions
  BY <1>2
<1>3. ASSUME NEW r \in Requests, Expire(r) \/ DestroySession(r)
      PROVE  /\ request[r].token = k
             /\ request[r].phase \in {"expired", "leaving"}
             /\ request'[r].phase = "done"
  <2>1. /\ sessions' = Without(request[r].token)
        /\ request[r].phase \in {"expired", "leaving"}
        /\ \E status : Answer(r, status)
    BY <1>3 DEF Expire, DestroySession, AnswerLogout
  <2>2. request[r].token = k
    BY <2>1 DEF Without
  <2>3. PICK status : request' = [request EXCEPT ![r].phase = "done",
                                    ![r].plan = "none", ![r].status = status]
    BY <2>1 DEF Answer
  <2>4. request[r] \in RequestState
    BY <1>1
  <2>5. request'[r].phase = "done"
    BY <1>1, <2>3, <2>4 DEF RequestState
  <2>6. QED
    BY <2>1, <2>2, <2>5
<1>4. ASSUME NEW r \in Requests, Commit(r) PROVE FALSE
  <2>1. \/ sessions' = sessions
        \/ sessions' = [sessions EXCEPT ![request[r].token] =
                            Renewed(request[r].token, request[r].at)]
    BY <1>4 DEF Commit
  <2>2. sessions' # sessions /\ request[r].token \in DOMAIN sessions
        /\ k = request[r].token
    BY <2>1
  <2>3. sessions'[k] = Renewed(k, request[r].at)
    BY <2>1, <2>2
  <2>4. sessions[k] \in SessionRow
    BY <1>1
  <2>5. Renewed(k, request[r].at).live = TRUE
    BY <2>4 DEF Renewed, SessionRow
  <2>6. QED
    BY <2>3, <2>5
<1>5. ASSUME NEW r \in Requests, NEW u \in Users, CreateSession(r, u) PROVE FALSE
  <2> DEFINE row == [user |-> u, seen |-> request[r].at,
                     expires |-> request[r].at + TtlDays, live |-> TRUE]
  <2>1. sessions' = Append(sessions, row)
    BY <1>5 DEF CreateSession
  <2>2. row \in SessionRow
    BY <1>1, TtlAssumption DEF SessionRow, RequestState
  <2> HIDE DEF row
  <2>3. sessions'[k] = sessions[k]
    BY <1>1, <2>1, <2>2, AppendProperties
  <2>4. QED
    BY <2>3
<1>6. CASE PruneExpiredSessions
  BY <1>6 DEF PruneExpiredSessions
<1>7. QED
  BY <1>2, <1>3, <1>4, <1>5, <1>6
  DEF Next, vars, Send, Resolve, Refuse, Arrive, LookUp, Reload, Clash, Logout,
      LogoutOfNothing, Leave, SignIn, Login, ReceiveCookie, CloseAccount, Tick, Restart

\* A session in the table that has not expired goes only with a request of its
\* own: another device signing out, or renewing, does not touch it.
THEOREM OthersLeftAlone == Spec => LeavesOthersAlone
<1> DEFINE Spared == \A k \in DOMAIN sessions :
                        Live(k) /\ ~Expired(k) /\ ~Live(k)' =>
                            \E r \in Requests : Finishes(r) /\ request[r].token = k
<1>1. ASSUME IInv, [Next]_vars PROVE [Spared]_vars
  <2> SUFFICES ASSUME NEW k \in DOMAIN sessions, Live(k), ~Expired(k), ~Live(k)'
               PROVE  \E r \in Requests : Finishes(r) /\ request[r].token = k
    OBVIOUS
  <2>1. TableStep
    BY <1>1, NextSteps
  <2>2. /\ k \in DOMAIN sessions' /\ sessions[k] \in SessionRow
        /\ sessions[k].expires \in Nat /\ today \in Nat
    <3>1. k \in DOMAIN sessions'
      BY <1>1, <2>1, RowsRemain DEF IInv
    <3>2. TypeOK
      BY <1>1 DEF IInv
    <3>3. sessions[k] \in SessionRow /\ today \in Nat
      BY <3>2, SessionsTyped DEF TypeOK
    <3>4. QED
      BY <3>1, <3>3 DEF SessionRow
  <2>3. sessions[k].live /\ ~sessions'[k].live /\ ~(sessions[k].expires < today)
    BY <2>2 DEF Live, Expired
  <2>4. QED
    BY <1>1, <2>3, WhatEndsSessions DEF Finishes
<1>2. QED
  BY <1>1, Inductive, PTL DEF Spec, LeavesOthersAlone

=============================================================================
