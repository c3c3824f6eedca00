------------------------------ MODULE Sessions ------------------------------
(***************************************************************************)
(* The application's sessions: AuthService.createSession, resolveSession,  *)
(* destroySession and pruneExpiredSessions over the sessions table, and    *)
(* the cookies of the browsers that carry their tokens.                    *)
(*                                                                         *)
(* SessionGuard resolves the session on every protected route. It takes    *)
(* five visits to the database or the network, and other requests run      *)
(* between any two of them:                                                *)
(*   Arrive     findOne by token, and the comparison with the clock;       *)
(*   Expire     the DELETE of a session found expired;                     *)
(*   LookUp     findOne of the account;                                    *)
(*   Reload     Repository.save reads the row again, to find out whether   *)
(*              it has an INSERT, an UPDATE or nothing to do;              *)
(*   Commit     the statement it chose.                                    *)
(* A logout is findOne and then a DELETE by identifier. A sign-in reads the *)
(* clock for the row, inserts it, and only then is the cookie on its way,  *)
(* whose Max-Age runs from the day the browser gets it.                    *)
(*                                                                         *)
(* Sessions are numbered in the order they are opened, and a number stands *)
(* for the token, its hash and the row's identifier, which are as unique.  *)
(* A row that was deleted stays in the sequence with live = FALSE.         *)
(***************************************************************************)
EXTENDS Naturals, Sequences

CONSTANTS
    Browsers,      \* each with its own cookie jar
    Users,         \* accounts
    Requests,      \* the requests that may be under way together
    TtlDays,       \* SESSION_TTL_DAYS
    MaxDay,        \* bound: the last day of a behaviour
    MaxSessions    \* bound: the sessions opened in a behaviour

ASSUME TtlAssumption == TtlDays \in Nat \ {0}
ASSUME BoundsAssumption == MaxDay \in Nat /\ MaxSessions \in Nat

VARIABLES
    sessions,   \* the sessions table
    closed,     \* the accounts whose row carries a tombstone
    cookie,     \* the session cookie in each browser
    request,    \* what each request is doing
    today       \* the clock, in days

vars == <<sessions, closed, cookie, request, today>>

SessionRow == [user: Users, seen: Nat, expires: Nat, live: BOOLEAN]

NoCookie == [token |-> 0, until |-> 0]
Cookie == [token: Nat, until: Nat]

\* "arriving": the request is on its way with the token it carries; "opened":
\* the row is there and the answer with its token is on its way.
UnderWay == {"arriving", "expired", "found", "renewing", "planned", "leaving",
             "opening", "opened"}
Plans == {"none", "insert", "update", "nothing"}
Lost == 0   \* no answer: the connection went down with the process
Statuses == {200, 401, 500, Lost}

\* "at" is the day the request set off, and then the `now` of resolveSession or
\* createSession.
RequestState ==
    [phase: UnderWay \union {"idle", "done"}, op: {"use", "logout", "login"},
     browser: Browsers, token: Nat, at: Nat, plan: Plans, status: Statuses]

InFlight(r) == request[r].phase \in UnderWay

Init ==
    /\ sessions = <<>>
    /\ closed = {}
    /\ cookie = [b \in Browsers |-> NoCookie]
    /\ \E b \in Browsers :
         request = [r \in Requests |->
            [phase |-> "idle", op |-> "use", browser |-> b, token |-> 0,
             at |-> 0, plan |-> "none", status |-> Lost]]
    /\ today = 0

-----------------------------------------------------------------------------
(* The table and the jars.                                                 *)

\* Mutant: findOne answered from a cache that a DELETE does not empty.
EverLive(k) == k \in DOMAIN sessions

Live(k) == k \in DOMAIN sessions /\ sessions[k].live

\* A browser drops a cookie when its Max-Age is over.
Carries(b) == cookie[b].token # 0 /\ today < cookie[b].until

Token(b) == IF Carries(b) THEN cookie[b].token ELSE 0

Expired(k) == sessions[k].expires <= today

\* Mutant: the token drawn again for the cookie.
NewCookieOfItsOwn(r) == [token |-> Len(sessions) + 1, until |-> today + TtlDays]

\* What callback writes, in the browser that gets it today.
NewCookie(r) == [token |-> request[r].token, until |-> today + TtlDays]

\* Mutants: a renewal that is good for a day, whatever SESSION_TTL_DAYS says;
\* a renewal that forgets expiresAt, and the session ends on a fixed day.
RenewedForADay(k, now) ==
    [sessions[k] EXCEPT !.seen = now, !.expires = now + 1, !.live = TRUE]

RenewedSeenOnly(k, now) == [sessions[k] EXCEPT !.seen = now, !.live = TRUE]

\* lastSeenAt and expiresAt as resolveSession sets them.
Renewed(k, now) ==
    [sessions[k] EXCEPT !.seen = now, !.expires = now + TtlDays, !.live = TRUE]

\* Mutant: DELETE ... WHERE user_id = $1.
WithoutAccount(k) ==
    [j \in DOMAIN sessions |->
        IF sessions[j].user = sessions[k].user
        THEN [sessions[j] EXCEPT !.live = FALSE] ELSE sessions[j]]

\* sessions.delete(id): nothing happens when the row is gone already.
Without(k) ==
    [j \in DOMAIN sessions |->
        IF j = k THEN [sessions[j] EXCEPT !.live = FALSE] ELSE sessions[j]]

-----------------------------------------------------------------------------
(* Requests.                                                               *)

\* A browser sends a request, with the cookie it has.
Send(r, b, op) ==
    /\ ~InFlight(r)
    /\ request' = [request EXCEPT ![r] =
          [phase |-> "arriving", op |-> op, browser |-> b, token |-> Token(b),
           at |-> today, plan |-> "none", status |-> Lost]]
    /\ UNCHANGED <<sessions, closed, cookie, today>>

Proceed(r, phase, plan) ==
    request' = [request EXCEPT ![r].phase = phase, ![r].at = today,
                               ![r].plan = plan]

Answer(r, status) ==
    request' = [request EXCEPT ![r].phase = "done", ![r].plan = "none",
                               ![r].status = status]

\* The guard refuses: no cookie, no row, or a row that has expired.
Refuse(r) ==
    /\ request[r].phase = "arriving" /\ request[r].op = "use"
    /\ ~Live(request[r].token)
    /\ Answer(r, 401)
    /\ UNCHANGED <<sessions, closed, cookie, today>>

Arrive(r) ==
    /\ request[r].phase = "arriving" /\ request[r].op = "use"
    /\ Live(request[r].token)
    /\ Proceed(r, IF Expired(request[r].token) THEN "expired" ELSE "found", "none")
    /\ UNCHANGED <<sessions, closed, cookie, today>>

Expire(r) ==
    /\ request[r].phase = "expired"
    /\ sessions' = Without(request[r].token)
    /\ Answer(r, 401)
    /\ UNCHANGED <<closed, cookie, today>>

\* Mutant: the account taken from the session without asking for it.
LookUpNothing(r) ==
    /\ request[r].phase = "found"
    /\ request' = [request EXCEPT ![r].phase = "renewing"]
    /\ UNCHANGED <<sessions, closed, cookie, today>>

\* findOne leaves out an account with a tombstone. The row itself is there: no
\* code deletes it, and its sessions would go with it.
LookUp(r) ==
    LET k == request[r].token
    IN  /\ request[r].phase = "found"
        /\ IF sessions[k].user \in closed
           THEN Answer(r, 401)
           ELSE request' = [request EXCEPT ![r].phase = "renewing"]
        /\ UNCHANGED <<sessions, closed, cookie, today>>

\* save compares the entity with the row of that identifier: no row means an
\* INSERT, a row with the same two columns nothing at all.
Reload(r) ==
    LET k == request[r].token
        now == request[r].at
    IN  /\ request[r].phase = "renewing"
        /\ request' = [request EXCEPT ![r].phase = "planned", ![r].plan =
              IF ~sessions[k].live THEN "insert"
              ELSE IF sessions[k] = Renewed(k, now) THEN "nothing"
              ELSE "update"]
        /\ UNCHANGED <<sessions, closed, cookie, today>>

\* An UPDATE finds the row or changes nothing; either way the guard lets the
\* request through.
Commit(r) ==
    LET k == request[r].token
    IN  /\ request[r].phase = "planned"
        /\ request[r].plan = "insert" => ~sessions[k].live
        /\ sessions' =
              IF \/ request[r].plan = "insert"
                 \/ (request[r].plan = "update" /\ sessions[k].live)
              THEN [sessions EXCEPT ![k] = Renewed(k, request[r].at)]
              ELSE sessions
        /\ Answer(r, 200)
        /\ UNCHANGED <<closed, cookie, today>>

\* The INSERT of a row that another request has put back meanwhile.
Clash(r) ==
    /\ request[r].phase = "planned" /\ request[r].plan = "insert"
    /\ sessions[request[r].token].live
    /\ Answer(r, 500)
    /\ UNCHANGED <<sessions, closed, cookie, today>>

-----------------------------------------------------------------------------
(* Signing out. The answer clears the cookie whether or not buildLogoutUrl  *)
(* can reach Keycloak, and whatever cookie the browser has by then.         *)

AnswerLogout(r) ==
    /\ \/ /\ \E status \in {200, 500} : Answer(r, status)
          /\ cookie' = [cookie EXCEPT ![request[r].browser] = NoCookie]
       \/ Answer(r, Lost) /\ UNCHANGED cookie
    /\ UNCHANGED <<closed, today>>

\* Nothing to end: no cookie, or no row.
LogoutOfNothing(r) ==
    /\ request[r].phase = "arriving" /\ request[r].op = "logout"
    /\ ~Live(request[r].token)
    /\ AnswerLogout(r)
    /\ UNCHANGED sessions

Leave(r) ==
    /\ request[r].phase = "arriving" /\ request[r].op = "logout"
    /\ Live(request[r].token)
    /\ Proceed(r, "leaving", "none")
    /\ UNCHANGED <<sessions, closed, cookie, today>>

DestroySession(r) ==
    /\ request[r].phase = "leaving"
    /\ sessions' = Without(request[r].token)
    /\ AnswerLogout(r)

-----------------------------------------------------------------------------
(* Signing in: what callback does once it has the account.                 *)

\* createSession begins, and takes its `now`.
SignIn(r, b) ==
    /\ ~InFlight(r)
    /\ request' = [request EXCEPT ![r] =
          [phase |-> "opening", op |-> "login", browser |-> b, token |-> 0,
           at |-> today, plan |-> "none", status |-> Lost]]
    /\ UNCHANGED <<sessions, closed, cookie, today>>

\* The INSERT. The account was read before, and may have been closed since.
CreateSession(r, u) ==
    /\ request[r].phase = "opening" /\ Len(sessions) < MaxSessions
    /\ sessions' = Append(sessions,
          [user |-> u, seen |-> request[r].at,
           expires |-> request[r].at + TtlDays, live |-> TRUE])
    /\ request' = [request EXCEPT ![r].phase = "opened",
                                  ![r].token = Len(sessions) + 1]
    /\ UNCHANGED <<closed, cookie, today>>

\* The browser gets the cookie, or the answer is lost on its way.
ReceiveCookie(r) ==
    /\ request[r].phase = "opened"
    /\ \/ /\ Answer(r, 200)
          /\ cookie' = [cookie EXCEPT ![request[r].browser] = NewCookie(r)]
       \/ Answer(r, Lost) /\ UNCHANGED cookie
    /\ UNCHANGED <<sessions, closed, today>>

-----------------------------------------------------------------------------
(* The rest of the world.                                                  *)

\* pruneExpiredSessions, which nothing schedules yet.
PruneExpiredSessions ==
    /\ sessions' = [k \in DOMAIN sessions |->
          IF sessions[k].expires < today
          THEN [sessions[k] EXCEPT !.live = FALSE] ELSE sessions[k]]
    /\ UNCHANGED <<closed, cookie, request, today>>

\* Someone puts a tombstone on an account by hand.
CloseAccount(u) ==
    /\ closed' = closed \union {u}
    /\ UNCHANGED <<sessions, cookie, request, today>>

\* Requests take less than a day: from its `now` to its end one midnight may
\* pass, and no more.
Tick ==
    /\ today < MaxDay
    /\ \A r \in Requests : InFlight(r) => request[r].at = today
    /\ today' = today + 1
    /\ UNCHANGED <<sessions, closed, cookie, request>>

\* The process goes down and comes back with nothing in flight.
Restart ==
    /\ \E r \in Requests : InFlight(r)
    /\ request' = [r \in Requests |->
          IF InFlight(r)
          THEN [request[r] EXCEPT !.phase = "done", !.plan = "none", !.status = Lost]
          ELSE request[r]]
    /\ UNCHANGED <<sessions, closed, cookie, today>>

Resolve(r) ==
    \/ Refuse(r) \/ Arrive(r) \/ Expire(r) \/ LookUp(r)
    \/ Reload(r) \/ Commit(r) \/ Clash(r)

Logout(r) == LogoutOfNothing(r) \/ Leave(r) \/ DestroySession(r)

Login(r) == (\E u \in Users : CreateSession(r, u)) \/ ReceiveCookie(r)

Next ==
    \/ \E r \in Requests, b \in Browsers, op \in {"use", "logout"} : Send(r, b, op)
    \/ \E r \in Requests, b \in Browsers : SignIn(r, b)
    \/ \E r \in Requests : Resolve(r) \/ Logout(r) \/ Login(r)
    \/ PruneExpiredSessions
    \/ \E u \in Users : CloseAccount(u)
    \/ Tick
    \/ Restart

Spec == Init /\ [][Next]_vars

-----------------------------------------------------------------------------
(* Properties.                                                             *)

\* Every variable keeps its shape; a token a browser or a request carries is
\* one that was issued, and no request lives through two midnights in a step.
TypeOK ==
    /\ sessions \in Seq(SessionRow)
    /\ closed \subseteq Users
    /\ cookie \in [Browsers -> Cookie]
    /\ request \in [Requests -> RequestState]
    /\ today \in Nat
    /\ \A b \in Browsers : cookie[b].token \in 0..Len(sessions)
    /\ \A r \in Requests : request[r].token \in 0..Len(sessions)
    /\ \A r \in Requests : InFlight(r) => today <= request[r].at + 1

\* A request that its session let through.
LetThrough(r) ==
    request[r].phase = "done" /\ request[r].status = 200 /\ request[r].op = "use"

\* The cookie outlives its session by no more than the sign-in took, which
\* dates the row when it begins and the cookie when it ends; and once the
\* session has let a request through, not at all: whatever renewals overlap, a
\* row in the table is good for as long as the cookie that carries it
\* (createSession, callback, resolveSession).
CookieDiesFirst ==
    \A b \in Browsers :
        LET k == cookie[b].token IN
        Live(k) =>
          /\ cookie[b].until <= sessions[k].expires + 1
          /\ (\E r \in Requests : LetThrough(r) /\ request[r].token = k)
                => cookie[b].until <= sessions[k].expires

\* "Pushing the expiry forward", however renewals overlap: a session that let a
\* request through on some day is good for TtlDays from then, less at most the
\* day by which a renewal that began earlier may set it back.
RenewalsHold ==
    \A r \in Requests :
        LetThrough(r) /\ Live(request[r].token)
        => request[r].at + TtlDays <= sessions[request[r].token].expires + 1

Finishes(r) == request[r].phase # "done" /\ request'[r].phase = "done"

\* "Signing out on one device leaves the others alone": a session in the table
\* that has not expired goes only when a request with its own token finishes.
LeavesOthersAlone ==
    [][\A k \in DOMAIN sessions :
          Live(k) /\ ~Expired(k) /\ ~Live(k)' =>
              \E r \in Requests : Finishes(r) /\ request[r].token = k]_vars

\* A request that holds a copy of session k.
Holds(r, k) ==
    /\ request[r].phase \in {"found", "renewing", "planned"}
    /\ request[r].token = k

\* A session that is gone and that no request holds a copy of.
Ended(k) == ~sessions[k].live /\ \A r \in Requests : ~Holds(r, k)

KeepsEnded == \A k \in DOMAIN sessions : Ended(k) => Ended(k)'

\* "A row can be deleted, so logging out and disconnecting a device are a
\* DELETE": nothing brings a session back that no request still holds.
EndedStaysEnded == [][KeepsEnded]_vars

\* A session of a closed account that no request holds beyond the look-up.
Dormant(k) ==
    /\ sessions[k].user \in closed
    /\ \A r \in Requests : Holds(r, k) => request[r].phase = "found"

KeepsDormant ==
    \A k \in DOMAIN sessions :
        Dormant(k) => /\ Dormant(k)'
                      /\ sessions'[k].seen = sessions[k].seen
                      /\ sessions'[k].live => sessions[k].live

\* resolveSession's look-up of the account: once an account is closed, its
\* sessions are renewed only by the requests that were past the look-up.
ClosedAccountsStayOut == [][KeepsDormant]_vars

-----------------------------------------------------------------------------
(* What comments and tests say and the code does not do.                   *)

\* "Closes the session at logout, which stops working" (auth.e2e-spec.ts:112):
\* a session that a logout ended with 200 is not in the table.
LogoutIsFinal ==
    \A r \in Requests :
        /\ request[r].phase = "done" /\ request[r].op = "logout"
        /\ request[r].status = 200
        => ~Live(request[r].token)

=============================================================================
