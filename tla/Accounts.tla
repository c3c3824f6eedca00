------------------------------ MODULE Accounts ------------------------------
(***************************************************************************)
(* Signing in: the round trip to Keycloak (AuthController.login, callback  *)
(* and OidcService) and the account it ends with (findOrCreateUser).       *)
(*                                                                         *)
(* A round trip starts with a state cookie and comes back as a request to  *)
(* the callback. That request visits Keycloak once and the database up to  *)
(* four times, and other sign-ins run between any two visits:              *)
(*   Exchange     the code for the tokens, which Keycloak does once;       *)
(*   FindBySub    findOne by `sub`;                                        *)
(*   FindByEmail  findOne by email, when Keycloak vouches for it;          *)
(*   Reload, Save Repository.save of the row found by email: it reads the  *)
(*                row again and writes the columns that differ;            *)
(*   Insert       Repository.save of a new row;                            *)
(*   OpenSession  createSession, of which Sessions has the rest.           *)
(* A row is numbered by its place in the sequence; no code deletes one.    *)
(***************************************************************************)
EXTENDS Naturals, Sequences

CONSTANTS
    Browsers,      \* each with its own cookie jar
    Requests,      \* the callbacks that may be under way together
    Identities,    \* what Keycloak may say of who signs in
    Seed,          \* the rows the migration leaves behind
    NoSub,         \* keycloak_sub IS NULL
    MaxTrips,      \* bound: the round trips of a behaviour
    MaxUsers       \* bound: the rows of the table, which Insert respects

Subs == {i.sub : i \in Identities}
Emails == {i.email : i \in Identities} \union {Seed[k].email : k \in DOMAIN Seed}

\* OidcIdentity, without the name that goes with it.
Identity == [sub: Subs, email: Emails, verified: BOOLEAN]

UserRow == [sub: Subs \union {NoSub}, email: Emails, deleted: BOOLEAN]

ASSUME IdentitiesAssumption == Identities \subseteq Identity /\ NoSub \notin Subs
ASSUME SeedAssumption ==
    /\ Seed \in Seq(UserRow)
    /\ \A k \in DOMAIN Seed : Seed[k].sub = NoSub
    /\ \A j, k \in DOMAIN Seed : Seed[j].email = Seed[k].email => j = k
ASSUME MaxAssumption == MaxTrips \in Nat /\ MaxUsers \in Nat

VARIABLES
    users,         \* the users table
    trips,         \* the round trips begun: the browser, and is the code spent?
    stateCookie,   \* the trip in each browser's state cookie, 0 for none
    callback,      \* what each request to the callback is doing
    own            \* history: has the row in a request's hands borne its `sub`
                   \* since the request got hold of it?

vars == <<users, trips, stateCookie, callback, own>>

Trip == [browser: Browsers, spent: BOOLEAN]

UnderWay == {"arriving", "identified", "searching", "inserting", "adopting",
             "planned", "opening"}

Lost == 0   \* no answer: the connection went down with the process
Statuses == {302, 400, 500, Lost}

\* "cookie" is the trip of the cookie that came along; "account" the row in
\* hand; "attaches" and "reopens" the columns that save found to differ.
CallbackState ==
    [phase: UnderWay \union {"idle", "done"}, browser: Browsers, trip: Nat,
     cookie: Nat, identity: Identities, account: Nat, attaches: BOOLEAN,
     reopens: BOOLEAN, status: Statuses]

InFlight(r) == callback[r].phase \in UnderWay

Init ==
    /\ users = Seed
    /\ trips = <<>>
    /\ stateCookie = [b \in Browsers |-> 0]
    /\ \E b \in Browsers, i \in Identities :
         callback = [r \in Requests |->
            [phase |-> "idle", browser |-> b, trip |-> 0, cookie |-> 0,
             identity |-> i, account |-> 0, attaches |-> FALSE,
             reopens |-> FALSE, status |-> Lost]]
    /\ own = [r \in Requests |-> FALSE]

-----------------------------------------------------------------------------
(* The table.                                                              *)

\* Mutants: the tombstone forgotten; the address not asked to be vouched for.
BySubWithDeleted(i) == {k \in DOMAIN users : users[k].sub = i.sub}
ByAnyEmail(i) == {k \in DOMAIN users : users[k].email = i.email /\ ~users[k].deleted}

\* findOne leaves out the rows with a tombstone.
BySub(i) == {k \in DOMAIN users : users[k].sub = i.sub /\ ~users[k].deleted}

ByEmail(i) ==
    {k \in DOMAIN users :
        i.verified /\ users[k].email = i.email /\ ~users[k].deleted}

\* Mutant: the table without its unique indexes.
NeverTaken(row, rows) == FALSE

\* uq_user_keycloak_sub and uq_user_email, where NULLs never collide. They
\* count the rows with a tombstone.
Taken(row, rows) ==
    \E k \in rows : \/ users[k].sub = row.sub /\ row.sub # NoSub
                    \/ users[k].email = row.email

\* Mutant: the name brought up to date and the `sub` forgotten.
AdoptedInName(c) == [users[c.account] EXCEPT !.deleted = @ /\ ~c.reopens]

\* The columns that save writes: the new `sub`, and deleted_at = NULL when the
\* row got its tombstone after it was read.
Adopted(c) ==
    [users[c.account] EXCEPT !.sub = IF c.attaches THEN c.identity.sub ELSE @,
                             !.deleted = @ /\ ~c.reopens]

-----------------------------------------------------------------------------
(* The round trip.                                                         *)

\* login: the state cookie of an earlier trip is overwritten.
Login(b) ==
    /\ Len(trips) < MaxTrips
    /\ trips' = Append(trips, [browser |-> b, spent |-> FALSE])
    /\ stateCookie' = [stateCookie EXCEPT ![b] = Len(trips) + 1]
    /\ UNCHANGED <<users, callback>>

\* OIDC_STATE_TTL_SECONDS are over.
StateCookieExpires(b) ==
    /\ stateCookie[b] # 0
    /\ stateCookie' = [stateCookie EXCEPT ![b] = 0]
    /\ UNCHANGED <<users, trips, callback>>

\* Keycloak sends the browser back, or the user reloads the page it led to.
Return(r, t, i) ==
    LET b == trips[t].browser
    IN  /\ ~InFlight(r)
        /\ callback' = [callback EXCEPT ![r] =
              [phase |-> "arriving", browser |-> b, trip |-> t,
               cookie |-> stateCookie[b], identity |-> i, account |-> 0,
               attaches |-> FALSE, reopens |-> FALSE, status |-> Lost]]
        /\ UNCHANGED <<users, trips, stateCookie>>

Proceed(r, phase, account) ==
    callback' = [callback EXCEPT ![r].phase = phase, ![r].account = account]

\* Every answer of callback clears the state cookie, whichever trip it is of.
Answer(r, status) ==
    /\ callback' = [callback EXCEPT ![r].phase = "done", ![r].status = status]
    /\ stateCookie' = [stateCookie EXCEPT ![callback[r].browser] = 0]

\* No cookie, the cookie of another trip, or no code: any request may be one
\* that brings an error of Keycloak's in its place.
Refuse(r) ==
    /\ callback[r].phase = "arriving"
    /\ Answer(r, 400)
    /\ UNCHANGED <<users, trips>>

Exchange(r) ==
    LET t == callback[r].trip
    IN  /\ callback[r].phase = "arriving"
        /\ callback[r].cookie = t
        /\ ~trips[t].spent
        /\ trips' = [trips EXCEPT ![t].spent = TRUE]
        /\ Proceed(r, "identified", 0)
        /\ UNCHANGED <<users, stateCookie>>

\* The code is spent, Keycloak does not answer, or its answer, after which the
\* code is spent as well, is lost or names no `sub` or no email.
ExchangeFails(r) ==
    LET t == callback[r].trip
    IN  /\ callback[r].phase = "arriving"
        /\ callback[r].cookie = t
        /\ \E spent \in {TRUE, trips[t].spent} :
             trips' = [trips EXCEPT ![t].spent = spent]
        /\ Answer(r, 500)
        /\ UNCHANGED users

-----------------------------------------------------------------------------
(* findOrCreateUser and createSession.                                     *)

FindBySub(r) ==
    LET found == BySub(callback[r].identity)
    IN  /\ callback[r].phase = "identified"
        /\ \/ found = {} /\ Proceed(r, "searching", 0)
           \/ \E k \in found : Proceed(r, "opening", k)
        /\ UNCHANGED <<users, trips, stateCookie>>

FindByEmail(r) ==
    LET found == ByEmail(callback[r].identity)
    IN  /\ callback[r].phase = "searching"
        /\ \/ found = {} /\ Proceed(r, "inserting", 0)
           \/ \E k \in found : Proceed(r, "adopting", k)
        /\ UNCHANGED <<users, trips, stateCookie>>

Reload(r) ==
    LET k == callback[r].account
    IN  /\ callback[r].phase = "adopting"
        /\ callback' = [callback EXCEPT
              ![r].phase = "planned",
              ![r].attaches = users[k].sub # callback[r].identity.sub,
              ![r].reopens = users[k].deleted]
        /\ UNCHANGED <<users, trips, stateCookie>>

Save(r) ==
    LET k == callback[r].account
        row == Adopted(callback[r])
    IN  /\ callback[r].phase = "planned"
        /\ ~Taken(row, DOMAIN users \ {k})
        /\ users' = [users EXCEPT ![k] = row]
        /\ Proceed(r, "opening", k)
        /\ UNCHANGED <<trips, stateCookie>>

SaveFails(r) ==
    LET k == callback[r].account
    IN  /\ callback[r].phase = "planned"
        /\ Taken(Adopted(callback[r]), DOMAIN users \ {k})
        /\ Answer(r, 500)
        /\ UNCHANGED <<users, trips>>

\* Mutant: the two claims swapped.
NewUserSwapped(i) == [sub |-> i.email, email |-> i.sub, deleted |-> FALSE]

NewUser(i) == [sub |-> i.sub, email |-> i.email, deleted |-> FALSE]

Insert(r) ==
    LET row == NewUser(callback[r].identity)
    IN  /\ callback[r].phase = "inserting"
        /\ Len(users) < MaxUsers
        /\ ~Taken(row, DOMAIN users)
        /\ users' = Append(users, row)
        /\ Proceed(r, "opening", Len(users) + 1)
        /\ UNCHANGED <<trips, stateCookie>>

\* The `sub` or the address has a row, one with a tombstone included.
InsertFails(r) ==
    /\ callback[r].phase = "inserting"
    /\ Taken(NewUser(callback[r].identity), DOMAIN users)
    /\ Answer(r, 500)
    /\ UNCHANGED <<users, trips>>

OpenSession(r) ==
    /\ callback[r].phase = "opening"
    /\ Answer(r, 302)
    /\ UNCHANGED <<users, trips>>

-----------------------------------------------------------------------------
(* The rest of the world.                                                  *)

\* Someone puts a tombstone on an account by hand.
CloseAccount(k) ==
    /\ users' = [users EXCEPT ![k].deleted = TRUE]
    /\ UNCHANGED <<trips, stateCookie, callback>>

\* The process goes down and comes back with nothing in flight.
Restart ==
    /\ \E r \in Requests : InFlight(r)
    /\ callback' = [r \in Requests |->
          IF InFlight(r)
          THEN [callback[r] EXCEPT !.phase = "done", !.status = Lost]
          ELSE callback[r]]
    /\ UNCHANGED <<users, trips, stateCookie>>

FindOrCreateUser(r) ==
    \/ FindBySub(r) \/ FindByEmail(r) \/ Reload(r)
    \/ Save(r) \/ SaveFails(r) \/ Insert(r) \/ InsertFails(r)

Step ==
    \/ \E b \in Browsers : Login(b) \/ StateCookieExpires(b)
    \/ \E r \in Requests, t \in DOMAIN trips, i \in Identities : Return(r, t, i)
    \/ \E r \in Requests : \/ Refuse(r) \/ Exchange(r) \/ ExchangeFails(r)
                           \/ FindOrCreateUser(r) \/ OpenSession(r)
    \/ \E k \in DOMAIN users : CloseAccount(k)
    \/ Restart

\* The row that a request holds after the step bears its `sub`, or bore it
\* earlier in the same hands.
Remember ==
    own' = [r \in Requests |->
        LET k == callback'[r].account
        IN  /\ k # 0
            /\ \/ users'[k].sub = callback'[r].identity.sub
               \/ own[r] /\ callback[r].account = k]

Next == Step /\ Remember

Spec == Init /\ [][Next]_vars

-----------------------------------------------------------------------------
(* Properties.                                                             *)

\* Every variable keeps its shape; trips and rows in hand are ones that exist.
TypeOK ==
    /\ users \in Seq(UserRow)
    /\ trips \in Seq(Trip)
    /\ stateCookie \in [Browsers -> 0..Len(trips)]
    /\ callback \in [Requests -> CallbackState]
    /\ own \in [Requests -> BOOLEAN]
    /\ \A r \in Requests :
          /\ callback[r].trip \in 0..Len(trips)
          /\ callback[r].account \in 0..Len(users)

\* However sign-ins overlap, an identity and an address have at most one
\* account each, those with a tombstone counted.
OneAccountEach ==
    \A j, k \in DOMAIN users :
        \/ users[j].email = users[k].email
        \/ users[j].sub = users[k].sub /\ users[j].sub # NoSub
        => j = k

\* An identity Keycloak vouches for, whose address is the row's.
Vouched(s, k) ==
    \E i \in Identities : i.verified /\ i.sub = s /\ i.email = users[k].email

KeepsSubs ==
    \A k \in DOMAIN users : users'[k].sub # users[k].sub =>
        \E r \in Requests : /\ callback[r].phase = "planned"
                            /\ callback[r].identity.verified
                            /\ callback[r].identity.email = users[k].email
                            /\ callback[r].identity.sub = users'[k].sub

\* "The identity provider vouches for that email: the row is adopted": a row
\* changes hands only to an identity with a verified address that is the row's,
\* three visits after the condition was tested.
AdoptionIsVouchedFor == [][KeepsSubs]_vars

\* A request that has its account, or has been answered with one.
Admitted(r) ==
    \/ callback[r].phase = "opening"
    \/ callback[r].phase = "done" /\ callback[r].status = 302

\* A sign-in ends with an account that bore its `sub` while the request had it
\* in hand: it is the one that has the `sub` still, or an identity vouched for
\* has adopted it since (findOrCreateUser).
OwnAccount ==
    \A r \in Requests : Admitted(r) =>
        LET k == callback[r].account
        IN  /\ own[r]
            /\ \/ users[k].sub = callback[r].identity.sub
               \/ Vouched(users[k].sub, k)

\* A request that has read row k and has not been answered.
Holds(r, k) ==
    callback[r].phase \in {"adopting", "planned", "opening"} /\ callback[r].account = k

Closed(k) == users[k].deleted /\ \A r \in Requests : ~Holds(r, k)

KeepsClosed == \A k \in DOMAIN users : Closed(k) => Closed(k)'

\* A closed account that no sign-in has in hand stays closed and signs nobody
\* in: neither look-up finds it, and its address opens no second one.
ClosedStaysClosed == [][KeepsClosed]_vars

=============================================================================
