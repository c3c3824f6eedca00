--------------------------- MODULE AccountsProofs ---------------------------
(***************************************************************************)
(* Proofs about Accounts, for any browsers, requests, identities, seeded   *)
(* rows and bounds.                                                        *)
(***************************************************************************)
EXTENDS Accounts, SequenceTheorems, TLAPS

\* The row in a request's hands exists; while the request may still write to
\* it, its address is one that Keycloak vouches for.
HandsSound ==
    \A r \in Requests :
        /\ callback[r].phase \in {"adopting", "planned"} =>
              /\ callback[r].account \in DOMAIN users
              /\ callback[r].identity.verified
              /\ users[callback[r].account].email = callback[r].identity.email
        /\ Admitted(r) => callback[r].account \in DOMAIN users

\* The account r has in hand was its own in these hands, and is so still or has
\* gone to an identity vouched for.
Entitled(r) ==
    /\ own[r]
    /\ \/ users[callback[r].account].sub = callback[r].identity.sub
       \/ Vouched(users[callback[r].account].sub, callback[r].account)

\* A request that will not write the `sub` need not.
SkipsSound ==
    \A r \in Requests :
        callback[r].phase = "planned" /\ ~callback[r].attaches => Entitled(r)

IInv == TypeOK /\ OneAccountEach /\ HandsSound /\ SkipsSound /\ OwnAccount

-----------------------------------------------------------------------------
(* What one step does to the table and to a request.                       *)

Adopts(r) ==
    LET k == callback[r].account
    IN  /\ callback[r].phase = "planned"
        /\ ~Taken(Adopted(callback[r]), DOMAIN users \ {k})
        /\ users' = [users EXCEPT ![k] = Adopted(callback[r])]

Inserts(r) ==
    /\ ~Taken(NewUser(callback[r].identity), DOMAIN users)
    /\ users' = Append(users, NewUser(callback[r].identity))

UsersStep ==
    \/ users' = users
    \/ \E r \in Requests : Adopts(r) \/ Inserts(r)
    \/ \E k \in DOMAIN users : users' = [users EXCEPT ![k].deleted = TRUE]

GoesOn(r) ==
    /\ callback'[r].identity = callback[r].identity
    /\ \/ callback'[r].phase = "done" /\ callback'[r].status # 302
       \/ callback'[r].phase \in {"identified", "searching", "inserting"}
       \/ /\ callback[r].phase = "opening" /\ callback'[r].phase = "done"
          /\ callback'[r].account = callback[r].account
       \/ /\ callback[r].phase = "identified" /\ callback'[r].phase = "opening"
          /\ callback'[r].account \in BySub(callback[r].identity)
          /\ users' = users
       \/ /\ callback[r].phase = "searching" /\ callback'[r].phase = "adopting"
          /\ callback'[r].account \in ByEmail(callback[r].identity)
          /\ users' = users
       \/ /\ callback[r].phase = "adopting" /\ callback'[r].phase = "planned"
          /\ callback'[r].account = callback[r].account
          /\ callback'[r].attaches =
                (users[callback[r].account].sub # callback[r].identity.sub)
          /\ users' = users
       \/ /\ Adopts(r) /\ callback'[r].phase = "opening"
          /\ callback'[r].account = callback[r].account
       \/ /\ Inserts(r) /\ callback'[r].phase = "opening"
          /\ callback'[r].account = Len(users) + 1

CallbackStep(r) ==
    \/ callback'[r] = callback[r]
    \/ callback'[r].phase = "arriving"
    \/ GoesOn(r)

CallbacksStep ==
    /\ callback' \in [Requests -> CallbackState]
    /\ \A r \in Requests : CallbackStep(r)
    /\ \A r \in Requests : /\ callback'[r].trip \in 0..Len(trips')
                           /\ callback'[r].account \in 0..Len(users')

TripsStep ==
    /\ trips' \in Seq(Trip)
    /\ stateCookie' \in [Browsers -> 0..Len(trips')]

\* What is remembered of a row in hand: its `sub` at each step of the request,
\* and what was remembered before of the same row.
OwnStep ==
    /\ own' \in [Requests -> BOOLEAN]
    /\ \A r \in Requests :
          LET k == callback'[r].account
          IN  k # 0 =>
                /\ own[r] /\ callback[r].account = k => own'[r]
                /\ users'[k].sub = callback'[r].identity.sub
                   /\ callback'[r] # callback[r] => own'[r]

-----------------------------------------------------------------------------
(* Types.                                                                  *)

LEMMA Typed ==
    ASSUME TypeOK
    PROVE  /\ Len(users) \in Nat /\ DOMAIN users = 1..Len(users)
           /\ Len(trips) \in Nat /\ DOMAIN trips = 1..Len(trips)
           /\ \A k \in DOMAIN users : users[k] \in UserRow
           /\ \A t \in DOMAIN trips : trips[t] \in Trip
           /\ \A r \in Requests : /\ callback[r] \in CallbackState
                                  /\ callback[r].identity \in Identities
                                  /\ callback[r].identity \in Identity
                                  /\ callback[r].identity.sub # NoSub
<1>1. \A r \in Requests : /\ callback[r] \in CallbackState
                          /\ callback[r].identity \in Identities
  BY DEF TypeOK, CallbackState
<1>2. \A r \in Requests : /\ callback[r].identity \in Identity
                          /\ callback[r].identity.sub \in Subs
  BY <1>1, IdentitiesAssumption DEF Subs
<1>3. /\ Len(users) \in Nat /\ DOMAIN users = 1..Len(users)
      /\ \A k \in DOMAIN users : users[k] \in UserRow
  BY LenProperties, ElementOfSeq DEF TypeOK
<1>4. /\ Len(trips) \in Nat /\ DOMAIN trips = 1..Len(trips)
      /\ \A t \in DOMAIN trips : trips[t] \in Trip
  BY LenProperties, ElementOfSeq DEF TypeOK
<1>5. QED
  BY <1>1, <1>2, <1>3, <1>4, IdentitiesAssumption

LEMMA AdoptedRow ==
    ASSUME TypeOK, NEW r \in Requests, callback[r].account \in DOMAIN users
    PROVE  LET k == callback[r].account
               row == Adopted(callback[r])
           IN  /\ row \in UserRow /\ row.email = users[k].email
               /\ callback[r].attaches => row.sub = callback[r].identity.sub
               /\ ~callback[r].attaches => row.sub = users[k].sub
               /\ ~callback[r].reopens => row.deleted = users[k].deleted
<1> DEFINE k == callback[r].account
<1>1. /\ users[k] \in UserRow /\ callback[r].identity.sub \in Subs
      /\ callback[r].reopens \in BOOLEAN
  BY Typed DEF CallbackState, Identity
<1> HIDE DEF k
<1>2. Adopted(callback[r]) = [users[k] EXCEPT
          !.sub = IF callback[r].attaches THEN callback[r].identity.sub ELSE users[k].sub,
          !.deleted = users[k].deleted /\ ~callback[r].reopens]
  BY <1>1 DEF Adopted, k, UserRow
<1>3. QED
  BY <1>1, <1>2 DEF UserRow, k

LEMMA NewUserRow ==
    ASSUME TypeOK, NEW r \in Requests
    PROVE  /\ NewUser(callback[r].identity) \in UserRow
           /\ NewUser(callback[r].identity).sub = callback[r].identity.sub
           /\ NewUser(callback[r].identity).email = callback[r].identity.email
BY Typed DEF NewUser, UserRow, Identity

\* The table stays a table and only grows; addresses are never rewritten.
LEMMA UsersGrow ==
    ASSUME TypeOK, HandsSound, UsersStep
    PROVE  /\ users' \in Seq(UserRow)
           /\ DOMAIN users = 1..Len(users) /\ DOMAIN users' = 1..Len(users')
           /\ Len(users) \in Nat
           /\ Len(users') \in {Len(users), Len(users) + 1}
           /\ \A k \in DOMAIN users : users'[k].email = users[k].email
<1>1. /\ users \in Seq(UserRow) /\ Len(users) \in Nat
      /\ DOMAIN users = 1..Len(users)
      /\ \A k \in DOMAIN users : users[k] \in UserRow
  BY Typed DEF TypeOK
<1>2. ASSUME NEW k \in DOMAIN users, NEW row \in UserRow, row.email = users[k].email,
             users' = [users EXCEPT ![k] = row]
      PROVE  /\ users' \in Seq(UserRow) /\ Len(users') = Len(users)
             /\ \A j \in DOMAIN users : users'[j].email = users[j].email
  <2>1. users' \in Seq(UserRow) /\ Len(users') = Len(users)
    BY <1>1, <1>2, ExceptSeq
  <2>2. QED
    BY <1>1, <1>2, <2>1
<1>3. ASSUME NEW r \in Requests, Inserts(r)
      PROVE  /\ users' \in Seq(UserRow) /\ Len(users') = Len(users) + 1
             /\ \A j \in DOMAIN users : users'[j].email = users[j].email
  <2> DEFINE row == NewUser(callback[r].identity)
  <2>1. row \in UserRow
    BY NewUserRow
  <2>2. users' = Append(users, row)
    BY <1>3 DEF Inserts
  <2> HIDE DEF row
  <2>3. /\ users' \in Seq(UserRow) /\ Len(users') = Len(users) + 1
        /\ \A j \in 1..Len(users) : users'[j] = users[j]
    BY <1>1, <2>1, <2>2, AppendProperties
  <2>4. QED
    BY <1>1, <2>3
<1>4. ASSUME NEW r \in Requests, Adopts(r)
      PROVE  /\ users' \in Seq(UserRow) /\ Len(users') = Len(users)
             /\ \A j \in DOMAIN users : users'[j].email = users[j].email
  <2> DEFINE row == Adopted(callback[r])
             k == callback[r].account
  <2>1. k \in DOMAIN users
    BY <1>4 DEF Adopts, HandsSound
  <2>2. row \in UserRow /\ row.email = users[k].email
    BY <2>1, AdoptedRow
  <2>3. users' = [users EXCEPT ![k] = row]
    BY <1>4 DEF Adopts
  <2> HIDE DEF row, k
  <2>4. QED
    BY <1>2, <2>1, <2>2, <2>3
<1>5. ASSUME NEW k \in DOMAIN users, users' = [users EXCEPT ![k].deleted = TRUE]
      PROVE  /\ users' \in Seq(UserRow) /\ Len(users') = Len(users)
             /\ \A j \in DOMAIN users : users'[j].email = users[j].email
  <2> DEFINE row == [users[k] EXCEPT !.deleted = TRUE]
  <2>1. row \in UserRow /\ row.email = users[k].email
    BY <1>1 DEF UserRow
  <2>2. users' = [users EXCEPT ![k] = row]
    BY <1>5
  <2> HIDE DEF row
  <2>3. QED
    BY <1>2, <2>1, <2>2
<1>6. users' \in Seq(UserRow) => DOMAIN users' = 1..Len(users')
  BY LenProperties
<1>7. CASE users' = users
  BY <1>1, <1>7
<1>8. QED
  BY <1>1, <1>3, <1>4, <1>5, <1>6, <1>7 DEF UsersStep

\* The step of one request, when the others stay where they are.
LEMMA OneCallbackSteps ==
    ASSUME TypeOK, HandsSound, UsersStep, Len(trips') = Len(trips),
           NEW r \in Requests, NEW h \in CallbackState,
           h.trip \in 0..Len(trips), h.account \in 0..Len(users'),
           callback' = [callback EXCEPT ![r] = h],
           CallbackStep(r)
    PROVE  CallbacksStep
<1>1. callback \in [Requests -> CallbackState]
  BY DEF TypeOK
<1>2. callback' \in [Requests -> CallbackState] /\ callback'[r] = h
  BY <1>1
<1>3. \A q \in Requests : q # r => callback'[q] = callback[q]
  BY <1>1
<1>4. \A k \in 0..Len(users) : k \in 0..Len(users')
  <2> DEFINE n == Len(users)
             m == Len(users')
  <2>1. n \in Nat /\ m \in {n, n + 1}
    BY UsersGrow
  <2> HIDE DEF n, m
  <2>2. \A k \in 0..n : k \in 0..m
    BY <2>1
  <2>3. QED
    BY <2>2 DEF n, m
<1>5. \A q \in Requests : callback[q].trip \in 0..Len(trips) /\ callback[q].account \in 0..Len(users)
  BY DEF TypeOK
<1>6. \A q \in Requests : /\ callback'[q].trip \in 0..Len(trips')
                          /\ callback'[q].account \in 0..Len(users')
  BY <1>2, <1>3, <1>4, <1>5
<1>7. \A q \in Requests : CallbackStep(q)
  BY <1>3 DEF CallbackStep
<1>8. QED
  BY <1>2, <1>6, <1>7 DEF CallbacksStep

LEMMA AnsweredState ==
    ASSUME NEW c \in CallbackState, NEW status \in Statuses
    PROVE  [c EXCEPT !.phase = "done", !.status = status] \in CallbackState
BY DEF CallbackState

\* An answer: 302 ends an opening, the others end anything.
LEMMA AnswersSteps ==
    ASSUME TypeOK, HandsSound, UsersStep, Len(trips') = Len(trips),
           trips' \in Seq(Trip),
           NEW r \in Requests, NEW status \in Statuses,
           status = 302 => callback[r].phase = "opening",
           Answer(r, status)
    PROVE  CallbacksStep /\ TripsStep
<1> DEFINE h == [callback[r] EXCEPT !.phase = "done", !.status = status]
<1>1. /\ callback \in [Requests -> CallbackState] /\ callback[r] \in CallbackState
      /\ callback[r].trip \in 0..Len(trips) /\ callback[r].account \in 0..Len(users)
      /\ stateCookie \in [Browsers -> 0..Len(trips)]
      /\ Len(trips) \in Nat
  BY Typed DEF TypeOK
<1>a. callback \in [Requests -> CallbackState] /\ callback[r] \in CallbackState
  BY <1>1
<1>2. /\ h \in CallbackState /\ h.trip = callback[r].trip
      /\ h.account = callback[r].account /\ h.phase = "done" /\ h.status = status
      /\ h.identity = callback[r].identity
  <2>1. h \in CallbackState
    BY <1>a, AnsweredState
  <2>2. /\ h.trip = callback[r].trip /\ h.account = callback[r].account
        /\ h.identity = callback[r].identity
    BY ONLY <1>a DEF CallbackState
  <2>3. h.phase = "done" /\ h.status = status
    BY ONLY <1>a DEF CallbackState
  <2>4. QED
    BY <2>1, <2>2, <2>3
<1>3. callback' = [callback EXCEPT ![r] = h] /\ callback'[r] = h
  <2>1. callback' = [callback EXCEPT ![r].phase = "done", ![r].status = status]
    BY DEF Answer
  <2>2. QED
    BY ONLY <1>a, <2>1
<1> HIDE DEF h
<1>4. GoesOn(r)
  BY <1>2, <1>3 DEF GoesOn
<1>5. h.account \in 0..Len(users')
  <2> DEFINE n == Len(users)
             m == Len(users')
  <2>1. n \in Nat /\ m \in {n, n + 1}
    BY UsersGrow
  <2>2. h.account \in 0..n
    BY <1>1, <1>2
  <2> HIDE DEF n, m
  <2>3. h.account \in 0..m
    BY <2>1, <2>2
  <2>4. QED
    BY <2>3 DEF m
<1>6. h.trip \in 0..Len(trips)
  BY <1>1, <1>2
<1>7. CallbacksStep
  BY <1>2, <1>3, <1>4, <1>5, <1>6, OneCallbackSteps DEF CallbackStep
<1>8. 0 \in 0..Len(trips)
  BY <1>1
<1>9. stateCookie' \in [Browsers -> 0..Len(trips')]
  BY <1>1, <1>8 DEF Answer
<1>10. QED
  BY <1>7, <1>9 DEF TripsStep

LEMMA PlannedState ==
    ASSUME NEW c \in CallbackState, NEW attaches \in BOOLEAN, NEW reopens \in BOOLEAN
    PROVE  [c EXCEPT !.phase = "planned", !.attaches = attaches,
                     !.reopens = reopens] \in CallbackState
BY DEF CallbackState, UnderWay

LEMMA ProceedingState ==
    ASSUME NEW c \in CallbackState, NEW phase \in UnderWay, NEW account \in Nat
    PROVE  [c EXCEPT !.phase = phase, !.account = account] \in CallbackState
BY DEF CallbackState

\* Going on to another visit, with or without a row in hand.
LEMMA ProceedsTo ==
    ASSUME TypeOK, NEW r \in Requests, NEW phase \in UnderWay, NEW account \in Nat,
           Proceed(r, phase, account)
    PROVE  LET c == callback'[r]
           IN  /\ c \in CallbackState
               /\ callback' = [callback EXCEPT ![r] = c]
               /\ c.trip \in 0..Len(trips)
               /\ c.identity = callback[r].identity
               /\ c.phase = phase /\ c.account = account
<1> DEFINE h == [callback[r] EXCEPT !.phase = phase, !.account = account]
<1>1. callback \in [Requests -> CallbackState] /\ callback[r] \in CallbackState
  BY DEF TypeOK
<1>2. h \in CallbackState
  BY <1>1, ProceedingState
<1>3. /\ h.trip = callback[r].trip /\ h.identity = callback[r].identity
      /\ h.phase = phase /\ h.account = account
  BY ONLY <1>1 DEF CallbackState
<1>4. callback' = [callback EXCEPT ![r] = h] /\ callback'[r] = h
  BY ONLY <1>1, Proceed(r, phase, account) DEF Proceed
<1>5. callback[r].trip \in 0..Len(trips)
  BY DEF TypeOK
<1> HIDE DEF h
<1>6. QED
  BY <1>2, <1>3, <1>4, <1>5

\* Spending the code of a trip, should the trip exist.
LEMMA TripsKeep ==
    ASSUME TypeOK, NEW t, NEW spent,
           t \in DOMAIN trips => spent \in BOOLEAN,
           trips' = [trips EXCEPT ![t].spent = spent]
    PROVE  trips' \in Seq(Trip) /\ Len(trips') = Len(trips)
<1> DEFINE n == Len(trips)
<1>1. n \in Nat /\ trips \in [1..n -> Trip]
  BY LenProperties DEF TypeOK
<1> HIDE DEF n
<1>2. ASSUME t \in 1..n
      PROVE  [trips[t] EXCEPT !.spent = spent] \in Trip
  BY <1>1, <1>2 DEF Trip
<1>3. trips' \in [1..n -> Trip]
  <2>1. DOMAIN trips' = 1..n
    BY <1>1
  <2>2. trips' = [k \in 1..n |-> IF k = t THEN [trips[t] EXCEPT !.spent = spent]
                                         ELSE trips[k]]
    BY <1>1
  <2>3. QED
    BY <1>1, <1>2, <2>2
<1>4. trips' \in Seq(Trip)
  BY <1>1, <1>3, SeqDef
<1>5. Len(trips') = n
  BY <1>1, <1>3, <1>4, LenProperties
<1>6. QED
  BY <1>4, <1>5 DEF n

\* Whatever the step, it is one of those above for the table and each request.
LEMMA NextSteps ==
    ASSUME IInv, [Next]_vars
    PROVE  UsersStep /\ CallbacksStep /\ TripsStep
<1> DEFINE Goal == UsersStep /\ CallbacksStep /\ TripsStep
<1> SUFFICES Goal
  OBVIOUS
<1>1. /\ TypeOK /\ HandsSound
      /\ users \in Seq(UserRow) /\ trips \in Seq(Trip)
      /\ Len(users) \in Nat /\ DOMAIN users = 1..Len(users)
      /\ Len(trips) \in Nat /\ DOMAIN trips = 1..Len(trips)
      /\ stateCookie \in [Browsers -> 0..Len(trips)]
      /\ callback \in [Requests -> CallbackState]
  BY Typed DEF IInv, TypeOK
<1>u. users' = users => UsersStep
  BY DEF UsersStep
<1>t. trips' = trips /\ stateCookie' = stateCookie => TripsStep
  BY <1>1 DEF TripsStep
<1>c. callback' = callback /\ trips' = trips /\ UsersStep => CallbacksStep
  <2> SUFFICES ASSUME callback' = callback, trips' = trips, UsersStep PROVE CallbacksStep
    OBVIOUS
  <2>1. \A k \in 0..Len(users) : k \in 0..Len(users')
    <3> DEFINE n == Len(users)
               m == Len(users')
    <3>1. n \in Nat /\ m \in {n, n + 1}
      BY <1>1, UsersGrow
    <3> HIDE DEF n, m
    <3>2. \A k \in 0..n : k \in 0..m
      BY <3>1
    <3>3. QED
      BY <3>2 DEF n, m
  <2>2. QED
    BY <1>1, <2>1 DEF TypeOK, CallbacksStep, CallbackStep
<1>2. ASSUME UNCHANGED vars PROVE Goal
  BY <1>2, <1>u, <1>t, <1>c DEF vars
<1>3. ASSUME NEW b \in Browsers, Login(b) PROVE Goal
  <2> DEFINE n == Len(trips)
             m == Len(trips')
             t == [browser |-> b, spent |-> FALSE]
  <2>1. trips' = Append(trips, t) /\ t \in Trip
    BY <1>3 DEF Login, Trip
  <2> HIDE DEF t
  <2>2. trips' \in Seq(Trip) /\ m = n + 1
    BY <1>1, <2>1, AppendProperties
  <2>3. n \in Nat /\ stateCookie \in [Browsers -> 0..n]
    BY <1>1
  <2>4. stateCookie' = [stateCookie EXCEPT ![b] = n + 1]
    BY <1>3 DEF Login
  <2>5. callback' = callback /\ users' = users
    BY <1>3 DEF Login
  <2>6. \A r \in Requests : callback[r].trip \in 0..n /\ callback[r].account \in 0..Len(users)
    BY <1>1 DEF TypeOK
  <2> HIDE DEF n, m
  <2>7. \A k \in 0..n : k \in 0..m
    BY <2>2, <2>3
  <2>8. n + 1 \in 0..m
    BY <2>2, <2>3
  <2>9. stateCookie' \in [Browsers -> 0..m]
    BY <2>3, <2>4, <2>7, <2>8
  <2>10. TripsStep
    BY <2>2, <2>9 DEF TripsStep, m
  <2>11. CallbacksStep
    BY <1>1, <2>5, <2>6, <2>7 DEF CallbacksStep, CallbackStep, m
  <2>12. QED
    BY <2>5, <2>10, <2>11, <1>u
<1>4. ASSUME NEW b \in Browsers, StateCookieExpires(b) PROVE Goal
  <2>1. users' = users /\ trips' = trips /\ callback' = callback
    BY <1>4 DEF StateCookieExpires
  <2>2. TripsStep
    BY <1>1, <1>4, <2>1 DEF StateCookieExpires, TripsStep
  <2>3. QED
    BY <2>1, <2>2, <1>u, <1>c
<1>5. ASSUME NEW r \in Requests, NEW t \in DOMAIN trips, NEW i \in Identities,
             Return(r, t, i)
      PROVE  Goal
  <2> DEFINE b == trips[t].browser
             h == [phase |-> "arriving", browser |-> b, trip |-> t,
                   cookie |-> stateCookie[b], identity |-> i, account |-> 0,
                   attaches |-> FALSE, reopens |-> FALSE, status |-> Lost]
  <2>1. users' = users /\ trips' = trips /\ stateCookie' = stateCookie
    BY <1>5 DEF Return
  <2>2. callback' = [callback EXCEPT ![r] = h] /\ callback'[r] = h
    BY <1>1, <1>5 DEF Return
  <2>3. b \in Browsers /\ t \in Nat /\ t \in 0..Len(trips)
    BY <1>1, Typed DEF Trip
  <2>4. stateCookie[b] \in Nat
    BY <1>1, <2>3
  <2>5. Lost \in Statuses
    BY DEF Statuses
  <2>6. h \in CallbackState
    BY <2>3, <2>4, <2>5 DEF CallbackState, UnderWay
  <2>7. h.trip \in 0..Len(trips) /\ h.account = 0 /\ h.phase = "arriving"
    BY <2>3
  <2> HIDE DEF h
  <2>8. h.account \in 0..Len(users')
    BY <1>1, <2>1, <2>7
  <2>9. CallbackStep(r)
    BY <2>2, <2>7 DEF CallbackStep
  <2>10. CallbacksStep
    BY <1>1, <1>u, <2>1, <2>2, <2>6, <2>7, <2>8, <2>9, OneCallbackSteps
  <2>11. QED
    BY <2>1, <2>10, <1>u, <1>t
<1>6. ASSUME NEW r \in Requests, Refuse(r) PROVE Goal
  BY <1>1, <1>6, <1>u, AnswersSteps DEF Refuse, Statuses
<1>p. ASSUME NEW r \in Requests, NEW phase \in UnderWay, NEW account \in Nat,
             account \in 0..Len(users'), UsersStep, Len(trips') = Len(trips),
             Proceed(r, phase, account), GoesOn(r)
      PROVE  CallbacksStep
  <2>1. /\ callback'[r] \in CallbackState
        /\ callback' = [callback EXCEPT ![r] = callback'[r]]
        /\ callback'[r].trip \in 0..Len(trips)
        /\ callback'[r].account = account
    BY <1>1, <1>p, ProceedsTo
  <2>2. CallbackStep(r)
    BY <1>p DEF CallbackStep
  <2> DEFINE h == callback'[r]
  <2>3. /\ h \in CallbackState /\ callback' = [callback EXCEPT ![r] = h]
        /\ h.trip \in 0..Len(trips) /\ h.account \in 0..Len(users')
    BY <1>p, <2>1
  <2> HIDE DEF h
  <2>4. QED
    BY <1>1, <1>p, <2>2, <2>3, OneCallbackSteps
<1>7. ASSUME NEW r \in Requests, Exchange(r) PROVE Goal
  <2> DEFINE t == callback[r].trip
  <2>1. /\ users' = users /\ stateCookie' = stateCookie
        /\ Proceed(r, "identified", 0)
        /\ trips' = [trips EXCEPT ![t].spent = TRUE]
    BY <1>7 DEF Exchange
  <2>2. trips' \in Seq(Trip) /\ Len(trips') = Len(trips)
    BY <1>1, <2>1, TripsKeep
  <2>3. TripsStep
    BY <1>1, <2>1, <2>2 DEF TripsStep
  <2>4. GoesOn(r)
    BY <1>1, <2>1, ProceedsTo DEF GoesOn, UnderWay
  <2>5. 0 \in 0..Len(users')
    BY <1>1, <2>1
  <2>6. CallbacksStep
    BY <1>p, <1>u, <2>1, <2>2, <2>4, <2>5 DEF UnderWay
  <2>7. QED
    BY <2>1, <2>3, <2>6, <1>u
<1>8. ASSUME NEW r \in Requests, ExchangeFails(r) PROVE Goal
  <2> DEFINE t == callback[r].trip
  <2>1. PICK spent \in {TRUE, trips[t].spent} :
          trips' = [trips EXCEPT ![t].spent = spent]
    BY <1>8 DEF ExchangeFails
  <2>2. trips' \in Seq(Trip) /\ Len(trips') = Len(trips)
    <3>1. t \in DOMAIN trips => spent \in BOOLEAN
      BY <1>1, <2>1, Typed DEF Trip
    <3> HIDE DEF t
    <3>2. QED
      BY <1>1, <2>1, <3>1, TripsKeep
  <2>3. users' = users /\ Answer(r, 500)
    BY <1>8 DEF ExchangeFails
  <2>4. QED
    BY <1>1, <1>u, <2>2, <2>3, AnswersSteps DEF Statuses
<1>9. ASSUME NEW r \in Requests, FindBySub(r) PROVE Goal
  <2>1. users' = users /\ trips' = trips /\ stateCookie' = stateCookie
    BY <1>9 DEF FindBySub
  <2>2. ASSUME Proceed(r, "searching", 0) PROVE CallbacksStep
    <3>1. GoesOn(r)
      BY <1>1, <2>2, ProceedsTo DEF GoesOn, UnderWay
    <3>2. 0 \in 0..Len(users')
      BY <1>1, <2>1
    <3>3. QED
      BY <1>p, <1>u, <2>1, <2>2, <3>1, <3>2 DEF UnderWay
  <2>3. ASSUME NEW k \in BySub(callback[r].identity), Proceed(r, "opening", k)
        PROVE  CallbacksStep
    <3>1. k \in Nat /\ k \in 0..Len(users')
      BY <1>1, <2>1 DEF BySub
    <3>2. GoesOn(r)
      BY <1>1, <1>9, <2>1, <2>3, <3>1, ProceedsTo DEF FindBySub, GoesOn, UnderWay
    <3>3. QED
      BY <1>p, <1>u, <2>1, <2>3, <3>1, <3>2 DEF UnderWay
  <2>4. CallbacksStep
    BY <1>9, <2>2, <2>3 DEF FindBySub
  <2>5. QED
    BY <2>1, <2>4, <1>u, <1>t
<1>10. ASSUME NEW r \in Requests, FindByEmail(r) PROVE Goal
  <2>1. users' = users /\ trips' = trips /\ stateCookie' = stateCookie
    BY <1>10 DEF FindByEmail
  <2>2. ASSUME Proceed(r, "inserting", 0) PROVE CallbacksStep
    <3>1. GoesOn(r)
      BY <1>1, <2>2, ProceedsTo DEF GoesOn, UnderWay
    <3>2. 0 \in 0..Len(users')
      BY <1>1, <2>1
    <3>3. QED
      BY <1>p, <1>u, <2>1, <2>2, <3>1, <3>2 DEF UnderWay
  <2>3. ASSUME NEW k \in ByEmail(callback[r].identity), Proceed(r, "adopting", k)
        PROVE  CallbacksStep
    <3>1. k \in Nat /\ k \in 0..Len(users')
      BY <1>1, <2>1 DEF ByEmail
    <3>2. GoesOn(r)
      BY <1>1, <1>10, <2>1, <2>3, <3>1, ProceedsTo DEF FindByEmail, GoesOn, UnderWay
    <3>3. QED
      BY <1>p, <1>u, <2>1, <2>3, <3>1, <3>2 DEF UnderWay
  <2>4. CallbacksStep
    BY <1>10, <2>2, <2>3 DEF FindByEmail
  <2>5. QED
    BY <2>1, <2>4, <1>u, <1>t
<1>11. ASSUME NEW r \in Requests, Reload(r) PROVE Goal
  <2>1. users' = users /\ trips' = trips /\ stateCookie' = stateCookie
    BY <1>11 DEF Reload
  <2> DEFINE k == callback[r].account
             attaches == (users[k].sub # callback[r].identity.sub)
             h == [callback[r] EXCEPT !.phase = "planned", !.attaches = attaches,
                                      !.reopens = users[k].deleted]
  <2>2. /\ callback[r].phase = "adopting"
        /\ callback' = [callback EXCEPT ![r].phase = "planned",
               ![r].attaches = attaches, ![r].reopens = users[k].deleted]
    BY <1>11 DEF Reload
  <2>3. k \in DOMAIN users /\ callback[r] \in CallbackState
    BY <1>1, <2>2 DEF HandsSound
  <2>4. users[k].deleted \in BOOLEAN /\ attaches \in BOOLEAN
    BY <1>1, <2>3, Typed DEF UserRow
  <2>5. h \in CallbackState
    BY <2>3, <2>4, PlannedState
  <2>6. /\ h.trip = callback[r].trip /\ h.account = k /\ h.phase = "planned"
        /\ h.identity = callback[r].identity /\ h.attaches = attaches
    BY ONLY <2>3 DEF CallbackState
  <2>7. callback' = [callback EXCEPT ![r] = h] /\ callback'[r] = h
    BY ONLY <1>1, <2>2
  <2>8. h.trip \in 0..Len(trips) /\ h.account \in 0..Len(users')
    BY <1>1, <2>1, <2>6 DEF TypeOK
  <2> HIDE DEF h
  <2>9. GoesOn(r)
    BY <2>1, <2>2, <2>6, <2>7 DEF GoesOn
  <2>10. CallbacksStep
    BY <1>1, <1>u, <2>1, <2>5, <2>7, <2>8, <2>9, OneCallbackSteps DEF CallbackStep
  <2>11. QED
    BY <2>1, <2>10, <1>u, <1>t
<1>12. ASSUME NEW r \in Requests, Save(r) PROVE Goal
  <2> DEFINE k == callback[r].account
  <2>1. trips' = trips /\ stateCookie' = stateCookie /\ Proceed(r, "opening", k)
    BY <1>12 DEF Save
  <2>2. Adopts(r)
    BY <1>12 DEF Save, Adopts
  <2>3. UsersStep
    BY <2>2 DEF UsersStep
  <2>4. k \in DOMAIN users
    BY <1>1, <1>12 DEF Save, HandsSound
  <2>5. k \in Nat /\ k \in 0..Len(users')
    <3> DEFINE n == Len(users)
               m == Len(users')
    <3>1. n \in Nat /\ m \in {n, n + 1} /\ k \in 1..n
      BY <1>1, <2>3, <2>4, UsersGrow
    <3> HIDE DEF n, m, k
    <3>2. k \in Nat /\ k \in 0..m
      BY <3>1
    <3>3. QED
      BY <3>2 DEF m
  <2>6. GoesOn(r)
    BY <1>1, <2>1, <2>2, <2>5, ProceedsTo DEF GoesOn, UnderWay
  <2>7. CallbacksStep
    BY <1>p, <2>1, <2>3, <2>5, <2>6 DEF UnderWay
  <2>8. QED
    BY <2>1, <2>3, <2>7, <1>t
<1>13. ASSUME NEW r \in Requests, SaveFails(r) PROVE Goal
  BY <1>1, <1>13, <1>u, AnswersSteps DEF SaveFails, Statuses
<1>14. ASSUME NEW r \in Requests, Insert(r) PROVE Goal
  <2>1. /\ trips' = trips /\ stateCookie' = stateCookie
        /\ Proceed(r, "opening", Len(users) + 1)
    BY <1>14 DEF Insert
  <2>2. Inserts(r)
    BY <1>14 DEF Insert, Inserts
  <2>3. UsersStep
    BY <2>2 DEF UsersStep
  <2>4. Len(users) + 1 \in Nat /\ Len(users) + 1 \in 0..Len(users')
    <3> DEFINE row == NewUser(callback[r].identity)
    <3>1. users' = Append(users, row) /\ row \in UserRow
      BY <1>1, <2>2, NewUserRow DEF Inserts
    <3> HIDE DEF row
    <3>2. Len(users') = Len(users) + 1
      BY <1>1, <3>1, AppendProperties
    <3>3. QED
      BY <1>1, <3>2
  <2>5. GoesOn(r)
    BY <1>1, <2>1, <2>2, <2>4, ProceedsTo DEF GoesOn, UnderWay
  <2>6. CallbacksStep
    BY <1>p, <2>1, <2>3, <2>4, <2>5 DEF UnderWay
  <2>7. QED
    BY <2>1, <2>3, <2>6, <1>t
<1>15. ASSUME NEW r \in Requests, InsertFails(r) PROVE Goal
  BY <1>1, <1>15, <1>u, AnswersSteps DEF InsertFails, Statuses
<1>16. ASSUME NEW r \in Requests, OpenSession(r) PROVE Goal
  BY <1>1, <1>16, <1>u, AnswersSteps DEF OpenSession, Statuses
<1>17. ASSUME NEW k \in DOMAIN users, CloseAccount(k) PROVE Goal
  <2>1. /\ users' = [users EXCEPT ![k].deleted = TRUE]
        /\ trips' = trips /\ stateCookie' = stateCookie /\ callback' = callback
    BY <1>17 DEF CloseAccount
  <2>2. UsersStep
    BY <2>1 DEF UsersStep
  <2>3. QED
    BY <2>1, <2>2, <1>c, <1>t
<1>18. CASE Restart
  <2>1. users' = users /\ trips' = trips /\ stateCookie' = stateCookie
    BY <1>18 DEF Restart
  <2>2. ASSUME NEW r \in Requests
        PROVE  /\ callback'[r] \in CallbackState /\ CallbackStep(r)
               /\ callback'[r].trip \in 0..Len(trips')
               /\ callback'[r].account \in 0..Len(users')
    <3>0. /\ callback[r].trip \in 0..Len(trips) /\ callback[r].account \in 0..Len(users)
          /\ callback[r] \in CallbackState
      BY <1>1 DEF TypeOK
    <3>1. CASE ~InFlight(r)
      <4>1. callback'[r] = callback[r]
        BY <1>18, <3>1 DEF Restart
      <4>2. QED
        BY <2>1, <3>0, <4>1 DEF CallbackStep
    <3>2. CASE InFlight(r)
      <4> DEFINE h == [callback[r] EXCEPT !.phase = "done", !.status = Lost]
      <4>1. callback'[r] = h
        BY <1>18, <3>2 DEF Restart
      <4>2. Lost \in Statuses /\ Lost # 302
        BY DEF Statuses, Lost
      <4>3. h \in CallbackState
        BY ONLY <3>0, <4>2, AnsweredState
      <4>4. /\ h.trip = callback[r].trip /\ h.account = callback[r].account
            /\ h.identity = callback[r].identity
            /\ h.phase = "done" /\ h.status = Lost
        BY ONLY <3>0 DEF CallbackState
      <4> HIDE DEF h
      <4>5. GoesOn(r)
        BY <4>1, <4>2, <4>4 DEF GoesOn
      <4>6. QED
        BY <2>1, <3>0, <4>1, <4>3, <4>4, <4>5 DEF CallbackStep
    <3>3. QED
      BY <3>1, <3>2
  <2>3. callback' \in [Requests -> CallbackState]
    BY <1>18, <2>2 DEF Restart
  <2>4. CallbacksStep
    BY <2>2, <2>3 DEF CallbacksStep
  <2>5. QED
    BY <2>1, <2>4, <1>u, <1>t
<1> HIDE DEF Goal
<1>19. QED
  BY <1>2, <1>3, <1>4, <1>5, <1>6, <1>7, <1>8, <1>9, <1>10, <1>11, <1>12, <1>13,
     <1>14, <1>15, <1>16, <1>17, <1>18 DEF Next, Step, FindOrCreateUser

LEMMA OwnSteps ==
    ASSUME TypeOK, [Next]_vars
    PROVE  OwnStep
<1>1. own \in [Requests -> BOOLEAN]
  BY DEF TypeOK
<1>2. CASE UNCHANGED vars
  <2>1. own' = own /\ callback' = callback
    BY <1>2 DEF vars
  <2>2. QED
    BY <1>1, <2>1 DEF OwnStep
<1>3. CASE Remember
  <2>1. own' \in [Requests -> BOOLEAN]
    BY <1>3 DEF Remember
  <2>2. ASSUME NEW r \in Requests, callback'[r].account # 0
        PROVE  own'[r] <=> \/ users'[callback'[r].account].sub = callback'[r].identity.sub
                           \/ own[r] /\ callback[r].account = callback'[r].account
    BY <1>3, <2>2 DEF Remember
  <2>3. QED
    BY <2>1, <2>2 DEF OwnStep
<1>4. QED
  BY <1>2, <1>3 DEF Next

-----------------------------------------------------------------------------
(* What a step may do to one row.                                          *)

\* Only an adoption rewrites a `sub` and only an insertion adds a row.
LEMMA RowSteps ==
    ASSUME TypeOK, HandsSound, UsersStep, NEW k \in DOMAIN users
    PROVE  \/ users'[k].sub = users[k].sub
           \/ \E r \in Requests :
                 /\ Adopts(r) /\ callback[r].account = k
                 /\ users'[k].sub = callback[r].identity.sub
<1>1. /\ users \in Seq(UserRow) /\ Len(users) \in Nat
      /\ DOMAIN users = 1..Len(users) /\ k \in 1..Len(users)
      /\ \A j \in DOMAIN users : users[j] \in UserRow
  BY Typed DEF TypeOK
<1>2. CASE users' = users
  BY <1>2
<1>3. ASSUME NEW r \in Requests, Adopts(r), callback[r].account = k
      PROVE  users'[k].sub \in {users[k].sub, callback[r].identity.sub}
  <2> DEFINE row == Adopted(callback[r])
  <2>1. row.sub \in {users[k].sub, callback[r].identity.sub}
    <3>1. callback[r].attaches \in BOOLEAN
      BY Typed DEF CallbackState
    <3>2. QED
      BY <1>3, <3>1, AdoptedRow
  <2>2. users' = [users EXCEPT ![k] = row]
    BY <1>3 DEF Adopts
  <2> HIDE DEF row
  <2>3. QED
    BY <2>1, <2>2
<1>4. ASSUME NEW r \in Requests, Adopts(r), callback[r].account # k
      PROVE  users'[k] = users[k]
  <2> DEFINE row == Adopted(callback[r])
             j == callback[r].account
  <2>1. users' = [users EXCEPT ![j] = row] /\ j # k
    BY <1>4 DEF Adopts
  <2> HIDE DEF row, j
  <2>2. QED
    BY <2>1
<1>5. ASSUME NEW r \in Requests, Inserts(r) PROVE users'[k] = users[k]
  <2> DEFINE row == NewUser(callback[r].identity)
  <2>1. users' = Append(users, row) /\ row \in UserRow
    BY <1>5, NewUserRow DEF Inserts
  <2> HIDE DEF row
  <2>2. QED
    BY <1>1, <2>1, AppendProperties
<1>6. ASSUME NEW j \in DOMAIN users, users' = [users EXCEPT ![j].deleted = TRUE]
      PROVE  users'[k].sub = users[k].sub
  BY <1>1, <1>6 DEF UserRow
<1>7. QED
  BY <1>2, <1>3, <1>4, <1>5, <1>6 DEF UsersStep

\* A tombstone is taken off by the adoption of that row alone.
LEMMA TombstoneSteps ==
    ASSUME TypeOK, HandsSound, UsersStep, NEW k \in DOMAIN users, users[k].deleted,
           \A r \in Requests : Adopts(r) => callback[r].account # k
    PROVE  users'[k].deleted
<1>1. /\ users \in Seq(UserRow) /\ Len(users) \in Nat
      /\ DOMAIN users = 1..Len(users) /\ k \in 1..Len(users)
      /\ \A j \in DOMAIN users : users[j] \in UserRow
  BY Typed DEF TypeOK
<1>2. CASE users' = users
  BY <1>2
<1>3. ASSUME NEW r \in Requests, Adopts(r) PROVE users'[k] = users[k]
  <2> DEFINE row == Adopted(callback[r])
             j == callback[r].account
  <2>1. users' = [users EXCEPT ![j] = row] /\ j # k
    BY <1>3 DEF Adopts
  <2> HIDE DEF row, j
  <2>2. QED
    BY <2>1
<1>4. ASSUME NEW r \in Requests, Inserts(r) PROVE users'[k] = users[k]
  <2> DEFINE row == NewUser(callback[r].identity)
  <2>1. users' = Append(users, row) /\ row \in UserRow
    BY <1>4, NewUserRow DEF Inserts
  <2> HIDE DEF row
  <2>2. QED
    BY <1>1, <2>1, AppendProperties
<1>5. ASSUME NEW j \in DOMAIN users, users' = [users EXCEPT ![j].deleted = TRUE]
      PROVE  users'[k].deleted
  BY <1>1, <1>5 DEF UserRow
<1>6. QED
  BY <1>2, <1>3, <1>4, <1>5 DEF UsersStep

\* An account in hand stays its holder's, or goes to one vouched for.
LEMMA EntitledKept ==
    ASSUME TypeOK, HandsSound, UsersStep, OwnStep, NEW r \in Requests, Entitled(r),
           callback[r].account \in DOMAIN users,
           callback'[r].account = callback[r].account,
           callback'[r].identity = callback[r].identity
    PROVE  Entitled(r)'
<1> DEFINE k == callback[r].account
<1>1. k \in DOMAIN users /\ users'[k].email = users[k].email
  BY UsersGrow
<1>2. \A q \in Requests : Adopts(q) /\ callback[q].account = k =>
          /\ callback[q].identity \in Identities /\ callback[q].identity.verified
          /\ callback[q].identity.email = users[k].email
  BY Typed DEF Adopts, HandsSound
<1>o. own'[r]
  BY <1>1, Typed DEF OwnStep, Entitled
<1>3. CASE users'[k].sub = users[k].sub
  BY <1>o, <1>1, <1>3 DEF Entitled, Vouched
<1>4. ASSUME NEW q \in Requests, Adopts(q), callback[q].account = k,
             users'[k].sub = callback[q].identity.sub
      PROVE  Entitled(r)'
  BY <1>o, <1>1, <1>2, <1>4 DEF Entitled, Vouched
<1>5. QED
  BY <1>1, <1>3, <1>4, RowSteps

-----------------------------------------------------------------------------
(* The invariant.                                                          *)

LEMMA OneAccountStep ==
    ASSUME TypeOK, HandsSound, OneAccountEach, UsersStep
    PROVE  OneAccountEach'
<1>1. /\ users \in Seq(UserRow) /\ Len(users) \in Nat
      /\ DOMAIN users = 1..Len(users)
      /\ \A j \in DOMAIN users : users[j] \in UserRow
  BY Typed DEF TypeOK
<1>2. CASE users' = users
  BY <1>2 DEF OneAccountEach
<1>3. ASSUME NEW r \in Requests, Adopts(r) PROVE OneAccountEach'
  <2> DEFINE row == Adopted(callback[r])
             k == callback[r].account
  <2>1. k \in DOMAIN users
    BY <1>3 DEF Adopts, HandsSound
  <2>2. users' = [users EXCEPT ![k] = row] /\ ~Taken(row, DOMAIN users \ {k})
    BY <1>3 DEF Adopts
  <2> HIDE DEF row, k
  <2>3. DOMAIN users' = DOMAIN users /\ users'[k] = row
        /\ \A j \in DOMAIN users : j # k => users'[j] = users[j]
    BY <2>1, <2>2
  <2>4. \A j \in DOMAIN users : j # k =>
           /\ users[j].sub = row.sub => row.sub = NoSub
           /\ users[j].email # row.email
    BY <2>2 DEF Taken
  <2>5. QED
    BY <2>3, <2>4 DEF OneAccountEach
<1>4. ASSUME NEW r \in Requests, Inserts(r) PROVE OneAccountEach'
  <2> DEFINE row == NewUser(callback[r].identity)
             n == Len(users)
  <2>1. /\ users' = Append(users, row) /\ row \in UserRow
        /\ ~Taken(row, DOMAIN users)
    BY <1>4, NewUserRow DEF Inserts
  <2> HIDE DEF row
  <2>2. /\ Len(users') = n + 1 /\ users'[n + 1] = row
        /\ \A j \in 1..n : users'[j] = users[j]
    BY <1>1, <2>1, AppendProperties
  <2>3. DOMAIN users' = 1..(n + 1) /\ DOMAIN users = 1..n /\ n \in Nat
    BY <1>1, <2>1, <2>2, UsersGrow, <1>4 DEF UsersStep
  <2>4. \A j \in 1..n : /\ users[j].sub = row.sub => row.sub = NoSub
                        /\ users[j].email # row.email
    BY <2>1, <2>3 DEF Taken
  <2> HIDE DEF n
  <2>5. \A j \in 1..(n + 1) : j \in 1..n \/ j = n + 1
    BY <2>3
  <2>6. \A j, k \in 1..n : \/ users[j].email = users[k].email
                           \/ users[j].sub = users[k].sub /\ users[j].sub # NoSub
                           => j = k
    BY <2>3 DEF OneAccountEach
  <2>7. QED
    BY <2>2, <2>3, <2>4, <2>5, <2>6 DEF OneAccountEach
<1>5. ASSUME NEW k \in DOMAIN users, users' = [users EXCEPT ![k].deleted = TRUE]
      PROVE  OneAccountEach'
  <2>1. /\ DOMAIN users' = DOMAIN users
        /\ \A j \in DOMAIN users : /\ users'[j].sub = users[j].sub
                                   /\ users'[j].email = users[j].email
    BY <1>1, <1>5 DEF UserRow
  <2>2. QED
    BY <2>1 DEF OneAccountEach
<1>6. QED
  BY <1>2, <1>3, <1>4, <1>5 DEF UsersStep

LEMMA InitIInv == Init => IInv
<1> SUFFICES ASSUME Init PROVE IInv
  OBVIOUS
<1>1. PICK b \in Browsers, i \in Identities :
        callback = [r \in Requests |->
            [phase |-> "idle", browser |-> b, trip |-> 0, cookie |-> 0,
             identity |-> i, account |-> 0, attaches |-> FALSE,
             reopens |-> FALSE, status |-> Lost]]
  BY DEF Init
<1>2. users \in Seq(UserRow) /\ trips = <<>> /\ trips \in Seq(Trip) /\ Len(trips) = 0
  BY SeedAssumption DEF Init
<1>3. Len(users) \in Nat
  BY <1>2, LenProperties
<1>4. \A r \in Requests : /\ callback[r] \in CallbackState /\ callback[r].trip = 0
                          /\ callback[r].account = 0 /\ callback[r].phase = "idle"
  BY <1>1 DEF CallbackState, Statuses, Lost
<1>5. callback \in [Requests -> CallbackState]
  BY <1>1, <1>4
<1>6. stateCookie \in [Browsers -> 0..Len(trips)]
  BY <1>2 DEF Init
<1>o. own \in [Requests -> BOOLEAN]
  BY DEF Init
<1>7. TypeOK
  BY <1>2, <1>3, <1>4, <1>5, <1>6, <1>o DEF TypeOK
<1>8. OneAccountEach
  BY SeedAssumption DEF Init, OneAccountEach
<1>9. HandsSound /\ SkipsSound /\ OwnAccount
  BY <1>4 DEF HandsSound, SkipsSound, OwnAccount, Admitted
<1>10. QED
  BY <1>7, <1>8, <1>9 DEF IInv

LEMMA StepIInv == IInv /\ [Next]_vars => IInv'
<1> SUFFICES ASSUME IInv, [Next]_vars PROVE IInv'
  OBVIOUS
<1>1. /\ TypeOK /\ OneAccountEach /\ HandsSound /\ SkipsSound /\ OwnAccount
      /\ UsersStep /\ CallbacksStep /\ TripsStep /\ OwnStep
  BY NextSteps, OwnSteps DEF IInv
<1>2. TypeOK'
  BY <1>1, UsersGrow DEF TypeOK, CallbacksStep, TripsStep, OwnStep
<1>3. OneAccountEach'
  BY <1>1, OneAccountStep
<1>4. /\ \A k \in DOMAIN users : k \in DOMAIN users' /\ users'[k].email = users[k].email
      /\ DOMAIN users = 1..Len(users) /\ Len(users) \in Nat
  <2> DEFINE n == Len(users)
             m == Len(users')
  <2>1. /\ n \in Nat /\ m \in {n, n + 1} /\ DOMAIN users = 1..n /\ DOMAIN users' = 1..m
        /\ \A k \in DOMAIN users : users'[k].email = users[k].email
    BY <1>1, UsersGrow
  <2> HIDE DEF n, m
  <2>2. \A k \in 1..n : k \in 1..m
    BY <2>1
  <2>3. QED
    BY <2>1, <2>2 DEF n
<1>5. ASSUME NEW r \in Requests, Inserts(r)
      PROVE  /\ Len(users) + 1 \in DOMAIN users'
             /\ users'[Len(users) + 1].sub = callback[r].identity.sub
  <2> DEFINE row == NewUser(callback[r].identity)
  <2>1. /\ users' = Append(users, row) /\ row \in UserRow
        /\ row.sub = callback[r].identity.sub
    BY <1>1, <1>5, NewUserRow DEF Inserts
  <2> HIDE DEF row
  <2>2. /\ users' \in Seq(UserRow) /\ Len(users') = Len(users) + 1
        /\ users'[Len(users) + 1] = row
    BY <1>1, <2>1, AppendProperties DEF TypeOK
  <2>3. DOMAIN users' = 1..(Len(users) + 1)
    BY <2>2, LenProperties
  <2>4. QED
    BY <1>4, <2>1, <2>2, <2>3
<1>6. HandsSound'
  <2> SUFFICES ASSUME NEW r \in Requests
      PROVE  /\ callback'[r].phase \in {"adopting", "planned"} =>
                   /\ callback'[r].account \in DOMAIN users'
                   /\ callback'[r].identity.verified
                   /\ users'[callback'[r].account].email = callback'[r].identity.email
             /\ Admitted(r)' => callback'[r].account \in DOMAIN users'
    BY DEF HandsSound
  <2>1. CASE callback'[r] = callback[r]
    BY <1>1, <1>4, <2>1 DEF HandsSound, Admitted
  <2>2. CASE callback'[r].phase = "arriving"
    BY <2>2 DEF Admitted
  <2>3. CASE GoesOn(r)
    <3>1. callback'[r].identity = callback[r].identity
      BY <2>3 DEF GoesOn
    <3>2. callback[r].phase = "opening" => callback[r].account \in DOMAIN users
      BY <1>1 DEF HandsSound, Admitted
    <3>3. callback[r].phase \in {"adopting", "planned"} =>
              /\ callback[r].account \in DOMAIN users
              /\ callback[r].identity.verified
              /\ users[callback[r].account].email = callback[r].identity.email
      BY <1>1 DEF HandsSound
    <3>4. Adopts(r) => callback[r].phase = "planned"
      BY DEF Adopts
    <3>5. QED
      BY <1>4, <1>5, <2>3, <3>1, <3>2, <3>3, <3>4
         DEF GoesOn, Admitted, BySub, ByEmail
  <2>4. QED
    BY <1>1, <2>1, <2>2, <2>3 DEF CallbacksStep, CallbackStep
<1>7. SkipsSound'
  <2> SUFFICES ASSUME NEW r \in Requests, callback'[r].phase = "planned",
                      ~callback'[r].attaches
               PROVE  Entitled(r)'
    BY DEF SkipsSound
  <2>1. CASE callback'[r] = callback[r]
    BY <1>1, <2>1, EntitledKept DEF SkipsSound, HandsSound
  <2>2. CASE GoesOn(r) /\ callback'[r] # callback[r]
    <3>1. /\ callback'[r].account = callback[r].account /\ users' = users
          /\ callback[r].phase = "adopting"
          /\ callback'[r].identity = callback[r].identity
          /\ callback'[r].attaches =
                (users[callback[r].account].sub # callback[r].identity.sub)
      BY <2>2 DEF GoesOn
    <3>2. users[callback[r].account].sub = callback[r].identity.sub
      BY ONLY <3>1, ~callback'[r].attaches, Zenon
    <3>3. callback[r].account # 0
      BY <1>1, <1>4, <3>1 DEF HandsSound
    <3>4. own'[r]
      BY <1>1, <2>2, <3>1, <3>2, <3>3 DEF OwnStep
    <3>5. QED
      BY <3>1, <3>2, <3>4 DEF Entitled
  <2>3. QED
    BY <1>1, <2>1, <2>2 DEF CallbacksStep, CallbackStep
<1>8. OwnAccount'
  <2> SUFFICES ASSUME NEW r \in Requests, Admitted(r)'
               PROVE  Entitled(r)'
    BY DEF OwnAccount, Entitled
  <2>1. Admitted(r) => Entitled(r) /\ callback[r].account \in DOMAIN users
    BY <1>1 DEF OwnAccount, Entitled, HandsSound
  <2>2. CASE callback'[r] = callback[r]
    BY <1>1, <2>1, <2>2, EntitledKept DEF Admitted
  <2>3. CASE GoesOn(r) /\ callback'[r] # callback[r]
    <3>1. callback'[r].identity = callback[r].identity
      BY <2>3 DEF GoesOn
    <3>o. ASSUME callback'[r].account # 0,
                 users'[callback'[r].account].sub = callback'[r].identity.sub
          PROVE  Entitled(r)'
      BY <1>1, <2>3, <3>o DEF OwnStep, Entitled
    <3>2. ASSUME callback[r].phase = "opening", callback'[r].account = callback[r].account
          PROVE  Entitled(r)'
      BY <1>1, <2>1, <3>1, <3>2, EntitledKept DEF Admitted
    <3>3. ASSUME callback'[r].account \in BySub(callback[r].identity), users' = users
          PROVE  Entitled(r)'
      BY <1>4, <3>o, <3>1, <3>3 DEF BySub
    <3>4. ASSUME Adopts(r), callback'[r].account = callback[r].account
          PROVE  Entitled(r)'
      <4> DEFINE k == callback[r].account
                 row == Adopted(callback[r])
      <4>1. /\ callback[r].phase = "planned" /\ k \in DOMAIN users
            /\ users' = [users EXCEPT ![k] = row]
        BY <1>1, <3>4 DEF Adopts, HandsSound
      <4>2. CASE callback[r].attaches
        <5>1. row.sub = callback[r].identity.sub
          BY <1>1, <4>1, <4>2, AdoptedRow
        <5>2. users'[k] = row
          BY <4>1
        <5>3. QED
          BY <1>4, <3>o, <3>1, <3>4, <4>1, <5>1, <5>2
      <4>3. CASE ~callback[r].attaches
        BY <1>1, <3>1, <3>4, <4>1, <4>3, EntitledKept DEF SkipsSound
      <4>4. QED
        BY <4>2, <4>3
    <3>5. ASSUME Inserts(r), callback'[r].account = Len(users) + 1
          PROVE  Entitled(r)'
      BY <1>4, <1>5, <3>o, <3>1, <3>5
    <3>6. QED
      BY <2>3, <3>2, <3>3, <3>4, <3>5 DEF GoesOn, Admitted
  <2>4. QED
    BY <1>1, <2>2, <2>3 DEF CallbacksStep, CallbackStep, Admitted
<1>9. QED
  BY <1>2, <1>3, <1>6, <1>7, <1>8 DEF IInv

-----------------------------------------------------------------------------
(* The theorems.                                                           *)

\* The strengthened invariant holds in every reachable state.
THEOREM Inductive == Spec => []IInv
BY InitIInv, StepIInv, PTL DEF Spec

\* Every variable keeps its shape: see TypeOK.
THEOREM TypeCorrect == Spec => []TypeOK
<1>1. IInv => TypeOK
  BY DEF IInv
<1>2. QED
  BY <1>1, Inductive, PTL

\* However the visits of findOrCreateUser interleave, an identity or an address
\* never comes to have two rows: the unique indexes are enough, and no step
\* writes past them.
THEOREM OneAccount == Spec => []OneAccountEach
<1>1. IInv => OneAccountEach
  BY DEF IInv
<1>2. QED
  BY <1>1, Inductive, PTL

\* The row a sign-in ends with bore its `sub` in the request's own hands; if it
\* bears another now, it is one that Keycloak vouches for.
THEOREM OwnAccountReached == Spec => []OwnAccount
<1>1. IInv => OwnAccount
  BY DEF IInv
<1>2. QED
  BY <1>1, Inductive, PTL

\* A row's `sub` changes only into that of an identity whose address is the
\* row's and verified, although that was tested visits before the write.
THEOREM Adoption == Spec => AdoptionIsVouchedFor
<1>1. IInv /\ [Next]_vars => [KeepsSubs]_vars
  <2> SUFFICES ASSUME IInv, [Next]_vars, NEW k \in DOMAIN users,
                      users'[k].sub # users[k].sub
               PROVE  \E r \in Requests : /\ callback[r].phase = "planned"
                                          /\ callback[r].identity.verified
                                          /\ callback[r].identity.email = users[k].email
                                          /\ callback[r].identity.sub = users'[k].sub
    BY DEF KeepsSubs
  <2>1. TypeOK /\ HandsSound /\ UsersStep
    BY NextSteps DEF IInv
  <2>2. PICK r \in Requests : /\ Adopts(r) /\ callback[r].account = k
                              /\ users'[k].sub = callback[r].identity.sub
    BY <2>1, RowSteps
  <2>3. QED
    BY <2>1, <2>2 DEF Adopts, HandsSound
<1>2. QED
  BY <1>1, Inductive, PTL DEF Spec, AdoptionIsVouchedFor

\* A closed account that no sign-in has in hand is found by no look-up and
\* reopened by no save.
THEOREM ClosedForGood == Spec => ClosedStaysClosed
<1>1. IInv /\ [Next]_vars => [KeepsClosed]_vars
  <2> SUFFICES ASSUME IInv, [Next]_vars, NEW k \in DOMAIN users, Closed(k)
               PROVE  Closed(k)'
    BY DEF KeepsClosed
  <2>1. TypeOK /\ HandsSound /\ UsersStep /\ CallbacksStep
    BY NextSteps DEF IInv
  <2>2. users[k].deleted /\ \A r \in Requests : ~Holds(r, k)
    BY DEF Closed
  <2>3. users'[k].deleted
    BY <2>1, <2>2, TombstoneSteps DEF Adopts, Holds
  <2>4. ASSUME NEW r \in Requests PROVE ~Holds(r, k)'
    <3>1. CASE callback'[r] = callback[r]
      BY <2>2, <3>1 DEF Holds
    <3>2. CASE callback'[r].phase = "arriving"
      BY <3>2 DEF Holds
    <3>3. CASE GoesOn(r)
      <4>1. k # Len(users) + 1
        BY <2>1, Typed
      <4>2. ~(k \in BySub(callback[r].identity)) /\ ~(k \in ByEmail(callback[r].identity))
        BY <2>2 DEF BySub, ByEmail
      <4>3. Adopts(r) => callback[r].phase = "planned"
        BY DEF Adopts
      <4>4. QED
        BY <2>2, <3>3, <4>1, <4>2, <4>3 DEF GoesOn, Holds
    <3>4. QED
      BY <2>1, <3>1, <3>2, <3>3 DEF CallbacksStep, CallbackStep
  <2>5. QED
    BY <2>3, <2>4 DEF Closed
<1>2. QED
  BY <1>1, Inductive, PTL DEF Spec, ClosedStaysClosed

=============================================================================
