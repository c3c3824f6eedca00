# Cardue in TLA+

Cardue keeps a garage: vehicles and the dates they must not miss (road tax,
insurance, inspection, service, and deadlines of one's own). It is a NestJS
backend over PostgreSQL, a React application installed as a PWA, and Keycloak
for sign-in, behind one Caddy origin. This directory holds the TLA+ models of
it, the TLC configurations that check them, and the TLAPS proofs about them.

    tlc -workers 2 -config VehicleStoreOverlap.cfg MCVehicleStore
    tlapm VehicleStoreProofs.tla

`PROJECT.json` says which lines of the source each definition models, which
mutation of the code each property catches, and lists the hazards of the code
with the properties that cover them.

## 1. The system

### How the parts interact

    browser                              server
    -------                              ------
    Service worker  ---- shell, assets -> Caddy ---> the built frontend
    React pages                             |
      useApiResource --- GET /api/... ------+------> SessionGuard --> VehiclesService
      forms ------------ POST PATCH DELETE -+             |                |
      SessionProvider -- GET /api/auth/me --+             v                v
      AppLayout -------- POST logout -------+------> AuthService --> PostgreSQL
      (full-page) ------ login, callback ---+------> AuthController
           |                                              |
           +------------- /idp ----> Keycloak <--- OidcService (code exchange)

The backend is one Node process. Nothing in it runs in parallel, but every
`await` lets another request run, so a handler is a sequence of visits to the
database between which anything may happen. It keeps no state of its own beyond
a cached discovery document; what it knows is in PostgreSQL, and it is
restarted whenever it falls over (`restart: unless-stopped`).

### Inventory

| component | state | operations | what is hard | correct when |
|---|---|---|---|---|
| Vehicles service (`backend/src/vehicles`) | tables `vehicles`, `deadlines`, both with tombstones | GET, POST, PATCH, DELETE `/vehicles`; two layers of validation | PATCH and DELETE are three visits to the database in two transactions; the relation cascades; a partial unique index | requests take effect whole, on their owner's rows only; at most one live deadline of a standard kind; what was deleted stays deleted |
| Sessions (`auth.service.ts`, `session.guard.ts`) | table `sessions`; the cookie in each browser | create, resolve with sliding renewal, destroy, prune | renewal is five visits; renewals overlap each other, logouts and midnight; the cookie has a clock of its own | a logout is final; one device does not sign out another; a session lives as long as it is used |
| Accounts and sign-in (`auth.controller.ts`, `oidc.service.ts`, `findOrCreateUser`) | table `users`; the state cookie; Keycloak's codes | login, callback, code exchange, look-up by `sub`, adoption by address, creation | four visits between the look-up and the write; two tabs; codes that work once; identities contending for an address | one account per identity and per address; a row changes hands only to an address that is vouched for |
| Client session (`SessionProvider`, `session-marker.ts`, `AppLayout`, `ProtectedRoute`, `Login`) | React state, the marker in localStorage | boot check, forget, logout, redirects | the answer to the boot check races the sign-out; offline starts; several tabs share the marker | a marker that lies is found out; offline never signs out, a 401 does; no tab waits for good |
| Data fetching (`useApiResource`, `api.ts`) | one state per hook | effect, abort, reload, answer | late answers of an earlier key or reload | what is shown belongs to the key asked for; a reload ends |
| Vehicle pages (`VehicleDetail`, `VehicleForm`, `Dashboard`, `VehicleList`) | page snapshot, form fields, modal | add, change, pause, remove a deadline; edit, delete a vehicle | a PATCH replaces the whole set from a snapshot that other devices have outdated | saving one deadline leaves the others as they were |
| Service worker (`sw.ts`, `Caddyfile`, `vite.config.ts`) | cache storage; the worker's generation; what the server has | install, activate, documents network-first, assets cache-first | deployments between two fetches of one page; the fall-back to the shell answers for assets too | a cached asset is what its name says; an opened application opens offline |
| Deadline rules (`lib/deadlines.ts`) | none | days left, status, order, next, counts | midnights that are 23 or 25 hours apart, paused deadlines, ties | agrees with the calendar; the status only advances as days pass |
| Schema and migrations (`database/`) | DDL | up, down | reverting drops the tombstones | constraints are the ones the services rely on |
| Application shell (`main.ts`, `app.*`) | none | wiring, health answer | - | - |
| Deployment (`deploy.sh`, compose files, `keycloak/configure.sh`) | containers, the realm | build, migrate, restart | a crash between two calls | idempotent scripts |
| Static pages, catalogue, formatting | none | rendering | - | - |

## 2. The modules

| module | models | checked by | proved in |
|---|---|---|---|
| `VehicleStore` | the vehicles service on TypeORM and PostgreSQL | `vehicles_*` | `VehicleStoreProofs` |
| `Garage` | the abstract promise `VehicleStore` refines and `Pages` relies on | `vehicles_exclusive`, `pages` | implemented by `VehicleStore`: `VehicleStoreProofs` |
| `Sessions` | sessions, guard, cookies | `sessions*` | `SessionsProofs` |
| `Accounts` | the round trip to Keycloak and `findOrCreateUser` | `accounts` | `AccountsProofs` |
| `ServiceWorker` | `sw.ts`, the caches, the file server across deployments | `service_worker` | `ServiceWorkerProofs` |
| `Client` | who the tabs of a browser take to be signed in | `client` | `ClientProofs` |
| `ApiResource` | the hook `useApiResource`, as functions of its state | `pages` | `PagePartsProofs` |
| `Pages` | the lists, `VehicleDetail` and `VehicleForm` of a tab, over `ApiResource` and `Garage` | `pages` | `PagePartsProofs` (its operators), `PagesProofs` |
| `Deadlines` | `lib/deadlines.ts`, the Dashboard's rendering, `VehicleCard` | `deadlines` | `DeadlinesProofs` |
| `MC*` | values for the constants, and symmetry | | |

The three backend modules meet at the accounts: `Accounts.OpenSession` is where
`Sessions.SignIn` begins, and the user that `Sessions.LookUp` lets
through is the `user` that `VehicleStore` handlers are given. They are kept
apart because no statement of one writes a table of another.

The browser's half meets the backend at `Garage`: `vehicles_exclusive` shows that
the service implements it when requests on a vehicle do not overlap, and `Pages`
is built on its operations. Where the service falls short of `Garage` (section
5), `Pages` sees a request that fails, which it allows for every request. A 401
is `Client`'s concern: `Pages` is one tab between a sign-in and a sign-out.

### VehicleStore

`vehicles` and `deadlines` are the tables, as sequences: a row's place is its
identifier. `handler` says what each request is doing. A POST is one
transaction (`Create`). A PATCH is `LoadForUpdate` (`findOne` and the
assignments after it, which no `await` separates), `Reload` (what
`Repository.save` reads to find the difference between the entity and the row,
before it opens its transaction) and `CommitUpdate` or `RollBackUpdate` (the
transaction). A DELETE is the same with `softRemove`. `RefuseCreate`,
`RefuseUpdate` and `RefuseRemove` are the early answers: 400 from the
validation pipe or from `buildDeadlines`, 404 from `findOne`. `Restart` drops
every request in flight.

A column's contents are abstracted to a few values, and to `Null`, `Omitted`
and `Malformed` where the validators tell these apart. Due dates, notes and the
paused flag are carried through unchanged by the code and left out.

What TypeORM does is not in the repository and is an assumption, made from how
the entities are declared:

- `save` and `softRemove` read the row again, with its tombstone if it has one,
  outside their transaction, and write the columns in which it differs from the
  entity, `deleted_at = NULL` included;
- a row of the relation that the entity no longer lists is detached by writing
  `vehicle_id = NULL`, as the relation has no `orphanedRowAction`; the column is
  NOT NULL, so the transaction rolls back;
- whether the relation rows it reads include tombstones is left open (`Reload`
  chooses);
- an INSERT that breaks a unique index, or an UPDATE that breaks NOT NULL, rolls
  back and ends in a 500; an UPDATE of no rows is silent; `save` of a row that
  is gone inserts it again.

### Sessions

`sessions` is the table (`live = FALSE` stands for a deleted row), `cookie` the
jar of each browser, `request` the requests under way, `today` a clock in days,
which is what every date here is measured in. A request behind `SessionGuard`
goes `Send`, `Arrive`, `LookUp`, `Reload`, `Commit`, or leaves early through
`Refuse` (no row), `Expire` (a row that is over) or `Clash` (an INSERT that
finds its row put back). A logout goes `Send`, `Leave`, `DestroySession`, or
`LogoutOfNothing`; its answer, which clears the cookie (`AnswerLogout`), may be
lost. The end of a sign-in is a request too: `SignIn` reads the clock from which
the row is dated, `CreateSession` is the INSERT, and `ReceiveCookie` the arrival
of the answer, from which the browser counts the cookie's Max-Age; the answer
may be lost after the INSERT. `PruneExpiredSessions` exists in the code and nothing schedules it; the
model lets it happen at any time, so that scheduling it is known to be safe.

Assumptions: at most one midnight falls between the moment a request reads the
clock and its end (`Tick`), and a browser stops sending a cookie when its Max-Age is over.

### Accounts

`users` is the table, `trips` the round trips that `login` began (each with the
code Keycloak will accept once), `stateCookie` the trip that each browser's
state cookie names, `callback` what each request to the callback is doing. A
trip goes `Login`, `Return`, `Exchange`, then `findOrCreateUser`: `FindBySub`,
`FindByEmail`, `Reload`, `Save` for an adoption, `Insert` for a new account,
then `OpenSession`. `Refuse` is the 400 for a state that does not match, and
stands for the one for an error from Keycloak, `ExchangeFails`, `SaveFails` and `InsertFails` the 500s. `Return` may bring any
identity back to any trip, as often as it likes: Keycloak and the browser are the
environment. An identity is a `sub`, an address and whether Keycloak vouches for
the address; the display name, which is only carried along, is left out. `own` is
history: whether the row a request has in hand has borne the `sub` of its
identity since the request got hold of it (`Remember`, part of every step). No
action reads it; it is there so that `OwnAccount` can speak of the past.

### ServiceWorker

`deployed` is what Caddy serves; a deployment is the set of bundles its
`index.html` names and the generation (`CACHE_NAME`) of its `sw.js`. `cache` is
CacheStorage, one shell and a content per bundle for each generation, `held`
the browser's HTTP cache, `page` what each tab is doing. `handleDocument` is
`FetchShell` and `StoreShell`, or `FallBack`; `handleAsset` is `Match`, or
`FetchForCache` and `StoreAsset`. Between a fetch and its `put` anything may
happen, and the `put` may be refused (`StoreShellFails`, `StoreAssetFails`): the
code's `catch` takes that for being offline. `Served` is `try_files`: a bundle that is gone is answered with
`index.html` and a 200, and `Hold` is the year for which everything under
`/assets` is kept. `FindWorker`, `Install` and `Activate` are the worker's life;
`Activate` deletes the other caches and claims the pages that have a document.

Assumptions: `CACHE_NAME` is bumped whenever `sw.ts` changes, as its comment
asks; `addAll` into a cache that `activate` deleted succeeds and is lost; the
browser does not evict CacheStorage; a page is left once it has settled; the
fetches and the `put`s of the `addAll` in `install` are one step. The
unhashed icons, and the paths the worker lets through, are left out.
`FreshPagesAreSound` and `OpenedOpensOffline` suppose that no deployment brings
back a bundle an earlier one dropped (`NothingReturns`), which is so in the
instance. `OpenedOpensOffline` promises a bundle itself only while it is
deployed: a page that asks for it later may put `index.html` in its place
(`StoreAsset`).

### Client

`session` is the session the server honours for the browser's cookie, `marker`
is the entry in localStorage (0 as well when it is too old, which no reader
tells from none), `tab` what each tab's document knows.
Sign-ins are numbered and a number stands for an account. `Routed` is what
`ProtectedRoute` and `Login` make of the state, `Loading` when `useApiResource`
asks and aborts; both are part of every step that renders (`Render`). The boot
check is `AnswerCheck`, then `Confirm` or `Refuse`, or `FailCheck`; the logout
is `Logout`, `AnswerLogout`, `Forget`; a 401 to a page is `RefuseLoad`,
`TurnBack`. `window.location` takes effect later (`Arrive`): until then the old
document goes on running, and may be told things. `SignIn` is the whole round
trip that `Accounts` models in steps.

Left out: a browser with storage disabled, closing a tab (it only stops), a
second logout from an `AppLayout` mounted anew while a first is under way, links
that lead from a public page to a signed-in one, or back, within one document,
and Keycloak's own session.

### ApiResource and Pages

`ApiResource` is the state of the hook. `key` is what the page asks with, `of`
the key its state belongs to; `due` says that React still has to run the effect
of the last rendering (`RunEffect`), `loads` are the calls that effects made,
each with its answer once it has one and with the `AbortSignal` of its effect.
An effect's cleanup cancels a call without an answer; one whose answer has come
still has its callback to run, and `Heeded` is what keeps it out.

`Pages` has `place` (the route), `hook`, `detail` (the state of `VehicleDetail`
and its modal), `form` (of `VehicleForm`) and `writes`, the requests under way,
each with the callback that will run. The user goes anywhere (`Go`), retries,
opens, closes and saves the modal (`Manage`, `CloseModal`, `SaveDeadline`), asks
for and confirms a deletion (`AskDelete`, `KeepVehicle`, `handleDelete`), makes
one gesture on the form at a time (`Type`) and sends it (`handleSubmit`). The
server performs a request or refuses it (`Commit`, `Refuse`; a performed one may
still look failed), another device writes (`OtherDevice`), a read is answered
(`AnswerLoad`), and callbacks run (`DeliverLoad`, `AnswerWrite`, one disjunct for
each callback the code passes). `Render` ends every step: it resets a state of
another key before anything of it is painted, fills the form once from each
vehicle, and takes the state of a modal that is not rendered away.

`floor` is history: how often each vehicle had been written when the page last
had a reason to ask. `base`, `edited` and `rows` of a request are history too:
what its sender knew, opened and showed.

Assumptions: React keeps an instance when the next route renders the same
component in the same place (from one vehicle to another, and between the two
routes of the form), and `navigate` works for a page that is gone; React runs an
effect that is due before it renders again. Two of the four standard kinds stand
for all: the code treats them alike but for the insurance's pause. Plate, year
and the text of errors are left out: no branch reads them. The Dashboard and the
list are one place. A modal's fields are chosen when it is saved.

Of the constants it is assumed that the catalogue is of strings and the inputs
of the types the code gives them (`CatalogAssumption`, `TypedAssumption`), that
an absent value is no string and no number (`AbsenceAssumption`), and that the
vehicles there are to begin with, and the bodies another device sends, are ones
the API would have taken and the form's selects would have offered
(`StockAssumption`, `OtherDeviceAssumption`). The API itself takes any make and
model: what this page shows of a vehicle outside its catalogue is outside the
model. Lists are put in order by rank (`Ascending`, `Filtered`), as in
`Deadlines`: an element's place is the number of those that go before it.

### Deadlines

`today` is the device's calendar, `vehicles` the last answer, `dashboard` what
the Dashboard shows or is about to. Every call of `daysUntil` reads the clock
again, so a rendering is a step for the sort (`Load`), one for the tile
(`Count`) and one for each pass of the filter (`Group`), with midnights
(`NextDay`) in between; one sort and one pass are taken to read one day.
Midnights are in hours since the epoch, at any offset from UTC such that two
offsets differ by less than half a day: summer time, and the rare change of a
country's zone, are within it. `VehicleCard` is what a card announces whenever
it is rendered. An item is a place in the answer, so ties keep its order, as
`Array.prototype.sort` does.

## 3. What is checked

Only `client` and `pages` claim liveness. The backend has no loop or queue that has to make
progress by itself, and what a request waits for is outside it. In a tab,
`Fairness` says that a tab which waits gets on with something it waits for: a
fetch settles one way or the other, its callback is run, a navigation commits.
It does not say which of two answers comes first, nor that the user ever does
anything. `CHECK_DEADLOCK FALSE` is set where the system may stop: the
`VehicleStore` runs, in which a request is handled once, and `client`, in which
users may leave their tabs alone. `pages` is as `client`: requests settle one way or the other and what is due is
run (`Pages!Fairness`), while users and the other device owe nothing, so
`WaitingEnds` cannot lean on a retry. It too may stop, when nobody does
anything. The other modules check for deadlock.

| run | instance | shows |
|---|---|---|
| `vehicles_overlap` | 4 requests of 2 accounts on 2 vehicles, 4 bodies, any overlap | types, deadline rules, ownership, tombstones that no request holds, rows never removed |
| `vehicles_exclusive` | 4 requests of 1 account, 9 bodies with everything validation refuses, no two requests on a vehicle at once | tombstones cover deadlines, deletions last, the cap on deadlines, which requests end in a 500, refinement of `Garage` |
| `sessions` | 2 browsers, 2 requests, 2 sessions, lifetime 2, days 0 to 2 | types, no cookie outlives a session that was used, one device leaves the others alone |
| `sessions_race` | 1 browser, 3 requests on 1 session, lifetime 3, days 0 to 3 | overlapping renewals, ended sessions, closed accounts |
| `accounts` | 2 browsers, 2 trips, 2 callbacks, 4 identities over 2 addresses, 3 rows | one account each, right account, adoption, closed accounts |
| `service_worker` | 2 tabs, 2 bundles, 3 deployments, 2 generations | types, pages of the current deployment are sound, opened pages open offline, no entry is deleted under a page that uses it |
| `client` | 2 tabs, 2 sign-ins, 2 visits | types, a marker that lies is found out, tabs stay signed in while the session lasts, every tab comes to rest |
| `pages` | 1 tab, a vehicle with a suspended policy and a custom deadline, room for a second, a cap of 2 deadlines, 3 acts of the user and the other device | types, what is shown is what the address names and no older than the last reason to ask, a wait has one request and ends, no body has a fault the user did not just put there, saves leave the rest alone |
| `deadlines` | up to 2 vehicles and 3 deadlines, thresholds 1 and 3, 7 days with a change of the clocks either way | calendar days, states that only advance, no deadline lost to a midnight, a dashboard that agrees with itself, the next deadline |
| `vehicles_replace`, `vehicles_revived`, `sessions_logout` | smallest that shows it | section 5 |

The bounds. Every hazard on a vehicle needs a creation, a request that reads
early and one that commits in between; four requests leave room for one more.
Two identifiers are enough for one vehicle to be confused with another, and one
required column for the four, which no line of the code tells apart. A cap of
two deadlines is reached and exceeded. For the sessions, a lifetime of two
days lets a sign-in and a renewal straddle a midnight each, and a session expire
while others go on; a lifetime of three (`sessions_race`) lets a renewal move an
expiry by more than the one day that overlapping requests may differ by; a request that inserts a row which another
request has inserted needs three requests, hence `sessions_race`. For the
accounts, the four identities are one person with the `sub` of two realms,
another who has not confirmed the address she claims, and the first once she has
taken that address: each look-up can find a row, no row, or a row that someone
else is about to take. `Seed` is the row the migration leaves with no `sub`.

A page that gets one deployment's document and the next one's bundles needs two
deployments, and a third to bring the new worker; a bundle stays, comes and goes
over the three. Two tabs let one use what the other stores, or wait for a
worker that the other holds back. For the client, two tabs and two sign-ins let
an answer from the first session arrive in the second; visits bound only what
users start, and the reloads and redirects the code itself starts are not
bounded.

For the pages, an act is a request, a navigation, a gesture on the form or a
write of the other device; opening and closing dialogs is free. Three of them
let a form be changed and sent from a page the other device has outdated, two
saves of one modal be under way at once, a page be left while it saves and
another be opened before the answer, and a vehicle be created from values that
an edit left behind. The cap of two deadlines, which the first vehicle has, is
exceeded by one more row of the form. A deadline in `deadlines` is due on the days where the
thresholds make a difference, before and after each change of the clocks, and a
rendering is five steps in a week of seven days, so up to five midnights cut it.

## 4. What is proved

For every value of the constants, under the named assumptions that the modules
make about them (TLC evaluates those on its instances):

| theorem | property |
|---|---|
| `VehicleStoreProofs!TypeCorrect` | `TypeOK` |
| `VehicleStoreProofs!RulesHold` | `DeadlineRules` |
| `VehicleStoreProofs!OwnersReachTheirRows` | `OwnersOnly` |
| `VehicleStoreProofs!TombstonesAreFinal` | `RestingTombstoneStays` |
| `VehicleStoreProofs!RowsStay` | `RowsAreKept` |
| `VehicleStoreProofs!TombstonesMatch` (*) | `TombstoneCoversDeadlines` |
| `VehicleStoreProofs!RemovalsLast` (*) | `DeletedStaysDeleted` |
| `VehicleStoreProofs!CapHolds` (*) | `DeadlineCap` |
| `VehicleStoreProofs!ServerErrorsAreTwo` (*) | `ServerErrorsExplained` |
| `VehicleStoreProofs!GarageImplemented` (*) | `ImplementsGarage` |
| `SessionsProofs!TypeCorrect` | `TypeOK` |
| `SessionsProofs!CookiesGoFirst` | `CookieDiesFirst` |
| `SessionsProofs!RenewalsAlwaysHold` | `RenewalsHold` |
| `SessionsProofs!EndedForGood` | `EndedStaysEnded` |
| `SessionsProofs!ClosedForGood` | `ClosedAccountsStayOut` |
| `SessionsProofs!OthersLeftAlone` | `LeavesOthersAlone` |
| `AccountsProofs!TypeCorrect` | `TypeOK` |
| `AccountsProofs!OneAccount` | `OneAccountEach` |
| `AccountsProofs!OwnAccountReached` | `OwnAccount` |
| `AccountsProofs!Adoption` | `AdoptionIsVouchedFor` |
| `AccountsProofs!ClosedForGood` | `ClosedStaysClosed` |
| `ServiceWorkerProofs!TypeCorrect` | `TypeOK` |
| `ServiceWorkerProofs!FreshPages` | `FreshPagesAreSound` |
| `ServiceWorkerProofs!OpensOffline` | `OpenedOpensOffline` |
| `ServiceWorkerProofs!CachesStay` | `CachesOutlivePages` |
| `ClientProofs!TypeCorrect` | `TypeOK` |
| `ClientProofs!LiesFoundOut` | `LiesAreShort` |
| `ClientProofs!NobodyTurnedAway` | `OnlyUsersLeave` |
| `PagesProofs!OneAnswer` | `WaitsForOneAnswer` |
| `PagesProofs!TypeCorrect` | `TypeOK` |
| `PagesProofs!AskedIsShown` | `ShownIsAskedFor` |
| `PagesProofs!SoundBodies` | `BodiesAreSound` |
| `PagesProofs!RestSpared` | `SavesSpareTheRest` |
| `DeadlinesProofs!Calendar` | `DaysAreCalendarDays` |
| `DeadlinesProofs!OnlyAdvances` | `StatusOnlyAdvances` |
| `DeadlinesProofs!NothingLost` | `NoneLost` |
| `DeadlinesProofs!DashboardsAgree` | `DashboardAgrees` |
| `DeadlinesProofs!NextIsTheMostUrgent` | `NextIsMostUrgent` |

(*) where requests on one vehicle do not overlap: `~Overlap => (Spec => ...)`.
That is the instance of `vehicles_exclusive`; `vehicles_revived` shows what
overlapping requests do to the second of them.

Each module has an inductive invariant `IInv`, and `Inductive` is
`Spec => []IInv`; three of them have a second, stronger one that rests on it.
None of the properties is inductive alone:

- `VehicleStore`: `TypeOK /\ DeadlineRules /\ HandlersSound /\ ForeignKeys`.
  The type of a row written by `CommitUpdate` rests on the payload having passed
  validation two visits before, and `OwnersOnly` on the owner having been
  compared then: `HandlersSound` carries both to the commit.
- `VehicleStore` without overlap: `XInv` adds `TombstoneCoversDeadlines`,
  `DeletedStaysDeleted` and `DeadlineCap`, and what makes them hold together:
  two requests in flight are never about one vehicle (`HandlersApart`), so that
  nothing a handler has read is stale when it is written back
  (`HandlersFresh`): the row is live and unchanged, the handler lists all the
  deadlines of the vehicle or none, and its plan lifts no tombstone and leaves
  no row out unless the payload brings a list of its own. From the same
  invariant each step is one of `Garage` or a stutter: a commit is the whole
  operation, and every earlier visit leaves the abstract tables as they are.
- `Sessions`: `TypeOK /\ RequestsSound /\ DatesPast /\ OpenedSound /\
  CookiesCovered /\ CopiesOutliveCookies /\ RenewalsCovered`. A cookie may
  arrive a day after its row was dated, so what `CookieDiesFirst` says depends on
  how the row and the cookie came about: until the cookie arrives nobody else has
  the token, so no renewal has moved the row (`OpenedSound`), and any renewal
  that comes after begins no earlier than the day the cookie arrived. A request
  may put a deleted row back, so what the row will say has to be bounded while
  only the request holds it (`CopiesOutliveCookies`), and a renewal that found
  nothing to write has to be covered by the row before it is answered
  (`CookiesCovered`, `RenewalsCovered`).
  `LeavesOthersAlone` needs only the types, and what may take a row that has
  not expired out of the table (`WhatEndsSessions`).
- `Accounts`: `TypeOK /\ OneAccountEach /\ HandsSound /\ SkipsSound /\
  OwnAccount`. `HandsSound` carries the tested address to the write;
  `SkipsSound` says that a save which leaves `sub` alone may do so: the row has
  borne the identity's `sub` since the request read it. What every step does to
  the history is one lemma (`OwnSteps`); a row that has changed hands since then
  did so by an adoption that was vouched for.
- `ServiceWorker`: each page by itself is sound under the caches and the
  deployment (`PageSound`): what a page that was born under its worker has got is
  in that worker's cache or still on its way there, and a URL that holds
  index.html, in a page, in a cache or in the browser's own, is that of a bundle
  which an earlier deployment had and the current one has not (`Spoilt`). A
  deployment keeps the latter if nothing that was dropped returns
  (`DroppedStays`); an activation keeps the former because no page is controlled
  then.
- `Client`: each tab by itself is sound under the number of sign-ins and the
  session that is honoured (`TabSound`): what it was told and what it shows once
  its check has settled is no older than its document, and a tab that opened in
  the session which is still honoured was told of that one and has had no 401.
  The marker may say anything (`Counted` bounds it by the sign-ins and no more):
  no lemma asks more of it, which is the sense in which it is no authority.
- `Pages`: each of the three flags goes with the set of requests that it stands
  for, which has at most one member and is empty exactly when the flag is down
  (`One`). A modal's request has an owner only on a page that is there
  (`Formed`), `deleting` is up on a vehicle's page only and the form's `saving`
  on a form only: this is what a redirection, which takes the request away and
  leaves the flag to the page that goes, needs.
- `Pages`, what is shown and sent: `PInv`. Whatever the page holds or may still
  be told of a vehicle is what the server held when it was last written, as far
  as the page knows: at the same revision the two are equal (`Snapshot`). A call
  that is not aborted is for the page as it is and, once the effect has run, was
  made no earlier than `floor` (`Sound`, `Fresh`): this is why `floor` may rise
  only with an effect that is due. A save rebuilds the vehicle of the revision it
  was made from, but for the deadline that was edited (`WriteSound`); that it
  recognises this one by its id needs the identifiers of all the deadlines that
  the server or the page knows to be distinct (`Distinct`). The form holds what
  can be shown and sent (`FormOK`). Every step of the server keeps to `Advance`
  (what was not written again is as it was, and what is gone stays so), so each
  part of the invariant is carried over the server's steps once for all of them.
  What the operators make of a list, a body or a hook is in `PagePartsProofs`.
- `Deadlines`: each section that has been filled is the whole list as it stood
  on some day between the first and the last of the rendering (`Filled`). A
  state that is the same at both ends is the same in between (`Between`, from
  `OnlyAdvances`' lemma `Urgency`), so every pass judged the deadline alike.
  `Calendar` is arithmetic: twenty-four hours times the days, give or take
  eleven, rounds to the days (`Distance`). The order of the dashboard is the sort
  of the day on which its rendering began (`Listed`). A finite set in strict
  order is listed by rank (`Ranked`): that places are taken once each follows
  from the library's facts about cardinalities and needs no induction, so the
  first of the sorted list is the most urgent.

The other proofs first reduce a step to what it may do to one row and one request
(`UsersStep`, `CallbacksStep` and their like), one case per action, and then
argue about rows, so an action added later costs one case.

Model-checked only: the two liveness properties, `TabsComeToRest` and
`WaitingEnds`, as liveness under fairness and ENABLED are out of the prover's
reach. Everything else that a passing run checks is also a theorem. Out of reach
too is what a recursive definition computes for every input; the modules have no
such definition, and their lists are put in order by rank instead.

## 5. Where the code and what is said of it disagree

- `vehicles_replace`. A PATCH that brings deadlines for a vehicle that has some
  ends in a 500 and changes nothing, where the comment promises that it replaces
  the set. `ServerErrorsExplained` shows that this and a `null` in a PATCH are
  the only 500s left when requests do not overlap.
- `vehicles_revived`. A PATCH that read the vehicle before a DELETE committed
  writes `deleted_at = NULL`: the vehicle is back after its 204. Without overlap
  `DeletedStaysDeleted` holds, and with it `RestingTombstoneStays` is what is
  left of it.
- `sessions_logout`. A request that read the session before a logout deleted it
  inserts it again. `EndedStaysEnded` is what is left: only such a request can.

Without a run, because nothing in the repository says otherwise, or because a
property that holds already marks the limit:

- A bundle that a deployment removed while a page was loading is answered with
  `index.html` and a 200, and is cached under the bundle's URL (`sw.ts:153`),
  where `sw.ts:142-143` says that a cached entry can never be stale.
  `FreshPagesAreSound` shows that only pages of an older deployment suffer, and
  `OpenedOpensOffline` that a bundle which is still deployed is never the one
  that is overwritten.
- A session's row slides and its cookie does not, where `auth.service.ts:105-106`
  says that it survives as long as it is used: the browser drops the cookie
  thirty days after sign-in. `CookieDiesFirst` shows that a session which was
  used never ends the other way round; one that never was may leave a cookie
  behind, for as long as its sign-in took.
- `AppLayout.tsx:42-43` and ADR 0009 say that the server is told of an offline
  logout later. No code does, and in `Client` the landing page's own check
  (`Arrive`, `AnswerCheck`, `Confirm`) signs the user in again.
- The answer to a modal that was closed while it saved closes the one that is
  open by then (`VehicleDetail.tsx:143`, `SavedAnswer`).
- `managing` survives a change of vehicle in place: the modal then opens over
  another vehicle, none of whose deadlines has that id, and Save reports success
  without saving what was typed (`VehicleDetail.tsx:31` and `:235`, `ModalBody`).
- A form's or a deletion's late answer navigates wherever the user has gone by
  then (`SubmittedAnswer`, `DeletedAnswer`); where it leads to the page that is
  open already, that page is not loaded again (`Arrive`).
- The create form reached from an edit form keeps the values of the vehicle, and
  an edit form that comes back to its vehicle keeps those it had, as
  `filledFrom` still matches (`VehicleForm.tsx:130`, `Filled`).
- Saving the form sends every deadline without its notes and its pause
  (`VehicleForm.tsx:201`, `buildPayload`), and an emptied odometer keeps the old
  reading although the hint says it counts as 0 (`:220` and `:354`).
- The form adds rows without end (`VehicleForm.tsx:162`), although the API takes
  no more than twenty deadlines (`create-vehicle.dto.ts:24`), and the modal's
  notes have no `maxLength` (`VehicleDetail.tsx:315`), although it takes no more
  than 500 characters (`create-deadline.dto.ts:51`). Both end in a 400 that the
  page shows. `BodiesAreSound` says that these, and a make or a model left empty,
  are the only faults in the deadlines and the model a page sends, and that in the
  modal the fault is in the deadline being edited, never in one the user did not
  open.
- Overlapping requests on one vehicle may also lose each other's columns
  (`vehicles.service.ts:88`), leave a live deadline under a tombstone (`:113`), or
  add up to more deadlines than the cap (`create-vehicle.dto.ts:24`): no property
  holds of these, and the (*) properties of section 4 are claimed without overlap.
- Midnight in the middle of a rendering drops from the Dashboard a deadline that
  turns just then, and a page left open over midnight shows yesterday's states
  until something renders it (`Dashboard.tsx:72-79`, `Group`). `NoneLost` shows
  that no other deadline is lost.

## 6. Not modelled, and the plan

Not modelled: the application shell, the static pages and the catalogue, which
keep no state; the scripts of `deploy/` and `keycloak/`, idempotent sequences of
shell commands whose state is in Docker and Keycloak; the migrations themselves,
of which only the constraints they leave behind are used. TypeORM, PostgreSQL,
Keycloak and the browser are assumptions, named where they are made.

To come, in this order:

1. The steps that the two liveness properties rest on, as action properties: a
   measure that each fair step of a waiting page or tab brings down and no other
   step of the code brings up.
2. `vehicles_overlap` without the proviso: which of the five (*) properties are
   left of each pair of requests that overlap, beyond `RestingTombstoneStays`.
3. A reminder scheduler and the catalogue's API, once the code has them: both
   are announced in comments only.
