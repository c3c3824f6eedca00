---------------------------- MODULE ServiceWorker ----------------------------
(***************************************************************************)
(* The service worker (sw.ts) of one browser, the pages it serves and the  *)
(* file server behind it, across deployments.                              *)
(*                                                                         *)
(* A deployment replaces index.html, the hashed bundles it names and       *)
(* sw.js. Caddy answers a path it has no file for with index.html and a    *)
(* 200, bundles included. A page gets its document, then its bundles in    *)
(* any order; between a fetch and the put that follows it another page, a  *)
(* deployment or the loss of the network may come.                         *)
(*                                                                         *)
(* A worker's generation stands for its CACHE_NAME, which is bumped        *)
(* whenever sw.ts changes. The unhashed icons, and the paths of the server *)
(* (/api, /idp), which the worker lets through, are left out.              *)
(***************************************************************************)
EXTENDS Naturals, Sequences

CONSTANTS
    Windows,      \* the tabs of the browser
    Assets,       \* hashed names under /assets
    Uses,         \* the bundles that the index.html of each deployment names
    Generation    \* the CACHE_NAME in the sw.js of each deployment

Deployments == DOMAIN Uses
Generations == {Generation[d] : d \in Deployments}

ASSUME UsesAssumption == Uses \in Seq(SUBSET Assets) /\ Len(Uses) > 0
ASSUME GenerationAssumption ==
    Generation \in [Deployments -> Nat \ {0}]

VARIABLES
    deployed,   \* the deployment that Caddy serves
    online,     \* can the browser reach it?
    cache,      \* CacheStorage: the shell and the bundles under each CACHE_NAME
    held,       \* the HTTP cache of the browser, bundles only
    active,     \* the generation of the active worker, 0 for none
    waiting,    \* of the worker that waits for it to be released, 0 for none
    installing, \* of the worker whose install handler runs, 0 for none
    orphaned,   \* was the cache that this handler opened deleted meanwhile?
    page        \* what each tab is doing

worker == <<active, waiting, installing, orphaned>>
vars == <<deployed, online, cache, held, worker, page>>

\* What a bundle's URL turns out to hold: nothing yet, the bundle, index.html,
\* or a network error.
Contents == {"none", "itself", "shell", "missing"}

Nothing == [a \in Assets |-> "none"]
Empty == [shell |-> 0, assets |-> Nothing]
Cache == [shell: Deployments \union {0}, assets: [Assets -> Contents \ {"missing"}]]

\* "via" is the generation that controls the page, 0 for none, and "born" says
\* that it did from the document on. "has" is what the fetches of the bundles
\* were answered with; "coming" are those the worker has yet to store.
Page ==
    [phase: {"closed", "navigating", "storing", "loading", "open", "failed"},
     via: Generations \union {0}, born: BOOLEAN,
     release: Deployments \union {0}, has: [Assets -> Contents],
     coming: SUBSET Assets]

Controlled(w) == page[w].phase # "closed" /\ page[w].via # 0

Whole(w) ==
    page[w].phase = "open" /\ \A a \in Uses[page[w].release] : page[w].has[a] = "itself"

Init ==
    /\ deployed = 1
    /\ online = TRUE
    /\ cache = [g \in Generations |-> Empty]
    /\ held = Nothing
    /\ active = 0 /\ waiting = 0 /\ installing = 0 /\ orphaned = FALSE
    /\ page = [w \in Windows |->
            [phase |-> "closed", via |-> 0, born |-> FALSE, release |-> 0,
             has |-> Nothing, coming |-> {}]]

-----------------------------------------------------------------------------
(* Documents: handleDocument.                                              *)

\* The browser asks the worker that is active by now; pages are left once they
\* have settled.
Navigate(w) ==
    /\ page[w].phase \in {"closed", "open", "failed"}
    /\ page' = [page EXCEPT ![w].phase = "navigating", ![w].via = active,
                            ![w].born = active # 0, ![w].release = 0,
                            ![w].has = Nothing]
    /\ UNCHANGED <<deployed, online, cache, held, worker>>

\* The page has its document.
Boot(w, release) ==
    page' = [page EXCEPT ![w].phase = "loading", ![w].release = release]

Fail(w) == page' = [page EXCEPT ![w].phase = "failed"]

\* No worker yet: any path of the application gets index.html from Caddy.
FetchDirectly(w) ==
    /\ page[w].phase = "navigating" /\ page[w].via = 0
    /\ IF online THEN Boot(w, deployed) ELSE Fail(w)
    /\ UNCHANGED <<deployed, online, cache, held, worker>>

FetchShell(w) ==
    /\ page[w].phase = "navigating" /\ page[w].via # 0
    /\ online
    /\ page' = [page EXCEPT ![w].phase = "storing", ![w].release = deployed]
    /\ UNCHANGED <<deployed, online, cache, held, worker>>

StoreShell(w) ==
    /\ page[w].phase = "storing"
    /\ cache' = [cache EXCEPT ![page[w].via].shell = page[w].release]
    /\ Boot(w, page[w].release)
    /\ UNCHANGED <<deployed, online, held, worker>>

\* Mutant: the match not looked at.
BootUnchecked(w, release) == Boot(w, release)

\* The cached shell, or the 503 when there is none.
BootOffline(w, release) ==
    IF release # 0 THEN Boot(w, release) ELSE Fail(w)

FallBack(w) ==
    /\ page[w].phase = "navigating" /\ page[w].via # 0
    /\ ~online
    /\ BootOffline(w, cache[page[w].via].shell)
    /\ UNCHANGED <<deployed, online, cache, held, worker>>

\* The put is refused (no room left): the catch takes that for a fetch that
\* failed, and answers with the shell of an earlier put.
StoreShellFails(w) ==
    /\ page[w].phase = "storing"
    /\ BootOffline(w, cache[page[w].via].shell)
    /\ UNCHANGED <<deployed, online, cache, held, worker>>

-----------------------------------------------------------------------------
(* Bundles: handleAsset.                                                   *)

\* Mutant: whatever was deployed last is what a path gets.
ServedUnhashed(a) == IF deployed > 1 THEN "shell" ELSE "itself"

\* try_files {path} /index.html
Served(a) == IF a \in Uses[deployed] THEN "itself" ELSE "shell"

\* fetch, through the HTTP cache: what Caddy answers under /assets is immutable
\* there for a year, the fall-back included.
Fetched(a) ==
    IF held[a] # "none" THEN held[a]
    ELSE IF online THEN Served(a) ELSE "missing"

Hold(a) ==
    held' = IF Fetched(a) = "missing" THEN held ELSE [held EXCEPT ![a] = Fetched(a)]

Asks(w, a) ==
    /\ page[w].phase = "loading"
    /\ a \in Uses[page[w].release]
    /\ page[w].has[a] = "none"

Receive(w, a, content) == page' = [page EXCEPT ![w].has[a] = content]

Cached(w, a) == IF page[w].via = 0 THEN "none" ELSE cache[page[w].via].assets[a]

Match(w, a) ==
    /\ Asks(w, a)
    /\ Cached(w, a) # "none"
    /\ Receive(w, a, Cached(w, a))
    /\ UNCHANGED <<deployed, online, cache, held, worker>>

\* Without a worker, or with an error that the worker hands on.
FetchAsset(w, a) ==
    /\ Asks(w, a)
    /\ Cached(w, a) = "none"
    /\ page[w].via = 0 \/ Fetched(a) = "missing"
    /\ Receive(w, a, Fetched(a))
    /\ Hold(a)
    /\ UNCHANGED <<deployed, online, cache, worker>>

FetchForCache(w, a) ==
    /\ Asks(w, a) /\ page[w].via # 0
    /\ Cached(w, a) = "none" /\ Fetched(a) # "missing"
    /\ page' = [page EXCEPT ![w].has[a] = Fetched(a),
                            ![w].coming = @ \union {a}]
    /\ Hold(a)
    /\ UNCHANGED <<deployed, online, cache, worker>>

\* Mutant: the put forgotten.
Unstored(w, a) == cache

Stored(w, a) == [cache EXCEPT ![page[w].via].assets[a] = page[w].has[a]]

StoreAsset(w, a) ==
    /\ a \in page[w].coming
    /\ cache' = Stored(w, a)
    /\ page' = [page EXCEPT ![w].coming = @ \ {a}]
    /\ UNCHANGED <<deployed, online, held, worker>>

\* The put is refused: the handler throws and the page gets a network error.
StoreAssetFails(w, a) ==
    /\ a \in page[w].coming
    /\ page' = [page EXCEPT ![w].has[a] = "missing",
                            ![w].coming = @ \ {a}]
    /\ UNCHANGED <<deployed, online, cache, held, worker>>

Open(w) ==
    /\ page[w].phase = "loading" /\ page[w].coming = {}
    /\ \A a \in Uses[page[w].release] : page[w].has[a] # "none"
    /\ page' = [page EXCEPT ![w].phase = "open"]
    /\ UNCHANGED <<deployed, online, cache, held, worker>>

Close(w) ==
    /\ page[w].phase \in {"open", "failed"}
    /\ page' = [page EXCEPT ![w].phase = "closed", ![w].via = 0, ![w].born = FALSE,
                            ![w].release = 0, ![w].has = Nothing]
    /\ UNCHANGED <<deployed, online, cache, held, worker>>

-----------------------------------------------------------------------------
(* The life of a worker.                                                   *)

Newest == IF waiting # 0 THEN waiting ELSE active

\* The page's script registers the worker once it has loaded; from then on the
\* browser compares sw.js with the newest worker it has.
FindWorker(w) ==
    /\ page[w].phase = "open" /\ (active # 0 \/ Whole(w))
    /\ online /\ installing = 0
    /\ Generation[deployed] # Newest
    /\ installing' = Generation[deployed]
    /\ orphaned' = FALSE
    /\ UNCHANGED <<deployed, online, cache, held, active, waiting, page>>

\* install: cache.addAll of the shell into the cache it opened first. A cache
\* that was deleted in the meantime takes it as well, and nobody finds it.
Install ==
    /\ installing # 0 /\ online
    /\ cache' = IF orphaned THEN cache
                ELSE [cache EXCEPT ![installing].shell = deployed]
    /\ waiting' = installing
    /\ installing' = 0
    /\ UNCHANGED <<deployed, online, held, active, orphaned, page>>

InstallFails ==
    /\ installing # 0 /\ ~online
    /\ installing' = 0
    /\ UNCHANGED <<deployed, online, cache, held, active, waiting, orphaned, page>>

\* Mutant: skipWaiting.
ReleasedAtOnce == TRUE

\* No skipWaiting: a new worker waits until no page is controlled.
Released == \A w \in Windows : ~Controlled(w)

\* activate: every other cache goes, that of a worker being installed included,
\* and clients.claim takes the pages that have their document already.
Activate ==
    /\ waiting # 0 /\ Released
    /\ cache' = [g \in Generations |-> IF g = waiting THEN cache[g] ELSE Empty]
    /\ active' = waiting
    /\ waiting' = 0
    /\ orphaned' = (orphaned \/ installing \notin {0, waiting})
    /\ page' = [w \in Windows |->
          IF page[w].phase \in {"loading", "open"}
          THEN [page[w] EXCEPT !.via = waiting] ELSE page[w]]
    /\ UNCHANGED <<deployed, online, held, installing>>

-----------------------------------------------------------------------------
(* The rest of the world.                                                  *)

Deploy ==
    /\ deployed < Len(Uses)
    /\ deployed' = deployed + 1
    /\ UNCHANGED <<online, cache, held, worker, page>>

\* The network goes and comes back; Caddy being restarted looks the same.
Disconnect ==
    /\ online' = ~online
    /\ UNCHANGED <<deployed, cache, held, worker, page>>

\* The HTTP cache makes room.
Evict(a) ==
    /\ held[a] # "none"
    /\ held' = [held EXCEPT ![a] = "none"]
    /\ UNCHANGED <<deployed, online, cache, worker, page>>

Load(w) ==
    \/ Navigate(w) \/ FetchDirectly(w) \/ FetchShell(w) \/ StoreShell(w)
    \/ StoreShellFails(w) \/ FallBack(w)
    \/ \E a \in Assets : \/ Match(w, a) \/ FetchAsset(w, a) \/ FetchForCache(w, a)
                         \/ StoreAsset(w, a) \/ StoreAssetFails(w, a)
    \/ Open(w) \/ Close(w)

Next ==
    \/ \E w \in Windows : Load(w) \/ FindWorker(w)
    \/ Install \/ InstallFails \/ Activate
    \/ Deploy \/ Disconnect
    \/ \E a \in Assets : Evict(a)

Spec == Init /\ [][Next]_vars

-----------------------------------------------------------------------------
(* Properties.                                                             *)

\* Every variable keeps its shape, and a page that runs has a document.
TypeOK ==
    /\ deployed \in Deployments /\ online \in BOOLEAN
    /\ cache \in [Generations -> Cache]
    /\ held \in [Assets -> Contents \ {"missing"}]
    /\ {active, waiting, installing} \subseteq Generations \union {0}
    /\ orphaned \in BOOLEAN
    /\ page \in [Windows -> Page]
    /\ \A w \in Windows :
          page[w].phase \in {"storing", "loading", "open"} =>
              page[w].release # 0

\* No deployment brings back a bundle that an earlier one dropped.
NothingReturns ==
    \A c, d, e \in Deployments :
        c < d /\ d < e => Uses[c] \intersect Uses[e] \subseteq Uses[d]

\* A page of the deployment that is served has its own bundles and never
\* index.html in their place, however its loading overlapped with deployments,
\* other pages and offline spells; unless a bundle that was dropped is back,
\* whose URL the two caches may have spoilt meanwhile.
FreshPagesAreSound ==
    NothingReturns =>
        \A w \in Windows : page[w].release = deployed =>
            \A a \in Uses[deployed] : page[w].has[a] # "shell"

\* "Makes the installed app open without a network": once a page has loaded
\* whole through the worker, and while the shell it came with is the one in the
\* cache, every one of its bundles that is still deployed is there with it, and
\* index.html under none of their URLs. The others have an entry too, but a page
\* that asked for one after the deployment that dropped it may have put
\* index.html there.
OpenedOpensOffline ==
    NothingReturns =>
        \A w \in Windows :
            /\ Whole(w) /\ page[w].born
            /\ page[w].release = cache[page[w].via].shell
            => \A a \in Uses[page[w].release] :
                   LET content == cache[page[w].via].assets[a]
                   IN  IF a \in Uses[deployed] THEN content = "itself"
                       ELSE content \in {"itself", "shell"}

KeepsCaches ==
    \A w \in Windows, a \in Assets :
        Controlled(w) /\ cache[page[w].via].assets[a] # "none" =>
            cache'[page[w].via].assets[a] # "none"

\* "Instead of taking over a page that is already running with the old assets":
\* no entry is deleted from the cache of a worker while it controls a page.
CachesOutlivePages == [][KeepsCaches]_vars

=============================================================================
