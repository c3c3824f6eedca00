------------------------- MODULE ServiceWorkerProofs -------------------------
(***************************************************************************)
(* Proofs about ServiceWorker, for any number of windows, bundles and      *)
(* deployments: the shape of the state, that pages of the deployment which *)
(* is served get their own bundles, that what has opened opens offline,    *)
(* and that no bundle leaves the cache under a page.                       *)
(*                                                                         *)
(* The argument is about one page p, over the caches c and with d          *)
(* deployed. What makes it go is that a worker takes over only when no     *)
(* page is controlled, so that the cache of a page never shrinks; and that *)
(* a URL which holds index.html is that of a bundle which was dropped.     *)
(***************************************************************************)
EXTENDS ServiceWorker, TLAPS

Caches == [Generations -> Cache]

\* Bundle a was named by an earlier deployment and is not by d.
Dropped(a, d) ==
    a \notin Uses[d] /\ \E e \in Deployments : e < d /\ a \in Uses[e]

Spoilt(a, content, d) == NothingReturns /\ content = "shell" => Dropped(a, d)

Arrived == {"itself", "shell"}

PageSound(p, c, d) ==
    /\ p \in Page
    /\ p.phase \in {"storing", "loading", "open"} => p.release # 0
    /\ p.phase = "closed" => p.via = 0
    /\ p.phase = "storing" => p.via # 0
    /\ p.phase = "open" => \A a \in Uses[p.release] : p.has[a] # "none"
    /\ p.born => p.via # 0
    /\ p.release <= d
    /\ \A a \in p.coming :
          p.phase = "loading" /\ p.via # 0 /\ p.has[a] \in Arrived
    /\ \A a \in Assets :
          /\ p.born /\ p.has[a] \in Arrived =>
                c[p.via].assets[a] # "none" \/ a \in p.coming
          /\ Spoilt(a, p.has[a], d)

CacheSound(c, d) ==
    /\ c \in Caches
    /\ \A g \in Generations :
          /\ c[g].shell <= d
          /\ \A a \in Assets : Spoilt(a, c[g].assets[a], d)

HeldSound(h, d) ==
    /\ h \in [Assets -> Contents \ {"missing"}]
    /\ \A a \in Assets : Spoilt(a, h[a], d)

Shaped ==
    /\ deployed \in Deployments /\ online \in BOOLEAN
    /\ {active, waiting, installing} \subseteq Generations \union {0}
    /\ orphaned \in BOOLEAN

IInv ==
    /\ Shaped
    /\ CacheSound(cache, deployed) /\ HeldSound(held, deployed)
    /\ page \in [Windows -> Page]
    /\ \A w \in Windows : PageSound(page[w], cache, deployed)

-----------------------------------------------------------------------------
(* Deployments and generations.                                            *)

LEMMA Numbers ==
    /\ Len(Uses) \in Nat /\ Len(Uses) > 0 /\ Deployments = 1..Len(Uses)
    /\ \A d \in Deployments : Uses[d] \subseteq Assets
    /\ Generations \subseteq Nat /\ 0 \notin Generations
    /\ \A d \in Deployments : Generation[d] \in Generations
<1>1. Len(Uses) \in Nat /\ Len(Uses) > 0 /\ Deployments = 1..Len(Uses)
      /\ \A d \in Deployments : Uses[d] \subseteq Assets
  BY UsesAssumption DEF Deployments
<1>2. Generations \subseteq Nat /\ 0 \notin Generations
      /\ \A d \in Deployments : Generation[d] \in Generations
  BY GenerationAssumption DEF Generations
<1>3. QED
  BY <1>1, <1>2

\* What was dropped stays dropped, if nothing returns.
LEMMA DroppedStays ==
    ASSUME NEW d \in Deployments, d + 1 \in Deployments, NEW a, NEW content,
           Spoilt(a, content, d)
    PROVE  Spoilt(a, content, d + 1)
<1> SUFFICES ASSUME NothingReturns, content = "shell" PROVE Dropped(a, d + 1)
  BY DEF Spoilt
<1>1. PICK e \in Deployments : a \notin Uses[d] /\ e < d /\ a \in Uses[e]
  BY DEF Spoilt, Dropped
<1>2. e \in Nat /\ d \in Nat /\ d < d + 1 /\ e < d + 1
  BY <1>1, Numbers
<1>3. Uses[e] \intersect Uses[d + 1] \subseteq Uses[d]
  BY <1>1, <1>2 DEF NothingReturns
<1>4. QED
  BY <1>1, <1>2, <1>3 DEF Dropped

LEMMA PageOutdated ==
    ASSUME NEW d \in Deployments, d + 1 \in Deployments, NEW p, NEW c,
           PageSound(p, c, d)
    PROVE  PageSound(p, c, d + 1)
<1>1. \A a \in Assets : Spoilt(a, p.has[a], d + 1)
  BY DroppedStays DEF PageSound
<1>2. p.release <= d + 1
  BY Numbers DEF PageSound, Page
<1>3. QED
  BY <1>1, <1>2 DEF PageSound

\* A cache that only grows does a page no harm.
LEMMA PageKept ==
    ASSUME NEW p, NEW c, NEW k, NEW d, PageSound(p, c, d),
           \A g \in Generations, a \in Assets :
               c[g].assets[a] # "none" => k[g].assets[a] # "none"
    PROVE  PageSound(p, k, d)
<1>1. p.born => p.via \in Generations
  BY DEF PageSound, Page
<1>2. QED
  BY <1>1 DEF PageSound

-----------------------------------------------------------------------------
(* One page.                                                               *)

LEMMA Beginning == Init => IInv
<1> SUFFICES ASSUME Init PROVE IInv
  OBVIOUS
<1>1. 1 \in Deployments
  BY Numbers
<1>2. Shaped
  BY <1>1 DEF Init, Shaped
<1>3. CacheSound(cache, deployed)
  BY <1>1, Numbers DEF Init, CacheSound, Caches, Cache, Empty, Nothing, Contents, Spoilt
<1>4. HeldSound(held, deployed)
  BY DEF Init, HeldSound, Nothing, Contents, Spoilt
<1>5. ASSUME NEW w \in Windows PROVE PageSound(page[w], cache, deployed)
  <2>1. page[w] = [phase |-> "closed", via |-> 0, born |-> FALSE, release |-> 0,
                   has |-> Nothing, coming |-> {}]
    BY DEF Init
  <2>2. Nothing \in [Assets -> Contents] /\ \A a \in Assets : Nothing[a] = "none"
    BY DEF Nothing, Contents
  <2>3. page[w] \in Page
    BY <2>1, <2>2 DEF Page
  <2>4. QED
    BY <1>1, <2>1, <2>2, <2>3, Numbers DEF PageSound, Spoilt, Arrived, Init
<1>6. page \in [Windows -> Page]
  BY <1>5 DEF PageSound, Init
<1>7. QED
  BY <1>2, <1>3, <1>4, <1>5, <1>6 DEF IInv

\* A step that writes one page and adds to the caches has to answer for those.
LEMMA OnePage ==
    ASSUME IInv, NEW w \in Windows, NEW p, page' = [page EXCEPT ![w] = p],
           Shaped', deployed' = deployed,
           CacheSound(cache', deployed), HeldSound(held', deployed),
           \A g \in Generations, a \in Assets :
               cache[g].assets[a] # "none" => cache'[g].assets[a] # "none",
           PageSound(p, cache', deployed)
    PROVE  IInv'
<1>1. page' \in [Windows -> Page]
  BY DEF IInv, PageSound
<1>2. ASSUME NEW v \in Windows PROVE PageSound(page'[v], cache', deployed)
  <2>1. CASE v = w
    BY <2>1 DEF IInv
  <2>2. CASE v # w
    <3>1. page'[v] = page[v] /\ PageSound(page[v], cache, deployed)
      BY <2>2 DEF IInv
    <3>2. QED
      BY <3>1, PageKept
  <2>3. QED
    BY <2>1, <2>2
<1>3. QED
  BY <1>1, <1>2 DEF IInv

\* So does one that leaves the caches alone.
LEMMA OnlyPage ==
    ASSUME IInv, NEW w \in Windows, NEW p, page' = [page EXCEPT ![w] = p],
           UNCHANGED <<deployed, online, cache, held, worker>>,
           PageSound(p, cache, deployed)
    PROVE  IInv'
<1>1. Shaped' /\ deployed' = deployed
      /\ CacheSound(cache', deployed) /\ HeldSound(held', deployed)
      /\ PageSound(p, cache', deployed)
      /\ \A g \in Generations, a \in Assets :
             cache[g].assets[a] # "none" => cache'[g].assets[a] # "none"
  BY DEF worker, IInv, Shaped
<1>2. QED
  BY <1>1, OnePage

\* Loading a document: what a page may be told, and that it may fail.
LEMMA Booted ==
    ASSUME NEW p, NEW c, NEW d \in Deployments, PageSound(p, c, d),
           p.phase \in {"navigating", "storing"}, NEW r \in Deployments, r <= d,
           NEW f \in {"storing", "loading"}, f = "storing" => p.via # 0
    PROVE  PageSound([p EXCEPT !.phase = f, !.release = r], c, d)
<1> DEFINE q == [p EXCEPT !.phase = f, !.release = r]
<1>1. /\ q.phase = f /\ q.release = r /\ q.via = p.via /\ q.born = p.born
      /\ q.has = p.has /\ q.coming = p.coming /\ q \in Page
  BY DEF PageSound, Page
<1>2. p.coming = {} /\ r # 0
  BY Numbers DEF PageSound
<1> HIDE DEF q
<1>3. PageSound(q, c, d)
  BY <1>1, <1>2 DEF PageSound
<1>4. QED
  BY <1>3 DEF q

LEMMA Failed ==
    ASSUME NEW p, NEW c, NEW d \in Deployments, PageSound(p, c, d),
           p.phase \in {"navigating", "storing"}
    PROVE  PageSound([p EXCEPT !.phase = "failed"], c, d)
<1> DEFINE q == [p EXCEPT !.phase = "failed"]
<1>1. /\ q.phase = "failed" /\ q.release = p.release /\ q.via = p.via
      /\ q.born = p.born /\ q.has = p.has /\ q.coming = p.coming /\ q \in Page
  BY DEF PageSound, Page
<1> HIDE DEF q
<1>3. PageSound(q, c, d)
  BY <1>1 DEF PageSound
<1>4. QED
  BY <1>3 DEF q

\* A fetch that is answered: from the cache, past it, or on the way into it.
LEMMA Answered ==
    ASSUME NEW p, NEW c, NEW d \in Deployments, PageSound(p, c, d),
           p.phase = "loading",
           NEW a \in Assets, p.has[a] = "none", NEW content \in Contents, Spoilt(a, content, d),
           NEW more \in SUBSET {a}, more # {} => p.via # 0 /\ content \in Arrived,
           p.born /\ content \in Arrived =>
               c[p.via].assets[a] # "none" \/ a \in more
    PROVE  PageSound([p EXCEPT !.has[a] = content, !.coming = @ \union more], c, d)
<1> DEFINE q == [p EXCEPT !.has[a] = content, !.coming = @ \union more]
<1>1. p \in Page /\ p.has \in [Assets -> Contents] /\ p.coming \in SUBSET Assets
  BY DEF PageSound, Page
<1>2. /\ q.phase = "loading" /\ q.release = p.release /\ q.via = p.via
      /\ q.born = p.born /\ q.has = [p.has EXCEPT ![a] = content]
      /\ q.coming = p.coming \union more
  BY <1>1 DEF Page
<1>3. q \in Page
  BY <1>1 DEF Page
<1> HIDE DEF q
<1>4. \A b \in Assets : q.has[b] = IF b = a THEN content ELSE p.has[b]
  BY <1>1, <1>2
<1>5. \A b \in q.coming : q.phase = "loading" /\ q.via # 0 /\ q.has[b] \in Arrived
  <2> TAKE b \in q.coming
  <2>1. CASE b \in more
    BY <1>2, <1>4, <2>1
  <2>2. CASE b \in p.coming
    <3>1. p.has[b] \in Arrived /\ p.via # 0
      BY <2>2 DEF PageSound
    <3>2. b # a
      BY <3>1 DEF Arrived
    <3>3. QED
      BY <1>1, <1>2, <1>4, <2>2, <3>1, <3>2
  <2>3. QED
    BY <1>2, <2>1, <2>2
<1>6. PageSound(q, c, d)
  BY <1>2, <1>3, <1>4, <1>5 DEF PageSound
<1>7. QED
  BY <1>6 DEF q

\* What is stored adds to the caches and leaves them sound.
LEMMA ShellStored ==
    ASSUME NEW c, NEW k, NEW d \in Deployments, CacheSound(c, d),
           NEW g \in Generations, NEW r \in Deployments, r <= d,
           k = [c EXCEPT ![g].shell = r]
    PROVE  /\ CacheSound(k, d)
           /\ \A x \in Generations, a \in Assets :
                  c[x].assets[a] # "none" => k[x].assets[a] # "none"
<1>1. \A x \in Generations : c[x] \in Cache
  BY DEF CacheSound, Caches
<1>2. k = [c EXCEPT ![g] = [c[g] EXCEPT !.shell = r]]
  OBVIOUS
<1>3. k \in Caches
  BY <1>1, <1>2 DEF CacheSound, Caches, Cache
<1>4. ASSUME NEW x \in Generations
      PROVE  k[x].assets = c[x].assets /\ k[x].shell = IF x = g THEN r ELSE c[x].shell
  BY <1>1, <1>2 DEF CacheSound, Caches, Cache
<1>5. QED
  BY <1>3, <1>4 DEF CacheSound

LEMMA AssetStored ==
    ASSUME NEW c, NEW k, NEW d, CacheSound(c, d),
           NEW g \in Generations, NEW a \in Assets,
           NEW content \in Arrived, Spoilt(a, content, d),
           k = [c EXCEPT ![g].assets[a] = content]
    PROVE  /\ CacheSound(k, d)
           /\ k[g].assets[a] # "none"
           /\ \A x \in Generations, b \in Assets :
                  c[x].assets[b] # "none" => k[x].assets[b] # "none"
<1>1. \A x \in Generations :
          c[x] \in Cache /\ c[x].assets \in [Assets -> Contents \ {"missing"}]
  BY DEF CacheSound, Caches, Cache
<1>2. k = [c EXCEPT ![g] = [c[g] EXCEPT !.assets = [c[g].assets EXCEPT ![a] = content]]]
  OBVIOUS
<1>3. [c[g].assets EXCEPT ![a] = content] \in [Assets -> Contents \ {"missing"}]
  BY <1>1 DEF Arrived, Contents
<1>4. k \in Caches
  BY <1>1, <1>2, <1>3 DEF CacheSound, Caches, Cache
<1>5. ASSUME NEW x \in Generations, NEW b \in Assets
      PROVE  k[x].assets[b] = IF x = g /\ b = a THEN content ELSE c[x].assets[b]
  BY <1>1, <1>2 DEF CacheSound, Caches, Cache
<1>6. ASSUME NEW x \in Generations PROVE k[x].shell = c[x].shell
  BY <1>1, <1>2 DEF CacheSound, Caches, Cache
<1>7. QED
  BY <1>4, <1>5, <1>6 DEF CacheSound, Arrived

-----------------------------------------------------------------------------
(* Every step.                                                             *)

\* What the actions look up exists, and bundles that the page's deployment
\* does not have are served as index.html.
LEMMA Looked ==
    ASSUME IInv, NEW w \in Windows
    PROVE  /\ deployed \in Deployments /\ page[w] \in Page
           /\ PageSound(page[w], cache, deployed)
           /\ page[w].via # 0 =>
                 /\ page[w].via \in Generations
                 /\ cache[page[w].via] \in Cache
                 /\ cache[page[w].via].shell <= deployed
                 /\ \A a \in Assets : Spoilt(a, cache[page[w].via].assets[a], deployed)
           /\ page[w].phase \in {"storing", "loading", "open"} =>
                 page[w].release \in Deployments
           /\ page[w].release <= deployed
<1>1. /\ deployed \in Deployments /\ page[w] \in Page
      /\ PageSound(page[w], cache, deployed)
  BY DEF IInv, Shaped
<1>2. page[w].via # 0 => page[w].via \in Generations
  BY <1>1 DEF Page
<1>3. page[w].phase \in {"storing", "loading", "open"} => page[w].release \in Deployments
  BY <1>1 DEF Page, PageSound
<1>4. QED
  BY <1>1, <1>2, <1>3 DEF IInv, CacheSound, Caches, PageSound

LEMMA Asked ==
    ASSUME IInv, NEW w \in Windows, NEW a, Asks(w, a)
    PROVE  /\ a \in Assets /\ page[w].phase = "loading" /\ page[w].has[a] = "none"
           /\ Fetched(a) \in Contents \ {"none"}
           /\ Spoilt(a, Fetched(a), deployed)
           /\ Cached(w, a) \in Contents \ {"missing"}
           /\ Spoilt(a, Cached(w, a), deployed)
<1>1. /\ a \in Assets /\ page[w].phase = "loading" /\ page[w].has[a] = "none"
      /\ page[w].release \in Deployments /\ a \in Uses[page[w].release]
      /\ page[w].release <= deployed /\ deployed \in Deployments
  BY Looked, Numbers DEF Asks
<1>2. a \notin Uses[deployed] => Dropped(a, deployed)
  <2>1. SUFFICES ASSUME a \notin Uses[deployed] PROVE page[w].release < deployed
    BY <1>1 DEF Dropped
  <2>2. QED
    BY <1>1, <2>1, Numbers
<1>3. Spoilt(a, Served(a), deployed) /\ Served(a) \in Arrived
  BY <1>2 DEF Served, Spoilt, Arrived
<1>4. held[a] \in Contents \ {"missing"} /\ Spoilt(a, held[a], deployed)
  BY <1>1 DEF IInv, HeldSound
<1>5. Fetched(a) \in Contents \ {"none"} /\ Spoilt(a, Fetched(a), deployed)
  BY <1>3, <1>4 DEF Fetched, Arrived, Contents, Spoilt
<1>6. Cached(w, a) \in Contents \ {"missing"} /\ Spoilt(a, Cached(w, a), deployed)
  <2>1. CASE page[w].via = 0
    BY <2>1 DEF Cached, Contents, Spoilt
  <2>2. CASE page[w].via # 0
    BY <1>1, <2>2, Looked DEF Cached, Cache
  <2>3. QED
    BY <2>1, <2>2
<1>7. QED
  BY <1>1, <1>5, <1>6

LEMMA Held ==
    ASSUME IInv, NEW w \in Windows, NEW a, Asks(w, a), Hold(a)
    PROVE  HeldSound(held', deployed)
<1>1. CASE Fetched(a) = "missing"
  BY <1>1 DEF Hold, IInv
<1>2. CASE Fetched(a) # "missing"
  <2>1. held' = [held EXCEPT ![a] = Fetched(a)]
    BY <1>2 DEF Hold
  <2>2. Fetched(a) \in Contents \ {"missing"} /\ Spoilt(a, Fetched(a), deployed)
    BY <1>2, Asked
  <2>3. QED
    BY <2>1, <2>2 DEF IInv, HeldSound
<1>3. QED
  BY <1>1, <1>2

LEMMA LoadKeeps ==
    ASSUME IInv, NEW w \in Windows, Load(w)
    PROVE  IInv'
<1>1. /\ deployed \in Deployments /\ page[w] \in Page
      /\ PageSound(page[w], cache, deployed)
      /\ page \in [Windows -> Page] /\ deployed <= deployed
  BY Looked, Numbers DEF IInv
<1>2. CASE Navigate(w)
  <2>1. \E b \in BOOLEAN :
          /\ b => active # 0
          /\ page' = [page EXCEPT ![w] =
                [page[w] EXCEPT !.phase = "navigating", !.via = active,
                                !.born = b, !.release = 0, !.has = Nothing]]
    <3>1. (active # 0) \in BOOLEAN
      OBVIOUS
    <3>2. page' = [page EXCEPT ![w] =
                [page[w] EXCEPT !.phase = "navigating", !.via = active,
                                !.born = (active # 0), !.release = 0, !.has = Nothing]]
      BY <1>1, <1>2 DEF Navigate
    <3>3. QED
      BY <3>1, <3>2, Zenon
  <2>2. PICK b \in BOOLEAN :
          /\ b => active # 0
          /\ page' = [page EXCEPT ![w] =
                [page[w] EXCEPT !.phase = "navigating", !.via = active,
                                !.born = b, !.release = 0, !.has = Nothing]]
    BY <2>1
  <2> DEFINE q == [page[w] EXCEPT !.phase = "navigating", !.via = active,
                                  !.born = b, !.release = 0, !.has = Nothing]
  <2>3. /\ q.phase = "navigating" /\ q.via = active /\ q.born = b
        /\ q.release = 0 /\ q.has = Nothing /\ q.coming = page[w].coming
    BY <1>1 DEF Page
  <2>4. active \in Generations \union {0} /\ Nothing \in [Assets -> Contents]
        /\ \A a \in Assets : Nothing[a] = "none"
    BY DEF IInv, Shaped, Nothing, Contents
  <2>5. page[w].coming = {}
    BY <1>1, <1>2 DEF PageSound, Navigate
  <2>6. q \in Page
    BY <1>1, <2>4 DEF Page
  <2> HIDE DEF q
  <2>7. PageSound(q, cache, deployed)
    BY <1>1, <2>2, <2>3, <2>4, <2>5, <2>6, Numbers DEF PageSound, Spoilt, Arrived
  <2>8. QED
    BY <1>2, <2>2, <2>7, OnlyPage DEF Navigate, q
<1>3. CASE FetchDirectly(w)
  <2>1. CASE online
    <3>1. page' = [page EXCEPT ![w] =
              [page[w] EXCEPT !.phase = "loading", !.release = deployed]]
      BY <1>1, <1>3, <2>1 DEF FetchDirectly, Boot
    <3>2. QED
      <4>1. PageSound([page[w] EXCEPT !.phase = "loading", !.release = deployed],
                      cache, deployed)
        BY <1>1, <1>3, Booted DEF FetchDirectly
      <4>2. QED
        BY <1>3, <3>1, <4>1, OnlyPage DEF FetchDirectly
  <2>2. CASE ~online
    <3>1. page' = [page EXCEPT ![w] = [page[w] EXCEPT !.phase = "failed"]]
      BY <1>3, <2>2 DEF FetchDirectly, Fail
    <3>2. QED
      BY <1>1, <1>3, <3>1, Failed, OnlyPage DEF FetchDirectly
  <2>3. QED
    BY <2>1, <2>2
<1>4. CASE FetchShell(w)
  <2>1. page' = [page EXCEPT ![w] =
            [page[w] EXCEPT !.phase = "storing", !.release = deployed]]
    BY <1>1, <1>4 DEF FetchShell
  <2>2. PageSound([page[w] EXCEPT !.phase = "storing", !.release = deployed],
                  cache, deployed)
    BY <1>1, <1>4, Booted DEF FetchShell
  <2>3. QED
    BY <1>4, <2>1, <2>2, OnlyPage DEF FetchShell
<1>5. CASE FallBack(w) \/ StoreShellFails(w)
  <2> DEFINE release == cache[page[w].via].shell
  <2>0. /\ page[w].phase \in {"navigating", "storing"} /\ page[w].via # 0
        /\ BootOffline(w, release)
        /\ UNCHANGED <<deployed, online, cache, held, worker>>
    BY <1>1, <1>5 DEF FallBack, StoreShellFails, PageSound
  <2>1. release \in Deployments \union {0} /\ release <= deployed
    BY <2>0, Looked DEF Cache
  <2>2. CASE release # 0
    <3>1. page' = [page EXCEPT ![w] =
              [page[w] EXCEPT !.phase = "loading", !.release = release]]
      BY <1>1, <2>0, <2>2 DEF BootOffline, Boot
    <3>2. QED
      BY <1>1, <2>0, <2>1, <2>2, <3>1, Booted, OnlyPage
  <2>3. CASE release = 0
    <3>1. page' = [page EXCEPT ![w] = [page[w] EXCEPT !.phase = "failed"]]
      BY <2>0, <2>3 DEF BootOffline, Fail
    <3>2. QED
      BY <1>1, <2>0, <3>1, Failed, OnlyPage
  <2>4. QED
    BY <2>2, <2>3
<1>6. CASE StoreShell(w)
  <2> DEFINE release == page[w].release
             q == [page[w] EXCEPT !.phase = "loading", !.release = release]
  <2>1. /\ page[w].phase = "storing" /\ page[w].via \in Generations
        /\ release \in Deployments /\ release <= deployed
    BY <1>1, <1>6, Looked DEF StoreShell, PageSound
  <2>2. cache' = [cache EXCEPT ![page[w].via].shell = release]
        /\ page' = [page EXCEPT ![w] = q]
    BY <1>1, <1>6 DEF StoreShell, Boot
  <2>3. /\ CacheSound(cache', deployed)
        /\ \A g \in Generations, a \in Assets :
               cache[g].assets[a] # "none" => cache'[g].assets[a] # "none"
    <3> DEFINE k == [cache EXCEPT ![page[w].via].shell = release]
    <3> HIDE DEF release
    <3>1. /\ CacheSound(k, deployed)
          /\ \A g \in Generations, a \in Assets :
                 cache[g].assets[a] # "none" => k[g].assets[a] # "none"
      BY <1>1, <2>1, ShellStored DEF IInv
    <3>2. QED
      BY <2>2, <3>1
  <2>4. PageSound(q, cache, deployed)
    <3>1. /\ q.phase = "loading" /\ q.release = release /\ q.via = page[w].via
          /\ q.born = page[w].born /\ q.has = page[w].has
          /\ q.coming = page[w].coming /\ q \in Page
      BY <1>1 DEF Page
    <3>2. page[w].coming = {} /\ release # 0
      BY <1>1, <2>1, Numbers DEF PageSound
    <3> HIDE DEF q, release
    <3>3. PageSound(q, cache, deployed)
      BY <1>1, <2>1, <3>1, <3>2 DEF PageSound
    <3>4. QED
      BY <3>3 DEF q
  <2>5. PageSound(q, cache', deployed)
    BY <2>3, <2>4, PageKept
  <2>6. Shaped' /\ deployed' = deployed /\ HeldSound(held', deployed)
    BY <1>6 DEF StoreShell, worker, IInv, Shaped
  <2>7. QED
    BY <2>2, <2>3, <2>5, <2>6, OnePage
<1>7. ASSUME NEW a \in Assets, Match(w, a) PROVE IInv'
  <2> DEFINE content == Cached(w, a)
             q == [page[w] EXCEPT !.has[a] = content, !.coming = @ \union {}]
  <2>1. page' = [page EXCEPT ![w] = q]
    BY <1>1, <1>7 DEF Match, Receive, Page
  <2>2. /\ page[w].phase = "loading" /\ page[w].has[a] = "none"
        /\ content \in Contents /\ Spoilt(a, content, deployed)
        /\ page[w].via # 0 => cache[page[w].via].assets[a] # "none"
        /\ page[w].born => page[w].via # 0
    BY <1>1, <1>7, Asked DEF Match, Cached, PageSound
  <2> HIDE DEF content
  <2>3. PageSound(q, cache, deployed)
    BY <1>1, <2>2, Answered
  <2>4. QED
    BY <1>7, <2>1, <2>3, OnlyPage DEF Match
<1>8. ASSUME NEW a \in Assets, FetchAsset(w, a) PROVE IInv'
  <2> DEFINE content == Fetched(a)
             q == [page[w] EXCEPT !.has[a] = content, !.coming = @ \union {}]
  <2>1. page' = [page EXCEPT ![w] = q]
    BY <1>1, <1>8 DEF FetchAsset, Receive, Page
  <2>2. /\ page[w].phase = "loading" /\ page[w].has[a] = "none"
        /\ content \in Contents /\ Spoilt(a, content, deployed)
        /\ ~(page[w].born /\ content \in Arrived)
    BY <1>1, <1>8, Asked DEF FetchAsset, PageSound, Arrived
  <2>3. HeldSound(held', deployed)
    BY <1>8, Held DEF FetchAsset
  <2> HIDE DEF content
  <2>4. PageSound(q, cache, deployed)
    BY <1>1, <2>2, Answered
  <2>5. Shaped' /\ deployed' = deployed /\ cache' = cache
    BY <1>8 DEF FetchAsset, worker, IInv, Shaped
  <2> HIDE DEF q
  <2>6. QED
    BY <2>1, <2>3, <2>4, <2>5, OnePage DEF IInv
<1>9. ASSUME NEW a \in Assets, FetchForCache(w, a) PROVE IInv'
  <2> DEFINE content == Fetched(a)
             q == [page[w] EXCEPT !.has[a] = content, !.coming = @ \union {a}]
  <2>1. page' = [page EXCEPT ![w] = q]
    BY <1>1, <1>9 DEF FetchForCache
  <2>2. /\ page[w].phase = "loading" /\ page[w].has[a] = "none"
        /\ content \in Contents /\ Spoilt(a, content, deployed)
        /\ page[w].via # 0 /\ content \in Arrived
    BY <1>9, Asked DEF FetchForCache, Arrived, Contents
  <2>3. HeldSound(held', deployed)
    BY <1>9, Held DEF FetchForCache
  <2> HIDE DEF content
  <2>4. PageSound(q, cache, deployed)
    BY <1>1, <2>2, Answered
  <2>5. Shaped' /\ deployed' = deployed /\ cache' = cache
    BY <1>9 DEF FetchForCache, worker, IInv, Shaped
  <2> HIDE DEF q
  <2>6. QED
    BY <2>1, <2>3, <2>4, <2>5, OnePage DEF IInv
<1>10. ASSUME NEW a \in Assets, StoreAsset(w, a) PROVE IInv'
  <2> DEFINE q == [page[w] EXCEPT !.coming = @ \ {a}]
             content == page[w].has[a]
  <2>1. /\ page[w].phase = "loading" /\ page[w].via \in Generations
        /\ content \in Arrived /\ Spoilt(a, content, deployed)
    BY <1>1, <1>10, Looked DEF StoreAsset, PageSound
  <2>2. cache' = [cache EXCEPT ![page[w].via].assets[a] = content]
        /\ page' = [page EXCEPT ![w] = q]
    BY <1>10 DEF StoreAsset, Stored
  <2>3. /\ CacheSound(cache', deployed)
        /\ cache'[page[w].via].assets[a] # "none"
        /\ \A g \in Generations, b \in Assets :
               cache[g].assets[b] # "none" => cache'[g].assets[b] # "none"
    <3> DEFINE via == page[w].via
               k == [cache EXCEPT ![via].assets[a] = content]
    <3>1. /\ CacheSound(cache, deployed) /\ via \in Generations
          /\ content \in Arrived /\ Spoilt(a, content, deployed)
      BY <2>1 DEF IInv
    <3> HIDE DEF content, via
    <3>2. /\ CacheSound(k, deployed)
          /\ k[via].assets[a] # "none"
          /\ \A g \in Generations, b \in Assets :
                 cache[g].assets[b] # "none" => k[g].assets[b] # "none"
      BY <3>1, AssetStored
    <3>3. QED
      BY <2>2, <3>2 DEF via
  <2>4. PageSound(page[w], cache', deployed)
    BY <1>1, <2>3, PageKept
  <2>5. PageSound(q, cache', deployed)
    <3>1. /\ q.phase = page[w].phase /\ q.release = page[w].release
          /\ q.via = page[w].via /\ q.born = page[w].born /\ q.has = page[w].has
          /\ q.coming = page[w].coming \ {a} /\ q \in Page
      BY <1>1 DEF Page
    <3> HIDE DEF q
    <3>2. PageSound(q, cache', deployed)
      BY <2>3, <2>4, <3>1 DEF PageSound
    <3>3. QED
      BY <3>2 DEF q
  <2>6. Shaped' /\ deployed' = deployed /\ HeldSound(held', deployed)
    BY <1>10 DEF StoreAsset, worker, IInv, Shaped
  <2>7. QED
    BY <2>2, <2>3, <2>5, <2>6, OnePage
<1>14. ASSUME NEW a \in Assets, StoreAssetFails(w, a) PROVE IInv'
  <2> DEFINE q == [page[w] EXCEPT !.has[a] = "missing", !.coming = @ \ {a}]
  <2>1. page' = [page EXCEPT ![w] = q]
    BY <1>1, <1>14 DEF StoreAssetFails
  <2>2. page[w].has \in [Assets -> Contents] /\ "missing" \in Contents
    BY <1>1 DEF Page, Contents
  <2>3. /\ q.phase = page[w].phase /\ q.release = page[w].release
        /\ q.via = page[w].via /\ q.born = page[w].born
        /\ q.has = [page[w].has EXCEPT ![a] = "missing"]
        /\ q.coming = page[w].coming \ {a} /\ q \in Page
    BY <1>1, <2>2 DEF Page
  <2> HIDE DEF q
  <2>4. \A b \in Assets : q.has[b] = IF b = a THEN "missing" ELSE page[w].has[b]
    BY <2>2, <2>3
  <2>5. page[w].coming \subseteq Assets /\ page[w].phase = "loading"
    BY <1>1, <1>14 DEF Page, PageSound, StoreAssetFails
  <2>6. PageSound(q, cache, deployed)
    BY <1>1, <2>3, <2>4, <2>5 DEF PageSound, Spoilt, Arrived
  <2>7. QED
    BY <1>14, <2>1, <2>6, OnlyPage DEF StoreAssetFails
<1>11. CASE Open(w)
  <2> DEFINE q == [page[w] EXCEPT !.phase = "open"]
  <2>1. page' = [page EXCEPT ![w] = q]
    BY <1>11 DEF Open
  <2>2. /\ q.phase = "open" /\ q.release = page[w].release
        /\ q.via = page[w].via /\ q.born = page[w].born /\ q.has = page[w].has
        /\ q.coming = {} /\ q \in Page /\ page[w].coming = {}
        /\ page[w].phase = "loading"
        /\ \A a \in Uses[page[w].release] : page[w].has[a] # "none"
    BY <1>1, <1>11 DEF Open, Page
  <2> HIDE DEF q
  <2>3. PageSound(q, cache, deployed)
    BY <1>1, <2>2 DEF PageSound
  <2>4. QED
    BY <1>11, <2>1, <2>3, OnlyPage DEF Open
<1>12. CASE Close(w)
  <2> DEFINE q == [page[w] EXCEPT !.phase = "closed", !.via = 0, !.born = FALSE,
                                  !.release = 0, !.has = Nothing]
  <2>1. page' = [page EXCEPT ![w] = q]
    BY <1>1, <1>12 DEF Close
  <2>2. Nothing \in [Assets -> Contents] /\ \A a \in Assets : Nothing[a] = "none"
    BY DEF Nothing, Contents
  <2>3. page[w].coming = {}
    BY <1>1, <1>12 DEF PageSound, Close
  <2>4. /\ q.phase = "closed" /\ q.via = 0 /\ ~q.born /\ q.release = 0
        /\ q.has = Nothing /\ q.coming = {} /\ q \in Page
    BY <1>1, <2>2, <2>3 DEF Page
  <2> HIDE DEF q
  <2>5. PageSound(q, cache, deployed)
    BY <1>1, <2>2, <2>4, Numbers DEF PageSound, Spoilt, Arrived
  <2>6. QED
    BY <1>12, <2>1, <2>5, OnlyPage DEF Close
<1>13. QED
  BY <1>2, <1>3, <1>4, <1>5, <1>6, <1>7, <1>8, <1>9, <1>10, <1>11, <1>12, <1>14
     DEF Load

LEMMA Kept == IInv /\ [Next]_vars => IInv'
<1> SUFFICES ASSUME IInv, [Next]_vars PROVE IInv'
  OBVIOUS
<1>1. /\ deployed \in Deployments /\ cache \in Caches
      /\ CacheSound(cache, deployed) /\ HeldSound(held, deployed)
      /\ page \in [Windows -> Page]
      /\ \A w \in Windows : PageSound(page[w], cache, deployed)
  BY DEF IInv, Shaped, CacheSound
<1>2. CASE \E w \in Windows : Load(w)
  BY <1>2, LoadKeeps
<1>3. CASE \E w \in Windows : FindWorker(w)
  BY <1>1, <1>3, Numbers DEF FindWorker, IInv, Shaped
<1>4. CASE Install
  <2>1. Shaped' /\ deployed' = deployed /\ held' = held /\ page' = page
    BY <1>4, Numbers DEF Install, IInv, Shaped
  <2>2. /\ CacheSound(cache', deployed)
        /\ \A g \in Generations, a \in Assets :
               cache[g].assets[a] # "none" => cache'[g].assets[a] # "none"
    <3>1. CASE orphaned
      BY <1>1, <1>4, <3>1 DEF Install
    <3>2. CASE ~orphaned
      <4>1. installing \in Generations /\ deployed <= deployed
            /\ cache' = [cache EXCEPT ![installing].shell = deployed]
        BY <1>1, <1>4, <3>2, Numbers DEF Install, IInv, Shaped
      <4> DEFINE k == [cache EXCEPT ![installing].shell = deployed]
      <4>2. /\ CacheSound(k, deployed)
            /\ \A g \in Generations, a \in Assets :
                   cache[g].assets[a] # "none" => k[g].assets[a] # "none"
        BY <1>1, <4>1, ShellStored
      <4>3. QED
        BY <4>1, <4>2
    <3>3. QED
      BY <3>1, <3>2 DEF IInv, Shaped
  <2>3. \A w \in Windows : PageSound(page[w], cache', deployed)
    BY <1>1, <2>2, PageKept
  <2>4. QED
    BY <1>1, <2>1, <2>2, <2>3 DEF IInv
<1>5. CASE InstallFails
  BY <1>1, <1>5 DEF InstallFails, IInv, Shaped
<1>6. CASE Activate
  <2>1. Shaped' /\ deployed' = deployed /\ held' = held
    <3>1. (orphaned \/ installing \notin {0, waiting}) \in BOOLEAN
      OBVIOUS
    <3>2. orphaned' \in BOOLEAN
      BY <1>6, <3>1, Zenon DEF Activate
    <3>3. QED
      BY <1>6, <3>2 DEF Activate, IInv, Shaped
  <2>2. CacheSound(cache', deployed)
    <3>1. Empty \in Cache /\ Empty.shell = 0 /\ Empty.assets = Nothing
          /\ \A a \in Assets : Nothing[a] = "none"
      BY DEF Empty, Cache, Nothing, Contents
    <3>2. cache' = [g \in Generations |-> IF g = waiting THEN cache[g] ELSE Empty]
      BY <1>6 DEF Activate
    <3>3. 0 <= deployed
      BY <1>1, Numbers
    <3>4. QED
      BY <1>1, <3>1, <3>2, <3>3 DEF CacheSound, Caches, Spoilt
  <2>3. ASSUME NEW w \in Windows
        PROVE  PageSound(page'[w], cache', deployed)
    <3>1. page[w].via = 0 /\ ~page[w].born /\ page[w].coming = {}
      BY <1>1, <1>6, <2>3 DEF Activate, Released, Controlled, PageSound
    <3>2. PageSound(page[w], cache', deployed)
      BY <1>1, <2>3, <3>1 DEF PageSound
    <3>3. CASE page[w].phase \in {"loading", "open"}
      <4> DEFINE q == [page[w] EXCEPT !.via = waiting]
      <4>1. page'[w] = q
        BY <1>6, <2>3, <3>3 DEF Activate
      <4>2. waiting \in Generations
        BY <1>6 DEF Activate, IInv, Shaped
      <4>3. /\ q.phase = page[w].phase /\ q.release = page[w].release
            /\ q.via = waiting /\ q.born = page[w].born /\ q.has = page[w].has
            /\ q.coming = page[w].coming /\ q \in Page
        BY <1>1, <2>3, <4>2 DEF Page
      <4> HIDE DEF q
      <4>4. PageSound(q, cache', deployed)
        BY <3>1, <3>2, <3>3, <4>3 DEF PageSound
      <4>5. QED
        BY <4>1, <4>4
    <3>4. CASE page[w].phase \notin {"loading", "open"}
      <4>1. page'[w] = page[w]
        BY <1>6, <2>3, <3>4 DEF Activate
      <4>2. QED
        BY <3>2, <4>1
    <3>5. QED
      BY <3>3, <3>4
  <2>4. page' \in [Windows -> Page]
    <3>1. page' = [w \in Windows |-> page'[w]]
      BY <1>6 DEF Activate
    <3>2. QED
      BY <2>3, <3>1 DEF PageSound
  <2>5. QED
    BY <1>1, <2>1, <2>2, <2>3, <2>4 DEF IInv
<1>7. CASE Deploy
  <2>1. deployed' = deployed + 1 /\ deployed + 1 \in Deployments
        /\ held' = held /\ cache' = cache /\ page' = page
    BY <1>1, <1>7, Numbers DEF Deploy
  <2>2. Shaped'
    BY <1>7, <2>1 DEF Deploy, worker, IInv, Shaped
  <2>3. CacheSound(cache, deployed + 1)
    <3>1. ASSUME NEW g \in Generations PROVE cache[g].shell <= deployed + 1
      BY <1>1, <3>1, Numbers DEF CacheSound, Caches, Cache
    <3>2. QED
      BY <1>1, <2>1, <3>1, DroppedStays DEF CacheSound
  <2>4. HeldSound(held, deployed + 1)
    BY <1>1, <2>1, DroppedStays DEF HeldSound
  <2>5. \A w \in Windows : PageSound(page[w], cache, deployed + 1)
    BY <1>1, <2>1, PageOutdated
  <2>6. QED
    BY <1>1, <2>1, <2>2, <2>3, <2>4, <2>5 DEF IInv
<1>8. CASE Disconnect
  <2>1. Shaped' /\ UNCHANGED <<deployed, cache, held, page>>
    BY <1>1, <1>8 DEF Disconnect, worker, IInv, Shaped
  <2>2. QED
    BY <1>1, <2>1 DEF IInv
<1>9. ASSUME NEW a \in Assets, Evict(a) PROVE IInv'
  <2>1. Shaped' /\ UNCHANGED <<deployed, cache, page>>
    BY <1>9 DEF Evict, worker, IInv, Shaped
  <2>2. HeldSound(held', deployed)
    BY <1>1, <1>9 DEF Evict, HeldSound, Contents, Spoilt
  <2>3. QED
    BY <1>1, <2>1, <2>2 DEF IInv
<1>10. CASE UNCHANGED vars
  BY <1>1, <1>10 DEF vars, worker, IInv, Shaped
<1>11. QED
  BY <1>2, <1>3, <1>4, <1>5, <1>6, <1>7, <1>8, <1>9, <1>10 DEF Next

\* What is known of the pages, of the caches and of what they spoil is an
\* invariant.
THEOREM Inductive == Spec => []IInv
BY Beginning, Kept, PTL DEF Spec

-----------------------------------------------------------------------------
(* What follows.                                                           *)

\* Every variable keeps its shape, and a page that runs has a document.
THEOREM TypeCorrect == Spec => []TypeOK
<1>1. IInv => TypeOK
  BY DEF IInv, Shaped, CacheSound, Caches, HeldSound, PageSound, TypeOK
<1>2. QED
  BY <1>1, Inductive, PTL

\* However deployments, offline spells and pages overlap, handleAsset gives a
\* page of the deployment that is served no index.html in a bundle's place,
\* unless a deployment brought back what an earlier one had dropped.
THEOREM FreshPages == Spec => []FreshPagesAreSound
<1>1. IInv => FreshPagesAreSound
  <2> SUFFICES ASSUME IInv, NothingReturns, NEW w \in Windows,
                      page[w].release = deployed, NEW a \in Uses[deployed]
               PROVE  page[w].has[a] # "shell"
    BY DEF FreshPagesAreSound
  <2>1. a \in Assets /\ Spoilt(a, page[w].has[a], deployed)
    BY Numbers DEF IInv, Shaped, PageSound
  <2>2. QED
    BY <2>1 DEF Spoilt, Dropped
<1>2. QED
  BY <1>1, Inductive, PTL

\* A page that loaded whole through the worker has in the worker's cache every
\* bundle of its own that is still deployed, and index.html in the place of none
\* of them, whatever other pages stored meanwhile.
THEOREM OpensOffline == Spec => []OpenedOpensOffline
<1>1. IInv => OpenedOpensOffline
  <2> SUFFICES ASSUME IInv, NothingReturns, NEW w \in Windows,
                      Whole(w), page[w].born,
                      NEW a \in Uses[page[w].release]
               PROVE  LET content == cache[page[w].via].assets[a]
                      IN  IF a \in Uses[deployed] THEN content = "itself"
                          ELSE content \in {"itself", "shell"}
    BY DEF OpenedOpensOffline
  <2> DEFINE content == cache[page[w].via].assets[a]
  <2>1. /\ PageSound(page[w], cache, deployed) /\ page[w] \in Page
        /\ page[w].phase = "open" /\ page[w].has[a] = "itself"
        /\ page[w].release \in Deployments /\ page[w].via # 0
    BY Looked DEF Whole, PageSound
  <2>2. a \in Assets /\ page[w].coming = {}
    BY <2>1, Numbers DEF PageSound
  <2>3. /\ content \in Contents \ {"missing"} /\ content # "none"
        /\ Spoilt(a, content, deployed)
    BY <2>1, <2>2, Looked DEF PageSound, Arrived, Cache
  <2> HIDE DEF content
  <2>4. a \in Uses[deployed] => content # "shell"
    BY <2>3 DEF Spoilt, Dropped
  <2>5. QED
    BY <2>3, <2>4 DEF Contents, content
<1>2. QED
  BY <1>1, Inductive, PTL

\* No entry is deleted from the cache of a worker while it controls a page,
\* whatever else the browser has open and whatever is deployed.
THEOREM CachesStay == Spec => CachesOutlivePages
<1>1. IInv /\ [Next]_vars => [KeepsCaches]_vars
  <2> SUFFICES ASSUME IInv, Next, NEW w \in Windows, NEW a \in Assets,
                      Controlled(w), cache[page[w].via].assets[a] # "none"
               PROVE  cache'[page[w].via].assets[a] # "none"
    BY DEF KeepsCaches
  <2>1. page[w].via \in Generations /\ cache \in Caches
        /\ deployed \in Deployments /\ deployed <= deployed
        /\ CacheSound(cache, deployed)
    BY Looked, Numbers DEF Controlled, IInv, CacheSound
  <2>2. CASE cache' = cache
    BY <2>2
  <2>3. CASE \E g \in Generations, shell \in Deployments :
                 cache' = [cache EXCEPT ![g].shell = shell]
    <3>1. PICK g \in Generations, shell \in Deployments :
                cache' = [cache EXCEPT ![g].shell = shell]
      BY <2>3
    <3>2. cache'[page[w].via].assets = cache[page[w].via].assets
      BY <2>1, <3>1 DEF Caches, Cache
    <3>3. QED
      BY <3>2
  <2>4. ASSUME NEW v \in Windows, NEW b \in Assets, StoreAsset(v, b)
        PROVE  cache'[page[w].via].assets[a] # "none"
    <3>1. PageSound(page[v], cache, deployed) /\ page[v].via \in Generations
          /\ page[v].has[b] \in Arrived /\ Spoilt(b, page[v].has[b], deployed)
      BY <2>4, Looked DEF StoreAsset, PageSound
    <3> DEFINE via == page[v].via
               content == page[v].has[b]
               k == [cache EXCEPT ![via].assets[b] = content]
    <3>2. via \in Generations /\ content \in Arrived /\ Spoilt(b, content, deployed)
      BY <3>1
    <3>3. cache' = k
      BY <2>4 DEF StoreAsset, Stored
    <3> HIDE DEF content, via
    <3>4. \A g \in Generations, x \in Assets :
              cache[g].assets[x] # "none" => k[g].assets[x] # "none"
      BY <2>1, <3>2, AssetStored
    <3>5. QED
      BY <2>1, <3>3, <3>4
  <2>5. ~Activate
    BY DEF Activate, Released
  <2>6. CASE \E v \in Windows : StoreShell(v)
    BY <2>3, <2>6, Looked DEF StoreShell, PageSound
  <2>7. CASE Install
    BY <2>1, <2>2, <2>3, <2>7 DEF Install, IInv, Shaped
  <2>8. ASSUME NEW v \in Windows, Load(v), ~StoreShell(v),
               \A b \in Assets : ~StoreAsset(v, b)
        PROVE  cache' = cache
    BY <2>8
    DEF Load, Navigate, FetchDirectly, FetchShell, FallBack, StoreShellFails,
        StoreAssetFails, Match, FetchAsset, FetchForCache, Open, Close
  <2>9. CASE (\E v \in Windows : FindWorker(v)) \/ InstallFails \/ Deploy \/ Disconnect
             \/ \E b \in Assets : Evict(b)
    BY <2>2, <2>9 DEF FindWorker, InstallFails, Deploy, Disconnect, Evict
  <2>10. QED
    BY <2>2, <2>4, <2>5, <2>6, <2>7, <2>8, <2>9 DEF Next
<1>2. QED
  BY <1>1, Inductive, PTL DEF Spec, CachesOutlivePages

=============================================================================
