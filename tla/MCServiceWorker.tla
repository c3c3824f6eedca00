--------------------------- MODULE MCServiceWorker ---------------------------
(* An instance of ServiceWorker for TLC. *)
EXTENDS ServiceWorker, TLC

CONSTANTS tab, window, js1, js2

\* A bundle is added, then one is dropped together with a change of sw.js.
MCUses == <<{js1}, {js1, js2}, {js2}>>
MCGeneration == <<1, 1, 2>>

Symmetry == Permutations(Windows)
=============================================================================
