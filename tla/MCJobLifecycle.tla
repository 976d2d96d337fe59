--------------------------- MODULE MCJobLifecycle ---------------------------
(* Small instances of JobLifecycle for TLC. *)
EXTENDS JobLifecycle, TLC

CONSTANTS r1, r2

\* Screaming Frog jobs are capped at one, crawls at the global limit.
MCFacetMax == [f \in Facets |-> IF f \in SFFacets THEN 1 ELSE MaxConcurrent]

\* The requests in flight are interchangeable.
RequestSymmetry == Permutations(Requests)
=============================================================================
