---------------------------- MODULE FacetRouter -----------------------------
(***************************************************************************)
(* The facets a job can run under (core/facet_router.py).  Every org may   *)
(* use every facet, so what the router contributes is the set of facets    *)
(* and the number of jobs each may run at a time.                          *)
(***************************************************************************)
EXTENDS Naturals

CONSTANTS
    Facets,         \* the keys of FacetRouter._FACETS
    SFFacets,       \* of those, "seo.screaming_frog"
    DefaultFacet,   \* default_facet(), "seo.page_classifier"
    FacetMax        \* FacetConfig.max_concurrent of each facet

ASSUME FacetsAssumption == SFFacets \subseteq Facets /\ DefaultFacet \in Facets \ SFFacets
ASSUME FacetMaxAssumption == FacetMax \in [Facets -> Nat]
=============================================================================
