------------------------ MODULE MCTaxonomyDiscovery ------------------------
(* TLC instances of TaxonomyDiscovery. *)
EXTENDS TaxonomyDiscovery
=============================================================================
