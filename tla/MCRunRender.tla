----------------------------- MODULE MCRunRender -----------------------------
(***************************************************************************)
(* Small instances of RunRender, over the site and journeys of MCCrawlRun. *)
(***************************************************************************)
EXTENDS RunRender, MCCrawlRun, TLC

Symmetry == Permutations(Renderers)
=============================================================================
