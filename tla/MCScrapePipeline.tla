-------------------------- MODULE MCScrapePipeline ---------------------------
(***************************************************************************)
(* Instances of ScrapePipeline for TLC.                                    *)
(***************************************************************************)
EXTENDS ScrapePipeline, TLC

\* Containers are interchangeable, and so are calls of request_scrape_run.
Symmetry == Permutations(Workers) \cup Permutations(Requests)

\* The page lists every document whenever it is read.
SteadyListings == {Docs}
=============================================================================
