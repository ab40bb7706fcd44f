----------------------------- MODULE MCCollector -----------------------------
(***************************************************************************)
(* Three battles; one has three candidate links, one is linked twice.      *)
(***************************************************************************)
EXTENDS Collector

Link(b, n) == [battle |-> b, links |-> n]

TheUrls == <<Link("w1", 1), Link("w2", 3), Link("w1", 1), Link("w3", 1)>>
=============================================================================
