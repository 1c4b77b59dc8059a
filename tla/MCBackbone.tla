----------------------------- MODULE MCBackbone -----------------------------
(* Every backbone of at most four RSUs whose links are cheap or dear, with  *)
(* cycles of tied paths, parallel links, and two hops that may beat one.    *)
EXTENDS Backbone

MCRsuId == 0 .. 3
MCZoneDistance == [n \in MCRsuId |-> IF n = 0 THEN 3 ELSE IF n = 3 THEN 2 ELSE 1]
=============================================================================
