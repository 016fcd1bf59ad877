----------------------------- MODULE MCScanEngine -----------------------------
(***************************************************************************)
(* Instances of ScanEngine: a regional check over two regions and two      *)
(* global checks, on a pool smaller than the list of pairs. The two global *)
(* checks can name the same resource at the same price, so the report has  *)
(* ties that only the order of completion breaks.                          *)
(***************************************************************************)
EXTENDS ScanEngine

CONSTANTS w1, w2

MCRegions == <<2, 1>>
MCLocalChecks == <<"unassociated-eip">>
MCGlobalChecks == <<"unused-route53-zone", "unused-route53-health-check">>
MCWorkers == {w1, w2}
MCResources == [c \in Check |-> IF c = "unassociated-eip" THEN {1} ELSE {2}]
MCCost == [x \in Resource |-> 3 + x]
===============================================================================
