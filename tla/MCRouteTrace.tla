---------------------------- MODULE MCRouteTrace ----------------------------
(***************************************************************************)
(* Small instances of RouteTrace and RouteEnrichment: a private or a    *)
(* public router before the target.                                        *)
(***************************************************************************)
EXTENDS RouteEnrichment

CONSTANTS gateway, router, target, net

PathToTarget == <<{gateway, router}>>

Answers ==
  {[prefix |-> None, asns |-> <<>>], [prefix |-> net, asns |-> <<1, 2>>]}
=============================================================================
