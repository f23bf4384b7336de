---------------------------- MODULE MCRouteView ----------------------------
(* Instances of RouteView for TLC.                                         *)
EXTENDS RouteView

CONSTANTS old, new

(* No pack yet, one, or two of which none was selected.                    *)
MCRosters == {{}, {old}, {old, new}}

(* Both begin with one name, so that a new one may bring the other first.  *)
MCNames == [p \in Packs |-> 1]
=============================================================================
