------------------------- MODULE GatewayRefinement --------------------------
(***************************************************************************)
(* The gateway's transactions implement JobReservations: the journal's     *)
(* allocation row is the phase, the reservations that its rows name and    *)
(* the QPMs hold are what is kept, the response of an accepted allocation  *)
(* is what was given.                                                      *)
(***************************************************************************)
EXTENDS GatewayService

Phase ==
  CASE alloc.state = "accepted" -> "granted"
    [] alloc.state \in {"none", "delayed", "rejected", "rolled-back",
                        "released"} -> "free"
    [] OTHER -> "pending"

Kept == [s \in Services |-> IF Tracked(s) THEN rows[s].rid ELSE 0]

Given == IF alloc.state = "accepted" THEN alloc.response.ids ELSE NoIds

Promise ==
  INSTANCE JobReservations WITH
    Wanted   <- UNION {r.services : r \in Reserves},
    phase    <- Phase,
    kept     <- Kept,
    given    <- Given,
    restarts <- runtime,
    ending   <- ~ NoReleaseBegun

\* Whatever fails and whenever the gateway dies, the reservations of a plain job
\* are granted all or none, kept until its release begins, and never left behind
\* by an allocation that says it is free (reserve, _reserve_services, _rollback,
\* release, _release_one over the journal).
KeepsPromise == Promise!Spec
=============================================================================
