-------------------------- MODULE MCGatewayService --------------------------
(***************************************************************************)
(* Small instances of GatewayService: the requests of one job with two     *)
(* QPM services.                                                           *)
(***************************************************************************)
EXTENDS GatewayRefinement

Reserve(rid, scope, work, services) ==
  [op |-> "reserve", sender |-> 0, rid |-> rid, scope |-> scope,
   owner |-> "owner", work |-> work, services |-> services]

Release(rid) ==
  [op |-> "release", sender |-> 0, rid |-> rid, scope |-> "allocation"]

MCServices == {1, 2}

\* No QPM restarts, the first one does once, or each does once.
NoneRestarts == [s \in Services |-> 1]
FirstRestarts == [s \in Services |-> IF s = 1 THEN 2 ELSE 1]
EachRestarts == [s \in Services |-> 2]

\* One plain job: the same content under the request ids of two epochs (a
\* requeued job), and the release of its teardown.
PlainReserves ==
  {Reserve(1, "allocation", "w", {1, 2}), Reserve(2, "allocation", "w", {1, 2})}
OneReserve == {Reserve(1, "allocation", "w", {1, 2})}

\* The release of its teardown.
OneRelease == {Release(9)}

\* A heterogeneous job: each component reserves under a scope of its own for
\* the canonical job; component 2 shares a service with component 1.
MCHeteroServices == {1, 2, 3}
HeteroReserves ==
  {Reserve(1, "component 0", "w", {1}),
   Reserve(1, "component 1", "w", {2, 3}),
   Reserve(1, "component 2", "w", {1, 2})}

\* Two components that share a service.
SharedReserves ==
  {Reserve(1, "component 0", "w", {1}), Reserve(1, "component 1", "w", {1, 2})}

\* Three of them.
ThreeShared == SharedReserves \cup {Reserve(1, "component 2", "w", {2})}
=============================================================================
