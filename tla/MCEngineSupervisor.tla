------------------------ MODULE MCEngineSupervisor -------------------------
(* Instances of EngineSupervisor.  Priorities: 0 PREFETCH, 1 VISIBLE,        *)
(* 2 INTERACTIVE.                                                           *)
EXTENDS EngineSupervisor, TLC

CONSTANTS ui, adapter

\* The application: the UI thread cancels and closes, the adapter the rest.
AppUses == ui :> {"close", "cancel"} @@ adapter :> {"open", "replace"}
OpenReplaceUses == adapter :> {"open", "replace"}

VisibleTile(n) == [page |-> n, priority |-> 1]
PrefetchTile(n) == [page |-> n, priority |-> 0]

RaceBatch == {<<>>, <<VisibleTile(1)>>}
\* Visible work for the blocked document is more urgent than prefetch.
LiveBatch == {<<VisibleTile(1)>>, <<PrefetchTile(1)>>}
CapacityBatch == {<<VisibleTile(1), VisibleTile(1)>>, <<VisibleTile(1), PrefetchTile(2)>>}
EvictBatch == {<<VisibleTile(1), VisibleTile(2)>>}
=============================================================================
