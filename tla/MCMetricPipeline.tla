-------------------------- MODULE MCMetricPipeline --------------------------
(* MetricPipeline on a small instance. *)
EXTENDS MetricPipeline, TLC

CONSTANTS pl, tr, w1, y1, polled, dep, lld, forwarded, remote

(* The polled item has a dependent one; its metrics may be dispatched to   *)
(* an item of another host, on which a discovery rule depends.  The        *)
(* trapper receives from a proxy.                                          *)
MCConsumerId == [q \in Queue |-> 0]
MCWorkerOf == [i \in Item |-> w1]
MCSyncerOf == [i \in Item |-> y1]
MCSends == (pl :> {polled}) @@ (tr :> {remote})
MCDependent == [i \in Item |-> IF i = polled THEN <<dep>> ELSE IF i = forwarded THEN <<lld>> ELSE << >>]

NoDispatch == [i \in Item |-> None]
ToTarget == [NoDispatch EXCEPT ![polled] = forwarded]

(* Memory for two chunks of one metric without dispatch, for a poller that *)
(* sends twice or both senders; ample memory with dispatch.                *)
MCSetups == {[total |-> 4, dispatch |-> NoDispatch, metrics |-> (pl :> 2) @@ (tr :> 0)],
             [total |-> 4, dispatch |-> NoDispatch, metrics |-> (pl :> 1) @@ (tr :> 1)],
             [total |-> 24, dispatch |-> ToTarget, metrics |-> (pl :> 2) @@ (tr :> 0)]}

(* What the theorem about ExactlyOnce asks of the configuration. *)
ASSUME MCDispatchEnds == DispatchEnds
=============================================================================
