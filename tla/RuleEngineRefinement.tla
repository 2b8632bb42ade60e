-------------------------- MODULE RuleEngineRefinement --------------------------
(***************************************************************************)
(* The rule engine implements EventDelivery.  An event counts as told of   *)
(* its outcome when the reply is sent, not when its entry leaves the queue: *)
(* between acceptAck's erase and its sendEventAck it is still pending.      *)
(***************************************************************************)
EXTENDS RuleEngine

Told(h) == IF h.acks > 0 THEN "acknowledged"
           ELSE IF h.aborts > 0 THEN "aborted" ELSE "pending"

Delivery == INSTANCE EventDelivery WITH
  MaxRetries <- NUM_ACTION_RETRIES,
  accepted   <- event_id_,
  sends      <- [id \in Events |-> hist[id].sent],
  outcome    <- [id \in Events |-> Told(hist[id])]

\* Whatever its threads do, the engine keeps the promise of EventDelivery: one
\* outcome per enqueued event, no action after it, no abort before the last try.
ImplementsDelivery == Delivery!Spec
=================================================================================
