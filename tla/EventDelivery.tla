----------------------------- MODULE EventDelivery -----------------------------
(***************************************************************************)
(* What the rule engine promises the event module of an event it enqueues, *)
(* without threads, mutex or clock (ruleengine.h:63-88): the action is sent *)
(* at once and may be sent again up to MaxRetries times; then the module is *)
(* told, once, that the event was acknowledged, or, when every try is used *)
(* up, that it was aborted.  RuleEngineRefinement shows that RuleEngine    *)
(* implements it.                                                          *)
(***************************************************************************)
EXTENDS Naturals

CONSTANT MaxRetries

VARIABLES
  accepted,   \* number of events enqueued so far; they are 0 .. accepted - 1
  sends,      \* how often the action of each was sent
  outcome     \* what its event module was told

vars == <<accepted, sends, outcome>>

Accepted == 0 .. accepted - 1

Init ==
  /\ accepted = 0
  /\ sends = [e \in {} |-> 0]
  /\ outcome = [e \in {} |-> "pending"]

Accept ==
  /\ accepted' = accepted + 1
  /\ sends' = [e \in 0 .. accepted |-> IF e = accepted THEN 1 ELSE sends[e]]
  /\ outcome' = [e \in 0 .. accepted |->
                   IF e = accepted THEN "pending" ELSE outcome[e]]

Retry(e) ==
  /\ outcome[e] = "pending"
  /\ sends[e] <= MaxRetries
  /\ sends' = [sends EXCEPT ![e] = @ + 1]
  /\ UNCHANGED <<accepted, outcome>>

Acknowledge(e) ==
  /\ outcome[e] = "pending"
  /\ outcome' = [outcome EXCEPT ![e] = "acknowledged"]
  /\ UNCHANGED <<accepted, sends>>

Abort(e) ==
  /\ outcome[e] = "pending"
  /\ sends[e] = MaxRetries + 1
  /\ outcome' = [outcome EXCEPT ![e] = "aborted"]
  /\ UNCHANGED <<accepted, sends>>

Next ==
  \/ Accept
  \/ \E e \in Accepted : Retry(e) \/ Acknowledge(e) \/ Abort(e)

Spec == Init /\ [][Next]_vars
================================================================================
