----------------------------- MODULE MCFloodLimit -----------------------------
(* An instance of FloodLimit for TLC. *)
EXTENDS FloodLimit

\* A module with one thread that does everything, and the trigger module with the
\* threads of two rules.
MCPrograms ==
  {[main |-> {"heartbeat", "event"}],
   [main |-> {"heartbeat"}, rule1 |-> {"event"}, rule2 |-> {"event"}]}
===============================================================================
