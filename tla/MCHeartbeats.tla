----------------------------- MODULE MCHeartbeats -----------------------------
(* An instance of Heartbeats for TLC. *)
EXTENDS Heartbeats

Module(kind, polling, on) == [kind |-> kind, polling_interval |-> polling, enabled_ |-> on]

\* Polling intervals below, at and above the heartbeat interval, and one that is not
\* a multiple of it; a video module with rules and one without.
MCSetups ==
  {Module("temperature", p, TRUE) : p \in {1, 10, 25, 60}}
    \cup {Module("video", 0, on) : on \in BOOLEAN}
    \cup {Module(k, 0, TRUE) : k \in {"streaming", "trigger", "mail", "firebase", "noise"}}

\* The longest work a watchdog that looks every 10 seconds puts up with, in half
\* seconds.
MCWork ==
  [temperature |-> {0, 1, 5, 2 * 52}, video |-> {0, 1, 8, 2 * 22}, mail |-> {0, 1, 2 * 50},
   firebase |-> {0, 1, 2 * 40}, streaming |-> {0}, trigger |-> {0}, noise |-> {0}]

\* TLC's instance is one that GivesUpOnlyNoise is proved for.
ASSUME MCWorkIsShort == ShortWork
===============================================================================
