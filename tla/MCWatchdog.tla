------------------------------ MODULE MCWatchdog ------------------------------
(* Instances of Watchdog for TLC.  The modules meet only in the mutex and in the
   order of a scan: one module is enough to see what the watchdog does to it. *)
EXTENDS Watchdog

CONSTANT m1

One  == {m1}
None == {}
===============================================================================
