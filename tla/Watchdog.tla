------------------------------- MODULE Watchdog -------------------------------
(***************************************************************************)
(* The watchdog of the core (core/watchdog.cpp).  It forks one process per *)
(* module, and its thread looks at all of them every CHECK_INTERVAL: a     *)
(* module that ended, or that missed MAX_MISSED_HEARTBEATS heartbeats, is  *)
(* killed and forked again, until its mortality rate is critical and it is *)
(* buried.  The main thread hands it the modules' heartbeats; SIGINT stops *)
(* the core by killing every module.                                       *)
(*                                                                         *)
(* mod[m] is what there is to know of module m: its ModuleData, the state  *)
(* of the process ModuleData::pid names, and what became of its processes. *)
(* The handlers are written as the set of the states they can leave m in:  *)
(* fork may fail, and a killed process may outlive KILL_TIMEOUT.  Ages are *)
(* counted in ticks and stop where the code cannot tell them apart.        *)
(*                                                                         *)
(* An operator X_Y beside an operator X is X with a plausible mistake Y; no *)
(* action uses it.  It is there to see a property of the code fail.        *)
(***************************************************************************)
EXTENDS Naturals

CONSTANTS
  Modules,                   \* the modules found in the module directory
  MORTALITY_STEP, MORTALITY_DECREASE, CRITICAL_MORTALITY_RATE,
  MAX_MISSED_HEARTBEATS,
  STABILITY_CHECK_INTERVAL,  \* in ticks
  DEFAULT_INTERVAL,          \* DEFAULT_HEARTBEAT_INTERVAL in ticks
  Intervals,                 \* heartbeat intervals that modules set, in ticks
  Mute,                      \* modules that never send a heartbeat
  Forking,                   \* modules that fork processes of their own
  ForkFails,                 \* whether fork() may fail
  KillIsSlow,                \* whether a process may outlive KILL_TIMEOUT
  SigintComes,               \* whether SIGINT may arrive
  MaxBeats                   \* bound: heartbeats of a module in the core queue

ASSUME MortalityAssumption ==
  /\ MORTALITY_STEP \in Nat \ {0}
  /\ MORTALITY_DECREASE \in Nat
  /\ CRITICAL_MORTALITY_RATE \in Nat \ {0}
  /\ MAX_MISSED_HEARTBEATS \in Nat \ {0}

ASSUME TimeAssumption ==
  /\ STABILITY_CHECK_INTERVAL \in Nat \ {0}
  /\ Intervals \subseteq Nat
  /\ DEFAULT_INTERVAL \in Intervals
  /\ \E i \in Intervals : \A j \in Intervals : j <= i

ASSUME WorldAssumption ==
  /\ Mute \subseteq Modules
  /\ Forking \subseteq Modules
  /\ ForkFails \in BOOLEAN
  /\ KillIsSlow \in BOOLEAN
  /\ SigintComes \in BOOLEAN
  /\ MaxBeats \in Nat

VARIABLES
  mod,           \* per module: ModuleData and the process of its pid
  beats,         \* heartbeats of the module that wait in the core queue
  modules_mtx_,  \* "free", or "scan" while the watchdog thread holds it
  pc,            \* the watchdog thread; "start" while start() forks the modules
  todo,          \* modules that start() or the scan has still to visit
  sigint,        \* the SIGINT handler: "no", "killing", "exited"
  toKill         \* modules killAll has still to visit

vars == <<mod, beats, modules_mtx_, pc, todo, sigint, toKill>>

LongestInterval == CHOOSE i \in Intervals : \A j \in Intervals : j <= i

UpTo(n, limit) == IF n < limit THEN n ELSE limit

\* Deaths a module needs before its mortality can be critical.
EnoughDeaths ==
  (CRITICAL_MORTALITY_RATE + MORTALITY_STEP - 1) \div MORTALITY_STEP

\* pid = -1, a process that runs, one that SIGKILL has yet to end, one that ended
\* and was not waited for, one that waitpid has reaped.
ProcState == {"never", "up", "dying", "zombie", "reaped"}

Init ==
  /\ mod = [m \in Modules |->
              [running |-> FALSE, buried |-> FALSE, mortality_rate |-> 0,
               missed_heartbeats |-> 0, heartbeat_interval |-> DEFAULT_INTERVAL,
               hb_age |-> 0, stab_age |-> 0, proc |-> "never",
               children |-> FALSE, strays |-> FALSE, lost |-> FALSE,
               wild |-> FALSE, resurrecting |-> "no", checks |-> 0, deaths |-> 0]]
  /\ beats = [m \in Modules |-> 0]
  /\ modules_mtx_ = "free"
  /\ pc = "start"
  /\ todo = Modules
  /\ sigint = "no"
  /\ toKill = {}

-------------------------------------------------------------------------------
(* The handlers, on one module *)

Unfinished(s) == s.proc \in {"up", "dying"}    \* waitpid(pid, WNOHANG) = 0

Reaped(s) == IF s.proc = "zombie" THEN [s EXCEPT !.proc = "reaped"] ELSE s

\* killModule: the process group is killed when the process still leads it, and
\* it leads none once it was waited for: then kill() reaches nothing of it.
HasGroup(s) == s.proc \in {"up", "dying", "zombie"}

Signalled(s) ==
  IF HasGroup(s) THEN [s EXCEPT !.children = FALSE] ELSE [s EXCEPT !.wild = TRUE]

\* The process ends and is waited for in time, or KILL_TIMEOUT passes first.
Killed_Assumed(s) ==
  {[Signalled(s) EXCEPT !.running = FALSE,
                        !.proc = IF HasGroup(s) THEN "reaped" ELSE s.proc]}
  \cup {x \in {[Signalled(s) EXCEPT !.running = FALSE, !.proc = "dying"]} :
          KillIsSlow /\ Unfinished(s)}
Killed(s) ==
  {[Signalled(s) EXCEPT !.running = FALSE,
                        !.proc = IF HasGroup(s) THEN "reaped" ELSE s.proc]}
  \cup {x \in {[Signalled(s) EXCEPT !.proc = "dying"]} :
          KillIsSlow /\ Unfinished(s)}

\* spawnModule: what is left of the last process is out of the watchdog's sight.
Forked_StillMissed(s) ==
  [s EXCEPT !.running = TRUE, !.proc = "up", !.hb_age = 0, !.stab_age = 0,
            !.children = FALSE, !.strays = s.strays \/ s.children,
            !.lost = s.lost \/ HasGroup(s), !.checks = 0]
Forked(s) ==
  [s EXCEPT !.running = TRUE, !.proc = "up", !.missed_heartbeats = 0,
            !.hb_age = 0, !.stab_age = 0, !.children = FALSE,
            !.strays = s.strays \/ s.children,
            !.lost = s.lost \/ HasGroup(s), !.checks = 0]

Spawned(s) ==
  IF s.running \/ s.buried THEN {s}
  ELSE {Forked(s)} \cup (IF ForkFails THEN {s} ELSE {})

\* buryModule; the message queue is removed and a system message is raised.
Buried(s) ==
  {[x EXCEPT !.buried = TRUE] :
     x \in IF Unfinished(s) THEN Killed(s) ELSE {Reaped(s)}}

\* resurrectModule up to its mortality check: it waits for the kill, and the
\* SIGINT handler may come in between.
Doomed(s, why) == {[x EXCEPT !.resurrecting = why] : x \in Killed(s)}

\* The rest of it adds to the mortality also when no process was forked.
Resurrected_OneMore(s) ==
  IF s.mortality_rate <= CRITICAL_MORTALITY_RATE
    THEN {[x EXCEPT !.mortality_rate = @ + MORTALITY_STEP,
                    !.deaths = UpTo(@ + 1, EnoughDeaths)] : x \in Spawned(s)}
    ELSE Buried(s)
Resurrected(s) ==
  IF s.mortality_rate < CRITICAL_MORTALITY_RATE
    THEN {[x EXCEPT !.mortality_rate = @ + MORTALITY_STEP,
                    !.deaths = UpTo(@ + 1, EnoughDeaths)] : x \in Spawned(s)}
    ELSE Buried(s)

\* The stability check ends the iteration, whatever the module went through.
Stabilised_Reset(s) ==
  IF s.stab_age < STABILITY_CHECK_INTERVAL THEN s
  ELSE [s EXCEPT !.stab_age = 0, !.mortality_rate = 0]
Stabilised(s) ==
  IF s.stab_age < STABILITY_CHECK_INTERVAL THEN s
  ELSE [s EXCEPT !.stab_age = 0,
                 !.mortality_rate = IF @ >= MORTALITY_DECREASE
                                      THEN @ - MORTALITY_DECREASE ELSE 0]

Overdue(s) == s.hb_age > s.heartbeat_interval

Missed(s) == [s EXCEPT !.missed_heartbeats = @ + 1]

CheckedBeats_Bury(s) ==
  IF ~Overdue(s) THEN {s}
  ELSE IF Missed(s).missed_heartbeats >= MAX_MISSED_HEARTBEATS
         THEN Buried(Missed(s))
         ELSE {Missed(s)}
CheckedBeats(s) ==
  IF ~Overdue(s) THEN {s}
  ELSE IF Missed(s).missed_heartbeats >= MAX_MISSED_HEARTBEATS
         THEN Doomed(Missed(s), "silent")
         ELSE {Missed(s)}

CheckedAlive(s) ==
  {IF x.resurrecting = "no" THEN Stabilised(x) ELSE x :
     x \in CheckedBeats([s EXCEPT !.checks = UpTo(@ + 1, MAX_MISSED_HEARTBEATS)])}

\* One iteration of the loop of watchdogThread, or its first part when the module
\* is to be resurrected.
Checked_BuriedToo(s) ==
  IF ~s.running THEN {s}
  ELSE IF Unfinished(s) THEN CheckedAlive(s) ELSE Doomed(Reaped(s), "ended")
Checked_AliveOnly(s) ==
  IF s.buried \/ ~s.running \/ ~Unfinished(s) THEN {s} ELSE CheckedAlive(s)
Checked(s) ==
  IF s.buried \/ ~s.running THEN {s}
  ELSE IF Unfinished(s) THEN CheckedAlive(s) ELSE Doomed(Reaped(s), "ended")

\* The second part.
Revived(s) ==
  {IF s.resurrecting = "silent" THEN Stabilised(x) ELSE x :
     x \in Resurrected([s EXCEPT !.resurrecting = "no"])}

-------------------------------------------------------------------------------
(* start() and the watchdog thread *)

CoreRuns == sigint # "exited"
MainRuns == sigint = "no"      \* the handler interrupts the main thread

\* start() forks the modules in turn.
Start(m) ==
  /\ MainRuns
  /\ pc = "start"
  /\ m \in todo
  /\ \E s \in Spawned(mod[m]) : mod' = [mod EXCEPT ![m] = s]
  /\ todo' = todo \ {m}
  /\ UNCHANGED <<beats, modules_mtx_, pc, sigint, toKill>>

StartAsyncGuarding ==
  /\ MainRuns
  /\ pc = "start"
  /\ todo = {}
  /\ pc' = "sleep"
  /\ UNCHANGED <<mod, beats, modules_mtx_, todo, sigint, toKill>>

\* sleep_for is where a boost thread notices that it was interrupted.
ScanBegin ==
  /\ CoreRuns
  /\ pc = "sleep"
  /\ sigint = "no"
  /\ modules_mtx_ = "free"
  /\ modules_mtx_' = "scan"
  /\ pc' = "scan"
  /\ todo' = Modules
  /\ UNCHANGED <<mod, beats, sigint, toKill>>

Interrupted ==
  /\ CoreRuns
  /\ pc = "sleep"
  /\ sigint = "killing"
  /\ pc' = "ended"
  /\ UNCHANGED <<mod, beats, modules_mtx_, todo, sigint, toKill>>

\* The map is in the order of its names, which nothing depends on.
ScanModule(m) ==
  /\ CoreRuns
  /\ pc = "scan"
  /\ m \in todo
  /\ \A n \in Modules : mod[n].resurrecting = "no"
  /\ \E s \in Checked(mod[m]) : mod' = [mod EXCEPT ![m] = s]
  /\ todo' = todo \ {m}
  /\ UNCHANGED <<beats, modules_mtx_, pc, sigint, toKill>>

ReviveModule(m) ==
  /\ CoreRuns
  /\ mod[m].resurrecting # "no"
  /\ \E s \in Revived(mod[m]) : mod' = [mod EXCEPT ![m] = s]
  /\ UNCHANGED <<beats, modules_mtx_, pc, todo, sigint, toKill>>

Unlocked_Forgotten == "scan"
Unlocked == "free"

ScanEnd ==
  /\ CoreRuns
  /\ pc = "scan"
  /\ todo = {}
  /\ \A n \in Modules : mod[n].resurrecting = "no"
  /\ modules_mtx_' = Unlocked
  /\ pc' = "sleep"
  /\ UNCHANGED <<mod, beats, todo, sigint, toKill>>

-------------------------------------------------------------------------------
(* The main thread *)

\* heartbeat(): the message names the module, not the process that sent it.
Alive(s) == [s EXCEPT !.hb_age = 0, !.missed_heartbeats = 0, !.checks = 0]

Heartbeat(m) ==
  /\ MainRuns
  /\ pc # "start"
  /\ modules_mtx_ = "free"
  /\ beats[m] > 0
  /\ beats' = [beats EXCEPT ![m] = @ - 1]
  /\ mod' = [mod EXCEPT ![m] = Alive(@)]
  /\ UNCHANGED <<modules_mtx_, pc, todo, sigint, toKill>>

SetHeartbeatInterval(m, i) ==
  /\ MainRuns
  /\ pc # "start"
  /\ modules_mtx_ = "free"
  /\ mod[m].proc = "up"
  /\ mod[m].heartbeat_interval # i
  /\ mod' = [mod EXCEPT ![m].heartbeat_interval = i]
  /\ UNCHANGED <<beats, modules_mtx_, pc, todo, sigint, toKill>>

-------------------------------------------------------------------------------
(* staticSIGINTHandler: stopGuarding interrupts the watchdog thread and does *)
(* not wait for it; killAll takes no mutex                                  *)

Sigint ==
  /\ SigintComes
  /\ sigint = "no"
  /\ sigint' = "killing"
  /\ toKill' = Modules
  /\ UNCHANGED <<mod, beats, modules_mtx_, pc, todo>>

KillAll(m) ==
  /\ sigint = "killing"
  /\ m \in toKill
  /\ \E s \in Killed(mod[m]) : mod' = [mod EXCEPT ![m] = s]
  /\ toKill' = toKill \ {m}
  /\ UNCHANGED <<beats, modules_mtx_, pc, todo, sigint>>

\* kill(-getpgrp()): the modules have sessions of their own and are not reached.
Exit ==
  /\ sigint = "killing"
  /\ toKill = {}
  /\ sigint' = "exited"
  /\ UNCHANGED <<mod, beats, modules_mtx_, pc, todo, toKill>>

-------------------------------------------------------------------------------
(* The modules' processes and time *)

Tick ==
  /\ mod' = [m \in Modules |->
               [mod[m] EXCEPT
                  !.hb_age = UpTo(@ + 1, LongestInterval + 1),
                  !.stab_age = UpTo(@ + 1, STABILITY_CHECK_INTERVAL)]]
  /\ UNCHANGED <<beats, modules_mtx_, pc, todo, sigint, toKill>>

SendHeartbeat(m) ==
  /\ m \notin Mute
  /\ mod[m].proc = "up"
  /\ beats[m] < MaxBeats
  /\ beats' = [beats EXCEPT ![m] = @ + 1]
  /\ UNCHANGED <<mod, modules_mtx_, pc, todo, sigint, toKill>>

World(m, s) ==
  /\ mod' = [mod EXCEPT ![m] = s]
  /\ UNCHANGED <<beats, modules_mtx_, pc, todo, sigint, toKill>>

\* The module's process ends, by itself or at last by SIGKILL.
ProcessEnds(m) == Unfinished(mod[m]) /\ World(m, [mod[m] EXCEPT !.proc = "zombie"])

ForkChild(m) ==
  /\ m \in Forking
  /\ mod[m].proc = "up"
  /\ World(m, [mod[m] EXCEPT !.children = TRUE])

ChildrenEnd(m) ==
  /\ mod[m].children
  /\ World(m, [mod[m] EXCEPT !.children = FALSE])

-------------------------------------------------------------------------------
WatchdogThread ==
  ScanBegin \/ Interrupted \/ ScanEnd \/ \E m \in Modules : ScanModule(m) \/ ReviveModule(m)

Handler == Exit \/ \E m \in Modules : KillAll(m)

Next ==
  \/ StartAsyncGuarding
  \/ Sigint
  \/ WatchdogThread
  \/ Handler
  \/ Tick
  \/ \E m \in Modules :
       \/ Start(m)
       \/ Heartbeat(m)
       \/ SendHeartbeat(m)
       \/ ProcessEnds(m)
       \/ ForkChild(m)
       \/ ChildrenEnd(m)
       \/ \E i \in Intervals : SetHeartbeatInterval(m, i)

Spec == Init /\ [][Next]_vars

\* The core's threads are scheduled, time passes, and SIGKILL ends a process in
\* the end.  The main thread gets the mutex while the watchdog thread sleeps.
Fairness ==
  /\ WF_vars(StartAsyncGuarding) /\ WF_vars(WatchdogThread) /\ WF_vars(Handler)
  /\ WF_vars(Tick)
  /\ \A m \in Modules :
       /\ WF_vars(Start(m))
       /\ SF_vars(Heartbeat(m))
       /\ WF_vars(mod[m].proc = "dying" /\ ProcessEnds(m))

FairSpec == Spec /\ Fairness
-------------------------------------------------------------------------------
(* Properties *)

ModuleState ==
  [running : BOOLEAN, buried : BOOLEAN, mortality_rate : Nat,
   missed_heartbeats : Nat, heartbeat_interval : Intervals, hb_age : Nat,
   stab_age : Nat, proc : ProcState, children : BOOLEAN, strays : BOOLEAN,
   lost : BOOLEAN, wild : BOOLEAN, resurrecting : {"no", "ended", "silent"},
   checks : Nat, deaths : 0 .. EnoughDeaths]

\* Every variable has its type, and only a scan holds the mutex between steps.
TypeOK ==
  /\ mod \in [Modules -> ModuleState]
  /\ beats \in [Modules -> 0 .. MaxBeats]
  /\ modules_mtx_ = IF pc = "scan" THEN "scan" ELSE "free"
  /\ pc \in {"start", "sleep", "scan", "ended"}
  /\ todo \subseteq Modules
  /\ sigint \in {"no", "killing", "exited"}
  /\ toKill \subseteq Modules

\* The watchdog never forks a module whose last process still runs or was not
\* waited for: no module runs twice and none leaves a zombie behind, although a
\* kill may time out, fork may fail and SIGINT interferes.
NothingLost == \A m \in Modules : ~mod[m].lost

\* The mortality rate stays within one step of the critical rate.
MortalityBounded ==
  \A m \in Modules :
    mod[m].mortality_rate < CRITICAL_MORTALITY_RATE + MORTALITY_STEP

\* A module is buried only when it died often enough to be critical.
BuriedAfterDeaths ==
  \A m \in Modules : mod[m].buried => mod[m].deaths = EnoughDeaths

GivenUp(m) == mod[m].resurrecting = "no" /\ mod'[m].resurrecting # "no"

\* A running process is given up only when MAX_MISSED_HEARTBEATS checks in a row
\* found no new heartbeat, none of them made before this process was forked.
KillsOnlySilent ==
  [][\A m \in Modules :
       mod[m].proc = "up" /\ GivenUp(m) =>
         /\ Overdue(mod[m])
         /\ mod[m].checks + 1 >= MAX_MISSED_HEARTBEATS]_vars

\* A buried module stays buried: nobody forks it and its mortality stands still.
BuriedLeftAlone ==
  [][\A m \in Modules :
       mod[m].buried =>
         /\ mod'[m].buried
         /\ mod'[m].mortality_rate = mod[m].mortality_rate
         /\ mod'[m].proc = "up" => mod[m].proc = "up"]_vars

\* A module whose process ended is forked again or buried.
DeadIsHandled ==
  \A m \in Modules :
    (mod[m].running /\ mod[m].proc = "zombie") ~> (mod[m].proc = "up" \/ mod[m].buried)

\* A module that never sends a heartbeat is buried in the end, although it gets
\* some mortality back for every STABILITY_CHECK_INTERVAL it runs.
MuteIsBuried == \A m \in Mute : <>mod[m].buried

\* injection.cpp:77-78: a buried module's mortality rate is critical.
BuriedIsCritical ==
  \A m \in Modules :
    mod[m].buried => mod[m].mortality_rate >= CRITICAL_MORTALITY_RATE

\* watchdog.tests:28: a buried module is not running anymore.
BuriedIsDown == \A m \in Modules : mod[m].buried => ~Unfinished(mod[m])

\* watchdog.h:150-151: killing a module kills the processes it forked.
NoStrays == \A m \in Modules : ~mod[m].strays

\* watchdog.cpp:192: a module is killed only if it is still running; SIGKILL
\* never goes to a pid that is not the module's any more, or never was.
NoWildKill == \A m \in Modules : ~mod[m].wild

\* watchdog.tests:33-34: a killed module is forked again unless it is buried.
DownComesBack ==
  \A m \in Modules :
    (mod[m].proc = "reaped" /\ ~mod[m].buried) ~> (mod[m].proc = "up" \/ mod[m].buried)

\* watchdog.cpp:97: the handler stops the watchdog thread first, so that no
\* module is left when the core has killed them all and itself.
NoModuleLeft == sigint = "exited" => \A m \in Modules : mod[m].proc # "up"
===============================================================================
