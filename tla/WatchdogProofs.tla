---------------------------- MODULE WatchdogProofs ----------------------------
(***************************************************************************)
(* Proofs about the watchdog, for any set of modules and any values of its *)
(* parameters.  Everything rests on IInv, which says of each module, by    *)
(* Good, that it can only be forked when nothing of its last process is    *)
(* left, and that its counters tell what happened to it.  The handlers are *)
(* taken one at a time: each leaves a good module good.                    *)
(***************************************************************************)
EXTENDS Watchdog, TLAPS

\* What deaths can have cost at most; kept folded where arithmetic would get in
\* the way.
Cost(deaths) == deaths * MORTALITY_STEP

Good(s) ==
  /\ s \in ModuleState
  /\ ~s.lost
  /\ ~s.running => s.proc \in {"never", "reaped"}
  /\ s.mortality_rate < CRITICAL_MORTALITY_RATE + MORTALITY_STEP
  /\ s.deaths = EnoughDeaths \/ s.mortality_rate <= Cost(s.deaths)
  /\ s.buried => s.deaths = EnoughDeaths /\ s.resurrecting = "no"
  /\ s.checks = MAX_MISSED_HEARTBEATS \/ s.missed_heartbeats <= s.checks

IInv == TypeOK /\ \A m \in Modules : Good(mod[m])

\* s is x but for fields the properties do not look at.
SameLife(s, x) ==
  /\ x.buried = s.buried
  /\ x.mortality_rate = s.mortality_rate
  /\ x.proc = "up" => s.proc = "up"

-------------------------------------------------------------------------------
(* Arithmetic *)

LEMMA Constants ==
  /\ MORTALITY_STEP \in Nat \ {0} /\ MORTALITY_DECREASE \in Nat
  /\ CRITICAL_MORTALITY_RATE \in Nat \ {0} /\ MAX_MISSED_HEARTBEATS \in Nat \ {0}
  /\ STABILITY_CHECK_INTERVAL \in Nat \ {0}
  /\ Intervals \subseteq Nat /\ DEFAULT_INTERVAL \in Intervals
  /\ LongestInterval \in Nat /\ MaxBeats \in Nat
  BY MortalityAssumption, TimeAssumption, WorldAssumption DEF LongestInterval

LEMMA UpToNat ==
  ASSUME NEW n \in Nat, NEW limit \in Nat
  PROVE  /\ UpTo(n, limit) \in 0 .. limit
         /\ UpTo(n, limit) = limit \/ UpTo(n, limit) = n
  BY DEF UpTo

LEMMA Enough ==
  /\ EnoughDeaths \in Nat
  /\ EnoughDeaths * MORTALITY_STEP < CRITICAL_MORTALITY_RATE + MORTALITY_STEP
<1> DEFINE S == MORTALITY_STEP
           N == CRITICAL_MORTALITY_RATE + MORTALITY_STEP - 1
<1>1. S \in Nat /\ S > 0 /\ N \in Nat
  BY Constants
<1>2. N \div S \in Nat /\ (N \div S) * S <= N
  <2> HIDE DEF S, N
  <2> QED BY <1>1, SMT
<1> QED BY <1>2, Constants DEF EnoughDeaths

LEMMA CostGrows ==
  ASSUME NEW n \in Nat
  PROVE  /\ Cost(n) \in Nat
         /\ Cost(0) = 0
         /\ Cost(n + 1) = Cost(n) + MORTALITY_STEP
  BY Constants DEF Cost

\* A rate that is critical takes as many deaths as EnoughDeaths says.
LEMMA CriticalIsEnough ==
  ASSUME NEW n \in 0 .. EnoughDeaths, Cost(n) >= CRITICAL_MORTALITY_RATE
  PROVE  n = EnoughDeaths
<1> DEFINE S == MORTALITY_STEP
           E == EnoughDeaths
<1>1. S \in Nat /\ E \in Nat /\ CRITICAL_MORTALITY_RATE \in Nat /\ n \in Nat /\ n <= E
  BY Constants, Enough
<1>2. E * S < CRITICAL_MORTALITY_RATE + S
  BY Enough
<1>3. n * S >= CRITICAL_MORTALITY_RATE
  BY DEF Cost
<1>4. SUFFICES ASSUME n < E PROVE FALSE
  BY <1>1
<1> DEFINE d == E - n - 1
<1>5. d \in Nat /\ E = n + 1 + d
  BY <1>1, <1>4
<1>6. E * S = n * S + S + d * S
  <2> HIDE DEF S, E, d
  <2> QED BY <1>1, <1>5, SMT
<1>7. d * S >= 0 /\ d * S \in Nat /\ n * S \in Nat /\ E * S \in Nat
  <2> HIDE DEF S, E, d
  <2> QED BY <1>1, <1>5, SMT
<1> HIDE DEF S, E, d
<1> QED BY <1>1, <1>2, <1>3, <1>6, <1>7

-------------------------------------------------------------------------------
(* The handlers *)

LEMMA ReapedGood ==
  ASSUME NEW s, Good(s)
  PROVE  /\ Good(Reaped(s)) /\ SameLife(s, Reaped(s))
         /\ Reaped(s).deaths = s.deaths /\ Reaped(s).resurrecting = s.resurrecting
  BY DEF Good, Reaped, SameLife, ModuleState, ProcState

\* Killing settles nothing that the mortality or the burial depends on.
LEMMA KilledGood ==
  ASSUME NEW s, Good(s), NEW x \in Killed(s)
  PROVE  /\ Good(x) /\ SameLife(s, x)
         /\ x.deaths = s.deaths /\ x.resurrecting = s.resurrecting
<1>1. CASE x = [Signalled(s) EXCEPT !.running = FALSE,
                                    !.proc = IF HasGroup(s) THEN "reaped" ELSE s.proc]
  BY <1>1 DEF Good, SameLife, Signalled, HasGroup, ModuleState, ProcState
<1>2. CASE x = [Signalled(s) EXCEPT !.proc = "dying"] /\ Unfinished(s)
  BY <1>2 DEF Good, SameLife, Signalled, HasGroup, Unfinished, ModuleState, ProcState
<1> QED BY <1>1, <1>2 DEF Killed

\* A module that is not running has no process left to lose.
LEMMA SpawnedGood ==
  ASSUME NEW s, Good(s), NEW x \in Spawned(s)
  PROVE  /\ Good(x)
         /\ s.buried => x = s
         /\ x.buried = s.buried /\ x.mortality_rate = s.mortality_rate
         /\ x.deaths = s.deaths /\ x.resurrecting = s.resurrecting
<1>1. CASE x = s
  BY <1>1
<1>2. CASE x = Forked(s) /\ ~s.running /\ ~s.buried
  <2> DEFINE strays == s.strays \/ s.children
             lost == s.lost \/ HasGroup(s)
  <2>1. strays \in BOOLEAN /\ lost = FALSE
    BY <1>2 DEF Good, HasGroup, ModuleState
  <2>2. x = [s EXCEPT !.running = TRUE, !.proc = "up", !.missed_heartbeats = 0,
                      !.hb_age = 0, !.stab_age = 0, !.children = FALSE,
                      !.strays = strays, !.lost = lost, !.checks = 0]
    BY <1>2 DEF Forked
  <2> HIDE DEF strays, lost
  <2>3. s \in ModuleState
    BY DEF Good
  <2>4. x \in ModuleState
    BY <2>1, <2>2, <2>3 DEF ModuleState, ProcState
  <2>5. /\ ~x.lost /\ x.running /\ x.checks = 0 /\ x.missed_heartbeats = 0
        /\ x.buried = s.buried /\ x.mortality_rate = s.mortality_rate
        /\ x.deaths = s.deaths /\ x.resurrecting = s.resurrecting
    BY <2>1, <2>2, <2>3 DEF ModuleState
  <2> QED BY <1>2, <2>4, <2>5 DEF Good
<1> QED BY <1>1, <1>2 DEF Spawned

LEMMA BuriedGood ==
  ASSUME NEW s, Good(s), s.resurrecting = "no", s.deaths = EnoughDeaths,
         NEW x \in Buried(s)
  PROVE  Good(x) /\ x.resurrecting = "no"
<1>1. PICK y \in IF Unfinished(s) THEN Killed(s) ELSE {Reaped(s)} :
        x = [y EXCEPT !.buried = TRUE]
  BY DEF Buried
<1>2. Good(y) /\ y.deaths = EnoughDeaths /\ y.resurrecting = "no"
  BY <1>1, KilledGood, ReapedGood
<1> QED BY <1>1, <1>2 DEF Good, ModuleState

\* A module is dead once more, or it had died often enough.
LEMMA ResurrectedGood ==
  ASSUME NEW s, Good(s), s.resurrecting = "no", NEW x \in Resurrected(s)
  PROVE  Good(x) /\ x.resurrecting = "no"
<1>0. s.deaths \in 0 .. EnoughDeaths /\ s.mortality_rate \in Nat /\ EnoughDeaths \in Nat
  BY Enough DEF Good, ModuleState
<1>1. CASE s.mortality_rate < CRITICAL_MORTALITY_RATE
  <2>1. PICK y \in Spawned(s) :
          x = [y EXCEPT !.mortality_rate = @ + MORTALITY_STEP,
                        !.deaths = UpTo(@ + 1, EnoughDeaths)]
    BY <1>1 DEF Resurrected
  <2>2. Good(y) /\ y.mortality_rate = s.mortality_rate /\ y.deaths = s.deaths
        /\ y.resurrecting = "no"
    BY SpawnedGood
  <2> DEFINE d == UpTo(s.deaths + 1, EnoughDeaths)
  <2>3. d \in 0 .. EnoughDeaths /\ (d = EnoughDeaths \/ d = s.deaths + 1)
    <3>1. s.deaths + 1 \in Nat
      BY <1>0
    <3> QED BY <1>0, <3>1, UpToNat
  <2>4. x = [y EXCEPT !.mortality_rate = s.mortality_rate + MORTALITY_STEP, !.deaths = d]
    BY <2>1, <2>2 DEF Good, ModuleState
  <2> HIDE DEF d
  <2>5. x.deaths = d /\ x.mortality_rate = s.mortality_rate + MORTALITY_STEP
        /\ x.resurrecting = "no" /\ x.buried = y.buried
    BY <2>2, <2>4 DEF Good, ModuleState
  <2>6. x \in ModuleState
    <3>1. s.mortality_rate + MORTALITY_STEP \in Nat
      BY <1>0, Constants
    <3>2. y \in ModuleState
      BY <2>2 DEF Good
    <3> QED BY <2>3, <2>4, <3>1, <3>2 DEF ModuleState
  <2>7. d = EnoughDeaths \/ s.mortality_rate + MORTALITY_STEP <= Cost(d)
    <3>1. CASE s.deaths = EnoughDeaths
      BY <3>1, <2>3, <1>0
    <3>2. CASE s.deaths # EnoughDeaths /\ d = s.deaths + 1
      <4>1. s.mortality_rate <= Cost(s.deaths)
        BY <3>2 DEF Good
      <4>2. Cost(d) = Cost(s.deaths) + MORTALITY_STEP /\ Cost(s.deaths) \in Nat
        BY <3>2, <1>0, CostGrows
      <4> QED BY <4>1, <4>2, <1>0, Constants
    <3> QED BY <3>1, <3>2, <2>3
  <2>8. s.mortality_rate + MORTALITY_STEP < CRITICAL_MORTALITY_RATE + MORTALITY_STEP
    BY <1>0, <1>1, Constants
  <2>9. y.buried => d = EnoughDeaths
    BY <2>2, <2>3, <1>0 DEF Good
  <2>10. /\ ~x.lost /\ x.running = y.running /\ x.proc = y.proc
         /\ x.checks = y.checks /\ x.missed_heartbeats = y.missed_heartbeats
    BY <2>2, <2>4 DEF Good, ModuleState
  <2> QED BY <2>2, <2>5, <2>6, <2>7, <2>8, <2>9, <2>10 DEF Good
<1>2. CASE ~(s.mortality_rate < CRITICAL_MORTALITY_RATE)
  <2>1. s.deaths = EnoughDeaths
    <3> SUFFICES ASSUME s.deaths # EnoughDeaths PROVE FALSE
      OBVIOUS
    <3>1. s.mortality_rate <= Cost(s.deaths) /\ Cost(s.deaths) \in Nat
      BY <1>0, CostGrows DEF Good
    <3>2. Cost(s.deaths) >= CRITICAL_MORTALITY_RATE
      BY <1>0, <1>2, <3>1, Constants
    <3> QED BY <1>0, <3>2, CriticalIsEnough
  <2> QED BY <1>2, <2>1, BuriedGood DEF Resurrected
<1> QED BY <1>1, <1>2

\* The mortality only goes down.
LEMMA StabilisedGood ==
  ASSUME NEW s, Good(s)
  PROVE  Good(Stabilised(s)) /\ Stabilised(s).resurrecting = s.resurrecting
<1>1. s \in ModuleState /\ s.mortality_rate \in Nat /\ s.deaths \in Nat
  BY Enough DEF Good, ModuleState
<1>2. CASE s.stab_age < STABILITY_CHECK_INTERVAL
  BY <1>2 DEF Stabilised
<1>3. CASE ~(s.stab_age < STABILITY_CHECK_INTERVAL)
  <2> DEFINE r == IF s.mortality_rate >= MORTALITY_DECREASE
                    THEN s.mortality_rate - MORTALITY_DECREASE ELSE 0
  <2>1. r \in Nat /\ r <= s.mortality_rate
    BY <1>1, Constants
  <2>2. Stabilised(s) = [s EXCEPT !.stab_age = 0, !.mortality_rate = r]
    BY <1>1, <1>3 DEF Stabilised, ModuleState
  <2> HIDE DEF r
  <2>3. [s EXCEPT !.stab_age = 0, !.mortality_rate = r] \in ModuleState
    BY <1>1, <2>1 DEF ModuleState
  <2>4. r < CRITICAL_MORTALITY_RATE + MORTALITY_STEP
    BY <1>1, <2>1, Constants DEF Good
  <2>5. s.deaths = EnoughDeaths \/ r <= Cost(s.deaths)
    BY <1>1, <2>1, CostGrows DEF Good
  <2> QED BY <1>1, <2>2, <2>3, <2>4, <2>5 DEF Good, ModuleState
<1> QED BY <1>2, <1>3

LEMMA DoomedGood ==
  ASSUME NEW s, Good(s), ~s.buried, NEW why \in {"ended", "silent"},
         NEW x \in Doomed(s, why)
  PROVE  Good(x) /\ x.resurrecting = why
<1>1. PICK y \in Killed(s) : x = [y EXCEPT !.resurrecting = why]
  BY DEF Doomed
<1>2. Good(y) /\ ~y.buried
  BY <1>1, KilledGood DEF SameLife
<1> QED BY <1>1, <1>2 DEF Good, ModuleState

\* The module missed a heartbeat no more often than it was looked at: when it is
\* given up, it was looked at often enough.
LEMMA CheckedAliveGood ==
  ASSUME NEW s, Good(s), ~s.buried, s.resurrecting = "no", NEW x \in CheckedAlive(s)
  PROVE  /\ Good(x)
         /\ x.resurrecting # "no" =>
              Overdue(s) /\ s.checks + 1 >= MAX_MISSED_HEARTBEATS
<1> DEFINE n == UpTo(s.checks + 1, MAX_MISSED_HEARTBEATS)
           c == [s EXCEPT !.checks = n]
<1>1. /\ s \in ModuleState /\ s.checks \in Nat /\ s.missed_heartbeats \in Nat
      /\ MAX_MISSED_HEARTBEATS \in Nat
  BY Constants DEF Good, ModuleState
<1>2. n = MAX_MISSED_HEARTBEATS \/ s.missed_heartbeats + 1 <= n
  BY <1>1 DEF Good, UpTo
<1>3. n \in Nat
  BY <1>1 DEF UpTo
<1>4. c \in ModuleState /\ c.checks = n /\ c.missed_heartbeats = s.missed_heartbeats
  <2> HIDE DEF n
  <2> QED BY <1>1, <1>3 DEF ModuleState
<1>5. c = [s EXCEPT !.checks = UpTo(@ + 1, MAX_MISSED_HEARTBEATS)]
  BY <1>1 DEF ModuleState
<1>6. Overdue(c) <=> Overdue(s)
  BY <1>1 DEF Overdue, ModuleState
<1>7. PICK y \in CheckedBeats(c) : x = IF y.resurrecting = "no" THEN Stabilised(y) ELSE y
  BY <1>5 DEF CheckedAlive
<1> HIDE DEF n
<1>8. Good(c) /\ ~c.buried /\ c.resurrecting = "no"
  BY <1>1, <1>2, <1>3, <1>4 DEF Good, ModuleState
<1>9. c \in ModuleState /\ c.missed_heartbeats \in Nat /\ c.checks \in Nat
  BY <1>4, <1>3, <1>1
<1>10. c.checks = MAX_MISSED_HEARTBEATS \/ c.missed_heartbeats + 1 <= c.checks
  BY <1>2, <1>4
<1> HIDE DEF c
<1>11. /\ Good(Missed(c)) /\ ~Missed(c).buried /\ Missed(c).resurrecting = "no"
       /\ Missed(c).missed_heartbeats = c.missed_heartbeats + 1
  BY <1>8, <1>9, <1>10 DEF Missed, Good, ModuleState
<1>12. Good(y)
  BY <1>7, <1>8, <1>11, DoomedGood DEF CheckedBeats
<1>13. Good(x)
  BY <1>7, <1>12, StabilisedGood
<1>14. ASSUME x.resurrecting # "no"
       PROVE  Overdue(s) /\ s.checks + 1 >= MAX_MISSED_HEARTBEATS
  <2>1. y.resurrecting # "no"
    BY <1>7, <1>12, <1>14, StabilisedGood
  <2>2. Overdue(c) /\ Missed(c).missed_heartbeats >= MAX_MISSED_HEARTBEATS
    BY <1>7, <1>8, <1>11, <2>1 DEF CheckedBeats
  <2>3. s.missed_heartbeats + 1 >= MAX_MISSED_HEARTBEATS
    BY <1>4, <1>11, <2>2
  <2> QED BY <1>1, <1>6, <2>2, <2>3 DEF Good
<1> QED BY <1>13, <1>14

LEMMA CheckedGood ==
  ASSUME NEW s, Good(s), s.resurrecting = "no", NEW x \in Checked(s)
  PROVE  /\ Good(x)
         /\ s.buried => x = s
         /\ s.proc = "up" /\ x.resurrecting # "no" =>
              Overdue(s) /\ s.checks + 1 >= MAX_MISSED_HEARTBEATS
<1>1. CASE s.buried \/ ~s.running
  BY <1>1 DEF Checked
<1>2. CASE ~s.buried /\ s.running /\ Unfinished(s)
  BY <1>2, CheckedAliveGood DEF Checked
<1>3. CASE ~s.buried /\ s.running /\ ~Unfinished(s)
  <2>1. Good(Reaped(s)) /\ ~Reaped(s).buried
    BY <1>3, ReapedGood DEF SameLife
  <2>2. x \in Doomed(Reaped(s), "ended")
    BY <1>3 DEF Checked
  <2>3. Good(x)
    BY <2>1, <2>2, DoomedGood
  <2> QED BY <1>3, <2>3 DEF Unfinished
<1> QED BY <1>1, <1>2, <1>3

LEMMA RevivedGood ==
  ASSUME NEW s, Good(s), s.resurrecting # "no", NEW x \in Revived(s)
  PROVE  Good(x) /\ ~s.buried /\ x.resurrecting = "no"
<1> DEFINE r == [s EXCEPT !.resurrecting = "no"]
<1>1. Good(r) /\ r.resurrecting = "no" /\ ~s.buried
  BY DEF Good, ModuleState
<1>2. PICK y \in Resurrected(r) :
        x = IF s.resurrecting = "silent" THEN Stabilised(y) ELSE y
  BY DEF Revived
<1> HIDE DEF r
<1>3. Good(y) /\ y.resurrecting = "no"
  BY <1>1, <1>2, ResurrectedGood
<1> QED BY <1>1, <1>2, <1>3, StabilisedGood

-------------------------------------------------------------------------------
(* The steps *)

\* What a step may make of a module that was s: a good module x, the same if it is
\* buried, and given up only for its silence while it runs.
Fate(s, x) ==
  /\ Good(x)
  /\ s.buried => x.buried /\ SameLife(s, x)
  /\ s.proc = "up" /\ s.resurrecting = "no" /\ x.resurrecting # "no" =>
       Overdue(s) /\ s.checks + 1 >= MAX_MISSED_HEARTBEATS

Fates == mod' \in [Modules -> ModuleState] /\ \A m \in Modules : Fate(mod[m], mod'[m])

LEMMA SameFate ==
  ASSUME NEW s, Good(s)
  PROVE  Fate(s, s)
  BY DEF Fate, SameLife

LEMMA OneModule ==
  ASSUME IInv, NEW m \in Modules, NEW x, Fate(mod[m], x), mod' = [mod EXCEPT ![m] = x]
  PROVE  Fates
<1>1. mod \in [Modules -> ModuleState] /\ \A n \in Modules : Fate(mod[n], mod[n])
  BY SameFate DEF IInv, TypeOK
<1>2. x \in ModuleState
  BY DEF Fate, Good
<1>3. \A n \in Modules : mod'[n] = IF n = m THEN x ELSE mod[n]
  BY <1>1
<1> QED BY <1>1, <1>2, <1>3 DEF Fates

LEMMA NoModule ==
  ASSUME IInv, UNCHANGED mod
  PROVE  Fates
  BY SameFate DEF IInv, TypeOK, Fates

LEMMA InitGood == Init => IInv
<1> SUFFICES ASSUME Init PROVE IInv
  OBVIOUS
<1>1. 0 \in Nat /\ 0 \in 0 .. EnoughDeaths /\ 0 \in 0 .. MaxBeats /\ Cost(0) = 0
  BY Constants, Enough, CostGrows
<1>2. ASSUME NEW m \in Modules PROVE Good(mod[m])
  BY <1>1, Constants DEF Init, Good, ModuleState, ProcState
<1>3. mod \in [Modules -> ModuleState]
  BY <1>1, Constants DEF Init, ModuleState, ProcState
<1>4. TypeOK
  BY <1>1, <1>3 DEF Init, TypeOK
<1> QED BY <1>2, <1>4 DEF IInv

\* The steps of the watchdog and the handler, one handler of a module each.
LEMMA StartFates == ASSUME IInv, NEW m \in Modules, Start(m) PROVE Fates
<1>1. PICK x \in Spawned(mod[m]) : mod' = [mod EXCEPT ![m] = x]
  BY DEF Start
<1>2. Good(mod[m])
  BY DEF IInv
<1>3. Fate(mod[m], x)
  BY <1>1, <1>2, SpawnedGood DEF Fate, SameLife
<1> QED BY <1>1, <1>3, OneModule

LEMMA ScanFates == ASSUME IInv, NEW m \in Modules, ScanModule(m) PROVE Fates
<1>1. PICK x \in Checked(mod[m]) : mod' = [mod EXCEPT ![m] = x]
  BY DEF ScanModule
<1>2. Good(mod[m]) /\ mod[m].resurrecting = "no"
  BY DEF IInv, ScanModule
<1>3. Fate(mod[m], x)
  BY <1>1, <1>2, CheckedGood DEF Fate, SameLife
<1> QED BY <1>1, <1>3, OneModule

LEMMA ReviveFates == ASSUME IInv, NEW m \in Modules, ReviveModule(m) PROVE Fates
<1>1. PICK x \in Revived(mod[m]) : mod' = [mod EXCEPT ![m] = x]
  BY DEF ReviveModule
<1>2. Good(mod[m]) /\ mod[m].resurrecting # "no"
  BY DEF IInv, ReviveModule
<1>3. Fate(mod[m], x)
  BY <1>1, <1>2, RevivedGood DEF Fate
<1> QED BY <1>1, <1>3, OneModule

LEMMA KillFates == ASSUME IInv, NEW m \in Modules, KillAll(m) PROVE Fates
<1>1. PICK x \in Killed(mod[m]) : mod' = [mod EXCEPT ![m] = x]
  BY DEF KillAll
<1>2. Good(mod[m])
  BY DEF IInv
<1>3. Fate(mod[m], x)
  BY <1>1, <1>2, KilledGood DEF Fate, SameLife
<1> QED BY <1>1, <1>3, OneModule

\* Heartbeats, intervals, time and what processes do by themselves.
LEMMA HeartbeatFates == ASSUME IInv, NEW m \in Modules, Heartbeat(m) PROVE Fates
<1>1. Good(mod[m]) /\ mod \in [Modules -> ModuleState]
  BY DEF IInv, TypeOK
<1>2. mod' = [mod EXCEPT ![m] = Alive(mod[m])]
  BY <1>1 DEF Heartbeat
<1>3. Fate(mod[m], Alive(mod[m]))
  <2> DEFINE s == mod[m]
             x == Alive(s)
  <2>1. s \in ModuleState /\ x = [s EXCEPT !.hb_age = 0, !.missed_heartbeats = 0, !.checks = 0]
    BY <1>1 DEF Alive, Good
  <2> HIDE DEF s, x
  <2>2. x \in ModuleState /\ x.checks = 0 /\ x.missed_heartbeats = 0
    BY <2>1 DEF ModuleState
  <2>3. /\ x.lost = s.lost /\ x.running = s.running /\ x.proc = s.proc
        /\ x.mortality_rate = s.mortality_rate /\ x.deaths = s.deaths
        /\ x.buried = s.buried /\ x.resurrecting = s.resurrecting
    BY <2>1 DEF ModuleState
  <2>4. Good(s)
    BY <1>1 DEF s
  <2>5. Good(x)
    BY <2>2, <2>3, <2>4 DEF Good
  <2>6. Fate(s, x)
    BY <2>3, <2>5 DEF Fate, SameLife
  <2> QED BY <2>6 DEF s, x
<1> QED BY <1>2, <1>3, OneModule

LEMMA IntervalFates ==
  ASSUME IInv, NEW m \in Modules, NEW i \in Intervals, SetHeartbeatInterval(m, i)
  PROVE  Fates
<1>1. Good(mod[m]) /\ mod \in [Modules -> ModuleState]
  BY DEF IInv, TypeOK
<1> DEFINE x == [mod[m] EXCEPT !.heartbeat_interval = i]
<1>2. mod' = [mod EXCEPT ![m] = x]
  BY <1>1 DEF SetHeartbeatInterval
<1>3. Fate(mod[m], x)
  BY <1>1 DEF Fate, Good, SameLife, ModuleState
<1> HIDE DEF x
<1> QED BY <1>2, <1>3, OneModule

LEMMA EndsFates == ASSUME IInv, NEW m \in Modules, ProcessEnds(m) PROVE Fates
<1>1. Good(mod[m]) /\ Unfinished(mod[m])
  BY DEF IInv, ProcessEnds
<1> DEFINE x == [mod[m] EXCEPT !.proc = "zombie"]
<1>2. mod' = [mod EXCEPT ![m] = x]
  BY DEF ProcessEnds, World
<1>3. Fate(mod[m], x)
  BY <1>1 DEF Fate, Good, SameLife, Unfinished, ModuleState, ProcState
<1> HIDE DEF x
<1> QED BY <1>2, <1>3, OneModule

LEMMA ChildrenFates ==
  ASSUME IInv, NEW m \in Modules, ForkChild(m) \/ ChildrenEnd(m)
  PROVE  Fates
<1>1. Good(mod[m])
  BY DEF IInv
<1>2. PICK b \in BOOLEAN : mod' = [mod EXCEPT ![m] = [mod[m] EXCEPT !.children = b]]
  <2>1. CASE ForkChild(m)
    BY <2>1, TRUE \in BOOLEAN DEF ForkChild, World
  <2>2. CASE ChildrenEnd(m)
    BY <2>2, FALSE \in BOOLEAN DEF ChildrenEnd, World
  <2> QED BY <2>1, <2>2
<1> DEFINE x == [mod[m] EXCEPT !.children = b]
<1>3. Fate(mod[m], x)
  BY <1>1 DEF Fate, Good, SameLife, ModuleState
<1> HIDE DEF x
<1> QED BY <1>2, <1>3, OneModule DEF x

LEMMA TickFates == ASSUME IInv, Tick PROVE Fates
<1> DEFINE x(m) == [mod[m] EXCEPT !.hb_age = UpTo(@ + 1, LongestInterval + 1),
                                  !.stab_age = UpTo(@ + 1, STABILITY_CHECK_INTERVAL)]
<1>1. ASSUME NEW m \in Modules PROVE Fate(mod[m], x(m))
  <2>1. Good(mod[m]) /\ mod[m] \in ModuleState
    BY DEF IInv, Good
  <2> DEFINE h == UpTo(mod[m].hb_age + 1, LongestInterval + 1)
             a == UpTo(mod[m].stab_age + 1, STABILITY_CHECK_INTERVAL)
  <2>2. h \in Nat /\ a \in Nat
    BY <2>1, Constants DEF UpTo, ModuleState
  <2>3. x(m) = [mod[m] EXCEPT !.hb_age = h, !.stab_age = a]
    BY <2>1 DEF ModuleState
  <2> HIDE DEF h, a, x
  <2>4. x(m) \in ModuleState
    BY <2>1, <2>2, <2>3 DEF ModuleState
  <2> QED BY <2>1, <2>3, <2>4 DEF Fate, Good, SameLife, ModuleState
<1>2. mod' = [m \in Modules |-> x(m)]
  BY DEF Tick
<1> HIDE DEF x
<1> QED BY <1>1, <1>2 DEF Fates, Fate, Good

LEMMA NextFates == ASSUME IInv, [Next]_vars PROVE Fates
<1>1. CASE \E m \in Modules : Start(m)
  BY <1>1, StartFates
<1>2. CASE \E m \in Modules : ScanModule(m) \/ ReviveModule(m)
  BY <1>2, ScanFates, ReviveFates
<1>3. CASE \E m \in Modules : KillAll(m)
  BY <1>3, KillFates
<1>4. CASE \E m \in Modules : Heartbeat(m)
  BY <1>4, HeartbeatFates
<1>5. CASE \E m \in Modules : \E i \in Intervals : SetHeartbeatInterval(m, i)
  BY <1>5, IntervalFates
<1>6. CASE \E m \in Modules : ProcessEnds(m) \/ ForkChild(m) \/ ChildrenEnd(m)
  BY <1>6, EndsFates, ChildrenFates
<1>7. CASE Tick
  BY <1>7, TickFates
<1>8. CASE \/ StartAsyncGuarding \/ Sigint \/ ScanBegin \/ Interrupted \/ ScanEnd \/ Exit
           \/ \E m \in Modules : SendHeartbeat(m)
           \/ UNCHANGED vars
  BY <1>8, NoModule DEF StartAsyncGuarding, Sigint, ScanBegin, Interrupted, ScanEnd, Exit,
                        SendHeartbeat, vars
<1> QED BY <1>1, <1>2, <1>3, <1>4, <1>5, <1>6, <1>7, <1>8 DEF Next, WatchdogThread, Handler

LEMMA NextGood == IInv /\ [Next]_vars => IInv'
<1> SUFFICES ASSUME IInv, [Next]_vars PROVE IInv'
  OBVIOUS
<1>1. Fates
  BY NextFates
<1>2. \A m \in Modules : Good(mod'[m])
  BY <1>1 DEF Fates, Fate
<1>3. mod' \in [Modules -> ModuleState]
  BY <1>1 DEF Fates
<1>4. beats' \in [Modules -> 0 .. MaxBeats]
  <2>1. CASE UNCHANGED beats
    BY <2>1 DEF IInv, TypeOK
  <2>2. CASE \E m \in Modules : Heartbeat(m) \/ SendHeartbeat(m)
    BY <2>2, Constants DEF Heartbeat, SendHeartbeat, IInv, TypeOK
  <2> QED BY <2>1, <2>2 DEF Next, WatchdogThread, Handler, StartAsyncGuarding, Sigint,
             ScanBegin, Interrupted, ScanEnd, Exit, ScanModule, ReviveModule, KillAll, Tick,
             Start, ProcessEnds, ForkChild, ChildrenEnd, World, SetHeartbeatInterval, vars
<1>5. /\ modules_mtx_' = IF pc' = "scan" THEN "scan" ELSE "free"
      /\ pc' \in {"start", "sleep", "scan", "ended"}
      /\ todo' \subseteq Modules
      /\ sigint' \in {"no", "killing", "exited"}
      /\ toKill' \subseteq Modules
  BY DEF IInv, TypeOK, Next, WatchdogThread, Handler, StartAsyncGuarding, Sigint,
         ScanBegin, Interrupted, ScanEnd, Unlocked, Exit, ScanModule, ReviveModule, KillAll,
         Tick, Start, Heartbeat, SendHeartbeat, ProcessEnds, ForkChild, ChildrenEnd, World,
         SetHeartbeatInterval, vars
<1> QED BY <1>2, <1>3, <1>4, <1>5 DEF IInv, TypeOK

LEMMA Always == Spec => []IInv
<1> QED BY InitGood, NextGood, PTL DEF Spec

-------------------------------------------------------------------------------
(* The theorems *)

\* Every variable has its type, whatever the modules and the SIGINT handler do.
THEOREM TypeCorrect == Spec => []TypeOK
<1>1. IInv => TypeOK
  BY DEF IInv
<1> QED BY <1>1, Always, PTL

\* spawnModule never overwrites the pid of a process that still runs or was not
\* waited for: no module runs twice and none leaves a zombie behind.
THEOREM NothingIsLost == Spec => []NothingLost
<1>1. IInv => NothingLost
  BY DEF IInv, Good, NothingLost
<1> QED BY <1>1, Always, PTL

\* The mortality rate of a module never runs away: resurrectModule adds to it only
\* below the critical rate.
THEOREM MortalityStaysBounded == Spec => []MortalityBounded
<1>1. IInv => MortalityBounded
  BY DEF IInv, Good, MortalityBounded
<1> QED BY <1>1, Always, PTL

\* buryModule is reached only by a module that died as often as the critical rate
\* takes, whatever the stability checks gave back in between.
THEOREM BurialTakesDeaths == Spec => []BuriedAfterDeaths
<1>1. IInv => BuriedAfterDeaths
  BY DEF IInv, Good, BuriedAfterDeaths
<1> QED BY <1>1, Always, PTL

\* watchdogThread gives a running process up only when it found it silent as often
\* as MAX_MISSED_HEARTBEATS, since it was forked and since its last heartbeat.
THEOREM OnlySilentAreKilled == Spec => KillsOnlySilent
<1>1. ASSUME IInv, [Next]_vars
      PROVE  [\A m \in Modules :
                mod[m].proc = "up" /\ GivenUp(m) =>
                  /\ Overdue(mod[m])
                  /\ mod[m].checks + 1 >= MAX_MISSED_HEARTBEATS]_vars
  BY <1>1, NextFates DEF Fates, Fate, GivenUp
<1> QED BY <1>1, Always, PTL DEF Spec, KillsOnlySilent

\* A buried module is left alone by start(), by the watchdog thread and, but for
\* its death, by the SIGINT handler.
THEOREM BuriedAreLeftAlone == Spec => BuriedLeftAlone
<1>1. ASSUME IInv, [Next]_vars
      PROVE  [\A m \in Modules :
                mod[m].buried =>
                  /\ mod'[m].buried
                  /\ mod'[m].mortality_rate = mod[m].mortality_rate
                  /\ mod'[m].proc = "up" => mod[m].proc = "up"]_vars
  BY <1>1, NextFates DEF Fates, Fate, SameLife
<1> QED BY <1>1, Always, PTL DEF Spec, BuriedLeftAlone

===============================================================================
