------------------------------ MODULE Heartbeats ------------------------------
(***************************************************************************)
(* The modules' main loops against the clock, and the watchdog that judges *)
(* them: how long each loop sleeps, waits and works between two            *)
(* sendHeartbeat calls, and how often the watchdog thread finds it late.   *)
(* One module is looked at, of any kind: temperature, streaming, trigger,  *)
(* mail (the text messages have the same loop), firebase, video or noise.  *)
(*                                                                         *)
(* Time is in ticks, a fraction of a second; time(0) cuts the fraction     *)
(* off.  The 100 ms some intervals are longer than the sleep, and the      *)
(* delays they allow for, are below a tick, and so is one block of sound.  *)
(* Heartbeats reach the core at once: what becomes of lost ones is in      *)
(* Watchdog and Delivery.                                                  *)
(*                                                                         *)
(* An operator X_Y beside an operator X is X with a plausible mistake Y; no *)
(* action uses it.  It is there to see a property of the code fail.        *)
(***************************************************************************)
EXTENDS Naturals

CONSTANTS
  SECOND,             \* ticks per second
  Setups,             \* the module: kind, polling_interval (in seconds), enabled_
  Work,               \* per kind: how long its work may take, in ticks
  MaxRules,           \* rules of the noise detection
  MAX_MISSED_HEARTBEATS,
  CHECK_INTERVAL, DEFAULT_INTERVAL   \* of the watchdog, in ticks

Kinds == {"temperature", "streaming", "trigger", "mail", "firebase", "video", "noise"}

ASSUME TimeAssumption ==
  /\ SECOND \in Nat \ {0}
  /\ \A s \in Setups : /\ s.kind \in Kinds
                       /\ s.polling_interval \in Nat
                       /\ s.enabled_ \in BOOLEAN
  /\ \A s \in Setups : Work[s.kind] \subseteq Nat
  /\ MaxRules \in Nat
  /\ CHECK_INTERVAL \in Nat \ {0}
  /\ DEFAULT_INTERVAL \in Nat
  /\ MAX_MISSED_HEARTBEATS \in Nat \ {0}

VARIABLES
  setup,              \* which module it is; never changes
  pc,                 \* "boot", "warm", "loop", "wait", "act" or "rules"
  left,               \* ticks until its sleep, wait or work is over
  phase,              \* ticks since the clock's last full second
  mark,               \* last_hbeat of video, in ticks; time1 of noise, in seconds
  marked,             \* timestampSet of noise
  sleep_time, poll,   \* of temperature, in seconds
  events,             \* events raised for a recording, and replies still to come
  last_heartbeat,     \* its age, in ticks
  missed_heartbeats, heartbeat_interval,
  check               \* ticks until the watchdog looks again

\* What happened, for the properties.
VARIABLES
  polled,             \* full seconds since the sensor was read
  slow                \* its work took longer than its interval allows for

module == <<pc, left, mark, marked, sleep_time, poll, events>>
core   == <<last_heartbeat, missed_heartbeats, heartbeat_interval>>
vars   == <<setup, phase, check, module, core, polled, slow>>

Kind == setup.kind
UpTo(n, limit) == IF n < limit THEN n ELSE limit
Less(a, b) == IF a > b THEN a - b ELSE 0
Larger(a, b) == IF a > b THEN a ELSE b

HEARTBEAT == 10                  \* seconds, of every module but two
Interval(kind) ==                \* what it calls setHeartbeatInterval with
  SECOND * [[k \in Kinds |-> HEARTBEAT] EXCEPT
              !["temperature"] = HEARTBEAT + 2, !["noise"] = 4, !["firebase"] = 1][kind]

Receive(kind) == SECOND * (IF kind = "firebase" THEN 1 ELSE HEARTBEAT)

Init ==
  /\ setup \in Setups
  /\ phase \in 0 .. SECOND - 1
  /\ check \in 1 .. CHECK_INTERVAL
  /\ pc = "boot" /\ left = 0
  /\ mark = 0 /\ marked = FALSE
  /\ sleep_time = setup.polling_interval /\ poll = TRUE
  /\ events = [raised |-> 0, due |-> 0]
  /\ last_heartbeat = 0 /\ missed_heartbeats = 0
  /\ heartbeat_interval = DEFAULT_INTERVAL
  /\ polled = 0 /\ slow = TRUE

-------------------------------------------------------------------------------
(* Parts of the loops *)

\* sendHeartbeat, and Watchdog::heartbeat when it arrives.
Beat_KeepsMissed == last_heartbeat' = 0 /\ UNCHANGED missed_heartbeats
Beat == last_heartbeat' = 0 /\ missed_heartbeats' = 0
NoBeat == UNCHANGED <<last_heartbeat, missed_heartbeats>>

Ready(where) == left = 0 /\ pc = where

Seconds(ticks) == (phase + ticks) \div SECOND     \* time(0) - loop_begin

\* The module starts and sets its interval; three send a heartbeat.  The camera has
\* to warm up.  While the noise detection calibrates, it sends heartbeats as its
\* main loop does.
Boot(d) ==
  /\ Ready("boot")
  /\ IF Kind = "video" THEN pc' = "warm" /\ left' = SECOND \div 2 + d
                       ELSE pc' = "loop" /\ left' = 0
  /\ heartbeat_interval' = Interval(Kind)
  /\ IF Kind \in {"video", "streaming", "noise"} THEN Beat ELSE NoBeat
  /\ UNCHANGED <<setup, phase, check, mark, marked, sleep_time, poll, events,
                 polled, slow>>

-------------------------------------------------------------------------------
(* temperature_module.cpp: one round of the loop.  It sleeps so that the   *)
(* heartbeats stay 10 seconds apart, and reads when the polling interval   *)
(* has passed.                                                             *)

Restored_Never(s) == s
Restored(s) == IF poll /\ setup.polling_interval > HEARTBEAT
                 THEN setup.polling_interval ELSE s

Asleep_LoopForgotten(s, loop_time) == UpTo(s, HEARTBEAT)
\* sleep() takes an unsigned number: 100000 stands for 2^32 less a few seconds.
Asleep_Unsigned(s, loop_time) ==
  IF loop_time > UpTo(s, HEARTBEAT) THEN 100000 ELSE UpTo(s, HEARTBEAT) - loop_time
Asleep(s, loop_time) == Less(UpTo(s, HEARTBEAT), loop_time)

TemperatureRound(d) ==
  LET s == Restored(sleep_time)
      loop_time == Seconds(d)
  IN
  /\ Kind = "temperature"
  /\ Ready("loop")
  /\ Beat
  /\ left' = d + SECOND * Asleep(s, loop_time)
  /\ poll' = (s <= HEARTBEAT)
  /\ sleep_time' = IF s > HEARTBEAT THEN s - HEARTBEAT ELSE s
  /\ polled' = IF poll THEN 0 ELSE polled
  /\ slow' = ((~poll /\ slow) \/ loop_time > UpTo(s, HEARTBEAT))
  /\ UNCHANGED <<setup, phase, check, pc, mark, marked, events,
                 heartbeat_interval>>

-------------------------------------------------------------------------------
(* streaming_module.cpp, trigger_module.cpp: sleep.  The streaming module  *)
(* looks after ffmpeg first, and ends with it: see Watchdog.               *)

SleepRound ==
  /\ Kind \in {"streaming", "trigger"}
  /\ Ready("loop")
  /\ Beat
  /\ left' = SECOND * (IF Kind = "streaming" THEN HEARTBEAT - 2 ELSE HEARTBEAT)
  /\ slow' = FALSE
  /\ UNCHANGED <<setup, phase, check, pc, mark, marked, sleep_time, poll, events,
                 heartbeat_interval, polled>>

-------------------------------------------------------------------------------
(* mail_module.cpp, sms_module.cpp, firebase_module.cpp: wait for a        *)
(* message, and take the action.                                           *)

AwaitMessage ==
  /\ Kind \in {"mail", "firebase"}
  /\ Ready("loop")
  /\ Beat
  /\ pc' = "wait"
  /\ left' = Receive(Kind)
  /\ slow' = FALSE
  /\ UNCHANGED <<setup, phase, check, mark, marked, sleep_time, poll, events,
                 heartbeat_interval, polled>>

NoMessage ==
  /\ Kind # "noise"
  /\ Ready("wait")
  /\ pc' = "loop"
  /\ UNCHANGED <<setup, phase, check, left, mark, marked, sleep_time, poll, events,
                 core, polled, slow>>

\* It may have waited for less.  Firebase sends no heartbeat now.
TakeAction(d) ==
  /\ Kind # "noise"
  /\ pc = "wait"
  /\ pc' = "act"
  /\ left' = d
  /\ IF Kind = "mail" THEN Beat ELSE NoBeat
  /\ slow' = (Kind = "firebase" \/ d > Receive(Kind))
  /\ UNCHANGED <<setup, phase, check, mark, marked, sleep_time, poll, events,
                 heartbeat_interval, polled>>

ActionTaken ==
  /\ Ready("act")
  /\ pc' = "loop"
  /\ UNCHANGED <<setup, phase, check, left, mark, marked, sleep_time, poll, events,
                 core, polled, slow>>

-------------------------------------------------------------------------------
(* engine.cpp of the video module: a frame, with a heartbeat when more than *)
(* five full seconds passed since the last one.  last_hbeat starts when the *)
(* camera has warmed up.  Without a frame the loop spins.                   *)

WarmedUp ==
  /\ Ready("warm")
  /\ pc' = "loop"
  /\ mark' = 0
  /\ UNCHANGED <<setup, phase, check, left, marked, sleep_time, poll, events, core,
                 polled, slow>>

VideoRound(d) ==
  LET late == mark >= 6 * SECOND IN
  /\ Kind = "video"
  /\ Ready("loop")
  /\ IF late THEN Beat /\ mark' = 0 ELSE NoBeat /\ UNCHANGED mark
  /\ left' = IF setup.enabled_ THEN Larger(d, 1) ELSE SECOND * (HEARTBEAT - 2)
  /\ slow' = ((d > 4 * SECOND /\ setup.enabled_) \/ (slow /\ ~late))
  /\ UNCHANGED <<setup, phase, check, pc, marked, sleep_time, poll, events,
                 heartbeat_interval, polled>>

-------------------------------------------------------------------------------
(* noise_detection_module.cpp *)

\* A round without noise.
Listen ==
  /\ Kind = "noise"
  /\ Ready("loop")
  /\ IF marked /\ mark >= 4
       THEN Beat /\ mark' = 0 /\ slow' = FALSE
       ELSE NoBeat /\ mark' = (IF marked THEN mark ELSE 0) /\ UNCHANGED slow
  /\ marked' = TRUE
  /\ left' = 1
  /\ UNCHANGED <<setup, phase, check, pc, sleep_time, poll, events,
                 heartbeat_interval, polled>>

\* A round with noise: 65 blocks are recorded, three seconds.
Hear ==
  /\ Kind = "noise"
  /\ Ready("loop")
  /\ Beat
  /\ pc' = "rules"
  /\ left' = 3 * SECOND
  /\ mark' = IF marked THEN mark ELSE 0
  /\ marked' = TRUE
  /\ slow' = TRUE
  /\ UNCHANGED <<setup, phase, check, sleep_time, poll, events,
                 heartbeat_interval, polled>>

\* Then n rules raise an event, and deleteFile begins to wait.
Raise(n) ==
  /\ Ready("rules")
  /\ Beat
  /\ marked' = (mark < 4)
  /\ pc' = "wait"
  /\ left' = 30 * SECOND
  /\ events' = [raised |-> n, due |-> n]
  /\ UNCHANGED <<setup, phase, check, mark, sleep_time, poll,
                 heartbeat_interval, polled, slow>>

\* A message, at any time, or none in 30 seconds.
Replied ==
  /\ Kind = "noise"
  /\ pc = "wait"
  /\ events' = [events EXCEPT !.due = @ - 1]
  /\ IF events.due = 1 THEN pc' = "loop" /\ left' = 0
                       ELSE pc' = pc /\ left' = 30 * SECOND
  /\ UNCHANGED <<setup, phase, check, mark, marked, sleep_time, poll, core,
                 polled, slow>>

-------------------------------------------------------------------------------
(* watchdog.cpp *)

Overdue == last_heartbeat > heartbeat_interval
GivenUp == check = 0 /\ Overdue /\ missed_heartbeats + 1 >= MAX_MISSED_HEARTBEATS

Check ==
  /\ check = 0
  /\ ~GivenUp
  /\ check' = CHECK_INTERVAL
  /\ missed_heartbeats' = IF Overdue THEN missed_heartbeats + 1 ELSE missed_heartbeats
  /\ UNCHANGED <<setup, phase, module, last_heartbeat, heartbeat_interval,
                 polled, slow>>

\* resurrectModule; the new process finds the interval of the last one.
Resurrect ==
  /\ GivenUp
  /\ check' = CHECK_INTERVAL
  /\ pc' = "boot" /\ left' = 0 /\ mark' = 0 /\ marked' = FALSE
  /\ sleep_time' = setup.polling_interval /\ poll' = TRUE
  /\ events' = [raised |-> 0, due |-> 0]
  /\ last_heartbeat' = 0 /\ missed_heartbeats' = 0
  /\ polled' = 0 /\ slow' = TRUE
  /\ UNCHANGED <<setup, phase, heartbeat_interval>>

\* Time waits for whoever has something to do now.
Tick ==
  /\ left > 0 /\ check > 0
  /\ left' = left - 1
  /\ check' = check - 1
  /\ phase' = (phase + 1) % SECOND
  /\ last_heartbeat' = last_heartbeat + 1
  /\ mark' = IF Kind = "video" /\ pc # "boot" THEN UpTo(mark + 1, 6 * SECOND)
             ELSE IF phase' = 0 THEN UpTo(mark + 1, 4) ELSE mark
  /\ polled' = IF Kind = "temperature" /\ phase' = 0 THEN polled + 1 ELSE polled
  /\ UNCHANGED <<setup, pc, marked, sleep_time, poll, events, missed_heartbeats,
                 heartbeat_interval, slow>>

Next ==
  \/ \E d \in Work[Kind] :
       Boot(d) \/ TemperatureRound(d) \/ TakeAction(d) \/ VideoRound(d)
  \/ WarmedUp \/ SleepRound \/ AwaitMessage \/ NoMessage \/ ActionTaken
  \/ Listen \/ Hear \/ (\E n \in 1 .. MaxRules : Raise(n)) \/ Replied
  \/ Check \/ Resurrect \/ Tick

Spec == Init /\ [][Next]_vars

-------------------------------------------------------------------------------
(* Properties                                                              *)

\* Nothing sleeps, waits or works for longer than it should, and no module gets as
\* far as a sixth missed heartbeat.
TypeOK ==
  /\ pc \in {"boot", "warm", "loop", "wait", "act", "rules"}
  /\ left <= 30 * SECOND \/ \E d \in Work[Kind] : left <= d + SECOND * HEARTBEAT
  /\ phase \in 0 .. SECOND - 1 /\ check \in 0 .. CHECK_INTERVAL
  /\ sleep_time \in 0 .. setup.polling_interval
  /\ events.due <= events.raised
  /\ missed_heartbeats < MAX_MISSED_HEARTBEATS
  /\ heartbeat_interval \in {DEFAULT_INTERVAL, Interval(Kind)}

\* "make sure there is enough time to send a heartbeat" (temperature_module.cpp:81),
\* "with tolerance range" (mail_module.cpp:42): whatever part of a second the clock
\* hides, a module is late for a heartbeat only if its work took longer than it
\* allows for: a reading 10 seconds, a frame 4 (engine.cpp:87), an action 10, and
\* none at all in firebase (firebase_module.h:17).
InTime == Overdue => slow

\* "this way if polling_interval > heartbeat_interval we only poll with specified
\* frequency" (temperature_module.cpp:173): however it is cut into sleeps, the time
\* between two readings is the polling interval to the second, unless a round took
\* longer than the sleep it replaces.
PollsOnTime ==
  [][polled > 0 /\ polled' = 0 => polled = setup.polling_interval \/ slow \/ GivenUp]_vars

\* The silence that the watchdog puts up with, and the work that keeps within it: a
\* frame while the camera warms up, those until five full seconds passed, and the one
\* in which the heartbeat is due.
Patience(kind) == Interval(kind) + (MAX_MISSED_HEARTBEATS - 1) * CHECK_INTERVAL

ShortWork ==
  \A s \in Setups :
    /\ \A d, e \in Work[s.kind] :
         /\ s.kind \in {"temperature", "mail"} => d <= Patience(s.kind)
         /\ s.kind = "firebase" => Receive(s.kind) + d <= Patience(s.kind)
         /\ s.kind = "video" => /\ SECOND \div 2 + d + 6 * SECOND - 1 + Larger(e, 1)
                                     <= Patience(s.kind)
                                /\ SECOND \div 2 + d + SECOND * (HEARTBEAT - 2)
                                     <= Patience(s.kind)
    /\ s.kind = "noise" => 30 * SECOND + 4 * SECOND <= Patience(s.kind)

\* No process is given up whose work is that short: a module is silent for long
\* enough only when the noise detection waits for replies to two events or more, 30
\* seconds for each, without a heartbeat (noise_detection_module.cpp:94-99).  One reply
\* it survives.
GivesUpOnlyNoise == GivenUp => Kind = "noise" /\ events.raised > 1
===============================================================================
