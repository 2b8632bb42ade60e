---------------------------- MODULE HeartbeatsProofs ----------------------------
(***************************************************************************)
(* Proofs about the modules' loops against the clock, for any length of a  *)
(* tick, any module and any work, and about what the watchdog makes of     *)
(* them.                                                                   *)
(*                                                                         *)
(* A loop measures with a clock that shows full seconds only.  The lemmas  *)
(* on Seconds say what a sleep makes of those; with them the invariant     *)
(* says, for each kind of module, how long it can have been silent at any  *)
(* point of its loop as long as nothing was slow, and that the seconds     *)
(* since a reading of the sensor and those still to come make up the       *)
(* polling interval.                                                       *)
(*                                                                         *)
(* A second invariant is for slow work that is short enough for the        *)
(* watchdog.  It bounds the silence from above by the loops, and from      *)
(* below by the heartbeats the watchdog has missed.                        *)
(***************************************************************************)
EXTENDS Heartbeats, TLAPS

-------------------------------------------------------------------------------
(* Seconds *)

LEMMA Constants ==
  /\ SECOND \in Nat /\ SECOND > 0
  /\ CHECK_INTERVAL \in Nat /\ CHECK_INTERVAL > 0
  /\ DEFAULT_INTERVAL \in Nat
  /\ MAX_MISSED_HEARTBEATS \in Nat /\ MAX_MISSED_HEARTBEATS > 0
  /\ MaxRules \in Nat
  BY TimeAssumption

LEMMA Division ==
  ASSUME NEW a \in Nat
  PROVE  /\ a \div SECOND \in Nat
         /\ SECOND * (a \div SECOND) <= a
         /\ a < SECOND * (a \div SECOND) + SECOND
  BY Constants

LEMMA Product ==
  ASSUME NEW m \in Nat, NEW n \in Nat
  PROVE  SECOND * m \in Nat /\ SECOND * (m + n) = SECOND * m + SECOND * n
  BY Constants

LEMMA Whole == ASSUME NEW m \in Nat PROVE m * SECOND \in Nat
  BY Constants

LEMMA Monotone ==
  ASSUME NEW m \in Nat, NEW n \in Nat, m < n
  PROVE  SECOND * m + SECOND <= SECOND * n
  BY Constants

\* The quotient is the only number of whole seconds in a.
LEMMA Quotient ==
  ASSUME NEW a \in Nat, NEW q \in Nat,
         SECOND * q <= a, a < SECOND * q + SECOND
  PROVE  a \div SECOND = q
  BY Constants, Division, Monotone, Product

-------------------------------------------------------------------------------
(* The invariant *)

Types ==
  /\ setup \in Setups
  /\ pc \in {"boot", "warm", "loop", "wait", "act", "rules"}
  /\ left \in Nat /\ phase \in 0 .. SECOND - 1 /\ check \in 0 .. CHECK_INTERVAL
  /\ mark \in Nat /\ marked \in BOOLEAN
  /\ sleep_time \in 0 .. setup.polling_interval /\ poll \in BOOLEAN
  /\ events \in [raised : Nat, due : Nat]
  /\ last_heartbeat \in Nat /\ heartbeat_interval \in Nat
  /\ missed_heartbeats \in 0 .. MAX_MISSED_HEARTBEATS - 1
  /\ polled \in Nat /\ slow \in BOOLEAN

Bounds ==
  /\ left <= 30 * SECOND \/ \E d \in Work[Kind] : left <= d + SECOND * HEARTBEAT
  /\ events.due <= events.raised
  /\ pc = "wait" /\ Kind = "noise" => events.due > 0
  /\ heartbeat_interval \in {DEFAULT_INTERVAL, Interval(Kind)}

Started ==
  /\ pc = "boot" => /\ slow /\ left = 0
                    /\ last_heartbeat = 0 /\ missed_heartbeats = 0
  /\ pc # "boot" => heartbeat_interval = Interval(Kind)

TInv == Types /\ Bounds /\ Started

LEMMA Intervals ==
  \A kind \in Kinds :
    Interval(kind) = SECOND * (IF kind = "temperature" THEN 12
                               ELSE IF kind = "noise" THEN 4
                               ELSE IF kind = "firebase" THEN 1 ELSE 10)
  BY DEF Interval, HEARTBEAT, Kinds

LEMMA Setup ==
  ASSUME Types
  PROVE  /\ Kind \in Kinds /\ Work[Kind] \subseteq Nat
         /\ setup.polling_interval \in Nat /\ setup.enabled_ \in BOOLEAN
         /\ Interval(Kind) \in Nat
<1>1. setup \in Setups
  BY DEF Types
<1>2. Kind \in Kinds /\ Work[Kind] \subseteq Nat
  BY <1>1, TimeAssumption DEF Kind
<1>3. setup.polling_interval \in Nat /\ setup.enabled_ \in BOOLEAN
  BY <1>1, TimeAssumption
<1>4. Interval(Kind) \in Nat
  BY <1>2, Intervals, Constants
<1> QED BY <1>2, <1>3, <1>4

LEMMA InitGood == Init => TInv
<1> SUFFICES ASSUME Init PROVE TInv
  OBVIOUS
<1>1. setup \in Setups /\ setup.polling_interval \in Nat
  BY TimeAssumption DEF Init
<1>2. Types
  <2>1. marked \in BOOLEAN /\ poll \in BOOLEAN /\ slow \in BOOLEAN
    BY DEF Init
  <2> QED BY <1>1, <2>1, Constants DEF Init, Types
<1>3. Bounds /\ Started
  BY <1>2, Constants DEF Init, Bounds, Started, Types
<1> QED BY <1>2, <1>3 DEF TInv

\* What the clock hides of a round is less than a second.
LEMMA SleepBounded ==
  ASSUME Types, NEW s \in Nat, NEW t \in Nat
  PROVE  /\ Asleep(s, t) \in Nat
         /\ SECOND * Asleep(s, t) \in Nat
         /\ SECOND * Asleep(s, t) <= SECOND * HEARTBEAT
<1>1. Asleep(s, t) \in Nat /\ Asleep(s, t) <= HEARTBEAT
  BY DEF Asleep, Less, UpTo, HEARTBEAT
<1>2. SECOND * Asleep(s, t) \in Nat
  BY <1>1, Product
<1>3. SECOND * Asleep(s, t) <= SECOND * HEARTBEAT
  BY <1>1, Monotone, Constants DEF HEARTBEAT
<1> QED BY <1>1, <1>2, <1>3

-------------------------------------------------------------------------------
(* A step of the module, apart from time *)

\* What a round does to the heartbeat.
LEMMA BeatGood ==
  ASSUME TInv, Beat \/ NoBeat
  PROVE  /\ last_heartbeat' \in Nat
         /\ missed_heartbeats' \in 0 .. MAX_MISSED_HEARTBEATS - 1
  BY Constants DEF TInv, Types, Beat, NoBeat

\* A step that leaves the clock, the interval and most of the loop's state alone.
Round ==
  /\ pc' \in {"boot", "warm", "loop", "wait", "act", "rules"} /\ pc' # "boot"
  /\ left' \in Nat /\ mark' \in Nat /\ marked' \in BOOLEAN
  /\ sleep_time' \in 0 .. setup.polling_interval /\ poll' \in BOOLEAN
  /\ Beat \/ NoBeat
  /\ polled' \in Nat /\ slow' \in BOOLEAN
  /\ UNCHANGED <<setup, phase, check>>

\* Nothing that sleeps, waits or works is late, and replies are still due.
Limits ==
  /\ left' <= 30 * SECOND \/ \E d \in Work[Kind] : left' <= d + SECOND * HEARTBEAT
  /\ events' \in [raised : Nat, due : Nat] /\ events'.due <= events'.raised
  /\ pc' = "wait" /\ Kind = "noise" => events'.due > 0
  /\ heartbeat_interval' = Interval(Kind)

LEMMA RoundGood == ASSUME TInv, Round, Limits PROVE TInv'
<1>1. Kind' = Kind /\ Interval(Kind)' = Interval(Kind)
  BY DEF Round, Kind, Interval
<1>2. last_heartbeat' \in Nat /\ missed_heartbeats' \in 0 .. MAX_MISSED_HEARTBEATS - 1
  BY BeatGood DEF Round
<1>3. heartbeat_interval' \in Nat
  BY Setup DEF TInv, Limits
<1>4. Types'
  BY <1>2, <1>3 DEF Round, Limits, TInv, Types
<1>5. Bounds'
  BY <1>1 DEF Round, Limits, Bounds
<1>6. Started'
  BY <1>1 DEF Round, Limits, Started
<1> QED BY <1>4, <1>5, <1>6 DEF TInv

LEMMA BootGood == ASSUME TInv, NEW d \in Work[Kind], Boot(d) PROVE TInv'
<1>1. d \in Nat
  BY Setup DEF TInv
<1>2. SECOND \div 2 \in Nat /\ SECOND \div 2 <= SECOND * HEARTBEAT
  BY Constants DEF HEARTBEAT
<1>3. left' \in Nat /\ left' <= d + SECOND * HEARTBEAT
  BY <1>1, <1>2, Constants DEF Boot, HEARTBEAT
<1>4. Round
  BY <1>3 DEF Boot, Ready, Round, TInv, Types
<1>5. Limits
  BY <1>3 DEF Boot, Ready, Limits, TInv, Types, Bounds
<1> QED BY <1>4, <1>5, RoundGood

LEMMA TemperatureRoundGood ==
  ASSUME TInv, NEW d \in Work[Kind], TemperatureRound(d)
  PROVE  TInv'
<1> DEFINE s == Restored(sleep_time)
<1>1. d \in Nat /\ setup.polling_interval \in Nat
  BY Setup DEF TInv
<1>2. s \in 0 .. setup.polling_interval
  BY <1>1 DEF TInv, Types, Restored
<1>3. Seconds(d) \in Nat
  BY <1>1, Division DEF Seconds, TInv, Types
<1>4. left' \in Nat /\ left' <= d + SECOND * HEARTBEAT
  <2> DEFINE sleep == SECOND * Asleep(s, Seconds(d))
  <2>1. sleep \in Nat /\ sleep <= SECOND * HEARTBEAT
    BY <1>1, <1>2, <1>3, SleepBounded DEF TInv
  <2>2. left' = d + sleep
    BY DEF TemperatureRound
  <2> HIDE DEF sleep, s
  <2> QED BY <1>1, <2>1, <2>2, Constants DEF HEARTBEAT
<1>5. sleep_time' \in 0 .. setup.polling_interval
  BY <1>1, <1>2 DEF TemperatureRound, HEARTBEAT
<1>6. poll' \in BOOLEAN /\ slow' \in BOOLEAN
  BY DEF TemperatureRound
<1>7. polled' \in Nat
  BY DEF TemperatureRound, TInv, Types
<1>8. Round
  BY <1>4, <1>5, <1>6, <1>7 DEF TemperatureRound, Ready, Round, TInv, Types
<1>9. Limits
  BY <1>4 DEF TemperatureRound, Ready, Limits, TInv, Types, Bounds, Started
<1> QED BY <1>8, <1>9, RoundGood

\* The waits and sleeps that the code has constants for.
LEMMA SleepRoundGood == ASSUME TInv, SleepRound PROVE TInv'
<1>1. left' \in Nat /\ left' <= 30 * SECOND
  BY Constants DEF SleepRound, HEARTBEAT
<1>2. Round
  BY <1>1 DEF SleepRound, Ready, Round, TInv, Types
<1>3. Limits
  BY <1>1 DEF SleepRound, Ready, Limits, TInv, Types, Bounds, Started
<1> QED BY <1>2, <1>3, RoundGood

LEMMA AwaitMessageGood == ASSUME TInv, AwaitMessage PROVE TInv'
<1>1. left' \in Nat /\ left' <= 30 * SECOND
  BY Constants DEF AwaitMessage, Receive, HEARTBEAT
<1>2. Round
  BY <1>1 DEF AwaitMessage, Ready, Round, TInv, Types
<1>3. Limits
  BY <1>1 DEF AwaitMessage, Ready, Limits, TInv, Types, Bounds, Started
<1> QED BY <1>2, <1>3, RoundGood

LEMMA LoopGood == ASSUME TInv, NoMessage \/ ActionTaken \/ WarmedUp PROVE TInv'
<1>1. left' = 0 /\ pc' = "loop" /\ Ready(pc) /\ pc # "boot"
  BY DEF NoMessage, ActionTaken, WarmedUp, Ready
<1>2. Round
  BY <1>1 DEF NoMessage, ActionTaken, WarmedUp, Ready, Round, TInv, Types, NoBeat, core
<1>3. Limits
  BY <1>1, Constants DEF NoMessage, ActionTaken, WarmedUp, Limits, TInv, Types, Bounds,
     Started, core
<1> QED BY <1>2, <1>3, RoundGood

LEMMA TakeActionGood == ASSUME TInv, NEW d \in Work[Kind], TakeAction(d) PROVE TInv'
<1>1. d \in Nat
  BY Setup DEF TInv
<1>2. left' \in Nat /\ left' <= d + SECOND * HEARTBEAT
  BY <1>1, Constants DEF TakeAction, HEARTBEAT
<1>3. slow' \in BOOLEAN
  BY DEF TakeAction
<1>4. Round
  BY <1>2, <1>3 DEF TakeAction, Round, TInv, Types
<1>5. Limits
  BY <1>2 DEF TakeAction, Limits, TInv, Types, Bounds, Started
<1> QED BY <1>4, <1>5, RoundGood

LEMMA VideoRoundGood == ASSUME TInv, NEW d \in Work[Kind], VideoRound(d) PROVE TInv'
<1>1. d \in Nat
  BY Setup DEF TInv
<1>2. left' \in Nat /\ left' <= d + SECOND * HEARTBEAT
  BY <1>1, Constants DEF VideoRound, Larger, HEARTBEAT
<1>3. slow' \in BOOLEAN
  BY DEF VideoRound
<1>4. mark' \in Nat
  BY DEF VideoRound, TInv, Types
<1>5. Beat \/ NoBeat
  BY DEF VideoRound
<1>6. Round
  BY <1>2, <1>3, <1>4, <1>5 DEF VideoRound, Ready, Round, TInv, Types
<1>7. Limits
  BY <1>2 DEF VideoRound, Ready, Limits, TInv, Types, Bounds, Started
<1> QED BY <1>6, <1>7, RoundGood

LEMMA ListenGood == ASSUME TInv, Listen PROVE TInv'
<1>1. left' \in Nat /\ left' <= 30 * SECOND
  BY Constants DEF Listen
<1>2. slow' \in BOOLEAN
  BY DEF Listen, TInv, Types
<1>3. mark' \in Nat
  BY DEF Listen, TInv, Types
<1>4. Beat \/ NoBeat
  BY DEF Listen
<1>5. Round
  BY <1>1, <1>2, <1>3, <1>4 DEF Listen, Ready, Round, TInv, Types
<1>6. Limits
  BY <1>1 DEF Listen, Ready, Limits, TInv, Types, Bounds, Started
<1> QED BY <1>5, <1>6, RoundGood

LEMMA HearGood == ASSUME TInv, Hear PROVE TInv'
<1>1. left' \in Nat /\ left' <= 30 * SECOND
  BY Constants DEF Hear
<1>2. mark' \in Nat
  BY DEF Hear, TInv, Types
<1>3. Round
  BY <1>1, <1>2 DEF Hear, Ready, Round, TInv, Types
<1>4. Limits
  BY <1>1 DEF Hear, Ready, Limits, TInv, Types, Bounds, Started
<1> QED BY <1>3, <1>4, RoundGood

LEMMA RaiseGood == ASSUME TInv, NEW n \in 1 .. MaxRules, Raise(n) PROVE TInv'
<1>1. left' \in Nat /\ left' <= 30 * SECOND
  BY Constants DEF Raise
<1>2. marked' \in BOOLEAN
  BY DEF Raise
<1>3. Round
  BY <1>1, <1>2 DEF Raise, Ready, Round, TInv, Types
<1>4. n \in Nat /\ n > 0
  BY Constants
<1>5. Limits
  BY <1>1, <1>4 DEF Raise, Ready, Limits, TInv, Types, Bounds, Started
<1> QED BY <1>3, <1>5, RoundGood

LEMMA RepliedGood == ASSUME TInv, Replied PROVE TInv'
<1>1. left' \in Nat /\ left' <= 30 * SECOND
  BY Constants DEF Replied
<1>2. events.due \in Nat /\ events.due > 0 /\ events.raised \in Nat
      /\ events.due <= events.raised
  BY DEF Replied, TInv, Types, Bounds
<1>3. Round
  BY <1>1 DEF Replied, Round, TInv, Types, NoBeat, core
<1>4. events' = [raised |-> events.raised, due |-> events.due - 1]
  BY DEF Replied, TInv, Types
<1>5. Limits
  BY <1>1, <1>2, <1>4 DEF Replied, Limits, TInv, Types, Bounds, Started, core
<1> QED BY <1>3, <1>5, RoundGood

-------------------------------------------------------------------------------
(* The watchdog and time *)

LEMMA CheckGood == ASSUME TInv, Check PROVE TInv'
<1>1. Kind' = Kind /\ Interval(Kind)' = Interval(Kind)
  BY DEF Check, Kind, Interval
<1>2. missed_heartbeats' \in 0 .. MAX_MISSED_HEARTBEATS - 1
  BY Constants DEF Check, GivenUp, TInv, Types
<1>3. check' \in 0 .. CHECK_INTERVAL
  BY Constants DEF Check
<1>4. Types'
  BY <1>2, <1>3 DEF Check, module, TInv, Types
<1>5. Bounds'
  BY <1>1 DEF Check, module, TInv, Bounds
<1>6. Started'
  BY <1>1, Constants DEF Check, module, TInv, Started, GivenUp, Overdue, Types
<1> QED BY <1>4, <1>5, <1>6 DEF TInv

LEMMA ResurrectGood == ASSUME TInv, Resurrect PROVE TInv'
<1>1. Kind' = Kind /\ Interval(Kind)' = Interval(Kind)
  BY DEF Resurrect, Kind, Interval
<1>2. poll' \in BOOLEAN /\ marked' \in BOOLEAN /\ slow' \in BOOLEAN
  BY DEF Resurrect
<1>3. setup.polling_interval \in Nat
  BY Setup DEF TInv
<1>4. Types'
  BY <1>2, <1>3, Constants DEF Resurrect, TInv, Types
<1>5. Bounds'
  BY <1>1, Constants DEF Resurrect, TInv, Bounds
<1>6. Started'
  BY <1>1 DEF Resurrect, Started
<1> QED BY <1>4, <1>5, <1>6 DEF TInv

LEMMA NextPhase ==
  ASSUME TInv, Tick
  PROVE  /\ phase' \in 0 .. SECOND - 1
         /\ phase' = IF phase + 1 = SECOND THEN 0 ELSE phase + 1
<1>1. phase \in Nat /\ phase < SECOND
  BY Constants DEF TInv, Types
<1> QED BY <1>1, Constants DEF Tick

LEMMA TickGood == ASSUME TInv, Tick PROVE TInv'
<1>1. Kind' = Kind /\ Interval(Kind)' = Interval(Kind)
  BY DEF Tick, Kind, Interval
<1>2. phase' \in 0 .. SECOND - 1
  BY NextPhase
<1>3. mark' \in Nat
  BY Constants DEF Tick, TInv, Types, UpTo
<1>4. left' \in Nat /\ check' \in 0 .. CHECK_INTERVAL /\ left > 0
  BY Constants DEF Tick, TInv, Types
<1>5. polled' \in Nat /\ last_heartbeat' \in Nat
  BY DEF Tick, TInv, Types
<1>6. Types'
  BY <1>2, <1>3, <1>4, <1>5 DEF Tick, TInv, Types
<1>7. Bounds'
  <2>1. left' <= left
    BY <1>4 DEF Tick, TInv, Types
  <2>2. left' <= 30 * SECOND \/ \E d \in Work[Kind] : left' <= d + SECOND * HEARTBEAT
    <3>1. CASE left <= 30 * SECOND
      BY <1>4, <2>1, <3>1, Constants DEF TInv, Types
    <3>2. CASE \E d \in Work[Kind] : left <= d + SECOND * HEARTBEAT
      <4>1. PICK d \in Work[Kind] : left <= d + SECOND * HEARTBEAT
        BY <3>2
      <4>2. d \in Nat
        BY Setup DEF TInv
      <4>3. left' <= d + SECOND * HEARTBEAT
        BY <1>4, <2>1, <4>1, <4>2, Constants DEF TInv, Types, HEARTBEAT
      <4> QED BY <4>3
    <3> QED BY <3>1, <3>2 DEF TInv, Bounds
  <2> QED BY <1>1, <2>2 DEF Tick, TInv, Bounds
<1>8. Started'
  BY <1>1, <1>4 DEF Tick, TInv, Started
<1> QED BY <1>6, <1>7, <1>8 DEF TInv

LEMMA NextGood == TInv /\ [Next]_vars => TInv'
<1> SUFFICES ASSUME TInv, [Next]_vars PROVE TInv'
  OBVIOUS
<1>1. CASE UNCHANGED vars
  BY <1>1 DEF vars, module, core, TInv, Types, Bounds, Started, Kind, Interval
<1>2. ASSUME NEW d \in Work[Kind],
             Boot(d) \/ TemperatureRound(d) \/ TakeAction(d) \/ VideoRound(d)
      PROVE  TInv'
  BY <1>2, BootGood, TemperatureRoundGood, TakeActionGood, VideoRoundGood
<1>3. CASE WarmedUp \/ SleepRound \/ AwaitMessage \/ NoMessage \/ ActionTaken
  BY <1>3, LoopGood, SleepRoundGood, AwaitMessageGood
<1>4. CASE Listen \/ Hear \/ Replied
  BY <1>4, ListenGood, HearGood, RepliedGood
<1>5. ASSUME NEW n \in 1 .. MaxRules, Raise(n) PROVE TInv'
  BY <1>5, RaiseGood
<1>6. CASE Check \/ Resurrect \/ Tick
  BY <1>6, CheckGood, ResurrectGood, TickGood
<1> QED BY <1>1, <1>2, <1>3, <1>4, <1>5, <1>6 DEF Next

\* Every sleep, wait and work stays within its limit, the missed heartbeats below
\* theirs, and the clocks within their range.
THEOREM TypeCorrect == Spec => []TypeOK
<1>1. TInv => TypeOK
  <2> SUFFICES ASSUME TInv PROVE TypeOK
    OBVIOUS
  <2>1. missed_heartbeats < MAX_MISSED_HEARTBEATS
    BY Constants DEF TInv, Types
  <2> QED BY <2>1 DEF TInv, Types, Bounds, TypeOK
<1> QED BY <1>1, InitGood, NextGood, PTL DEF Spec

-------------------------------------------------------------------------------
(* What a module may be late for *)

\* Since the last heartbeat, and until the loop goes on.
Silence == last_heartbeat + left

Placed ==
  /\ Kind \in {"temperature", "streaming", "trigger"} => pc \in {"boot", "loop"}
  /\ Kind \in {"mail", "firebase"} => pc \in {"boot", "loop", "wait", "act"}
  /\ Kind = "video" => pc \in {"boot", "warm", "loop"}
  /\ Kind = "noise" => pc \in {"boot", "loop", "rules", "wait"}

\* The seconds since a reading, those of the sleep that are to come and the rest of
\* the polling interval make up the polling interval.
Temperature ==
  /\ setup.polling_interval <= HEARTBEAT => poll /\ sleep_time = setup.polling_interval
  /\ ~slow => /\ Silence <= SECOND * (HEARTBEAT + 1)
              /\ polled + Seconds(left) + (IF poll THEN 0 ELSE sleep_time)
                   = setup.polling_interval

Sleeping == ~slow => Silence <= SECOND * HEARTBEAT

Waiting == ~slow => Silence <= Receive(Kind)

\* Until a frame is late, last_hbeat is when the last heartbeat was sent.
Video ==
  ~slow => /\ pc = "loop" /\ mark = UpTo(last_heartbeat, 6 * SECOND)
           /\ setup.enabled_ => Silence <= SECOND * HEARTBEAT
           /\ ~setup.enabled_ => Silence = SECOND * (HEARTBEAT - 2)

\* time1 counts the full seconds, which hide less than one.
Noise ==
  ~slow => /\ pc = "loop" /\ marked /\ Silence <= 4 * SECOND
           /\ mark < 4 => last_heartbeat <= mark * SECOND + phase

KInv ==
  /\ Placed
  /\ Kind = "temperature" => Temperature
  /\ Kind # "temperature" => polled = 0
  /\ Kind \in {"streaming", "trigger"} => Sleeping
  /\ Kind \in {"mail", "firebase"} => Waiting
  /\ Kind = "video" => Video
  /\ Kind = "noise" => Noise

IInv == TInv /\ KInv

LEMMA InitTimely == Init => KInv
  BY DEF Init, KInv, Placed, Temperature, Sleeping, Waiting, Video, Noise

\* No step changes what the module is.
LEMMA SameModule ==
  ASSUME [Next]_vars
  PROVE  /\ setup' = setup /\ Kind' = Kind
         /\ Interval(Kind)' = Interval(Kind) /\ Receive(Kind)' = Receive(Kind)
<1>1. setup' = setup
  BY DEF Next, vars, Boot, TemperatureRound, TakeAction, VideoRound, WarmedUp,
     SleepRound, AwaitMessage, NoMessage, ActionTaken, Listen, Hear, Raise, Replied,
     Check, Resurrect, Tick
<1> QED BY <1>1 DEF Kind, Interval, Receive

LEMMA PlacedGood == ASSUME TInv, Placed, [Next]_vars PROVE Placed'
<1>1. Kind' = Kind
  BY SameModule
<1>2. Kind \in Kinds
  BY Setup DEF TInv
<1>3. \/ pc' = pc
      \/ pc' = "boot"
      \/ pc' = "loop"
      \/ pc' = "warm" /\ Kind = "video"
      \/ pc' = "wait" /\ Kind \in {"mail", "firebase"}
      \/ pc' = "act" /\ Kind # "noise" /\ pc = "wait"
      \/ pc' = "rules" /\ Kind = "noise"
      \/ pc' = "wait" /\ pc = "rules"
  BY DEF Next, vars, module, Boot, TemperatureRound, TakeAction, VideoRound, WarmedUp,
     SleepRound, AwaitMessage, NoMessage, ActionTaken, Listen, Hear, Raise, Replied,
     Check, Resurrect, Tick, Ready
<1> QED BY <1>1, <1>2, <1>3 DEF Placed, Kinds

\* The steps of any kind that leave nothing to prove: those after which the module is
\* slow by definition, and those that change nothing the loop knows of.
Aside ==
  \/ (\E d \in Work[Kind] : Boot(d)) \/ Resurrect
  \/ Check \/ UNCHANGED vars

LEMMA AsideSlow ==
  ASSUME TInv, Aside
  PROVE  slow' \/ UNCHANGED <<module, phase, last_heartbeat, heartbeat_interval,
                              polled, slow>>
  BY DEF Aside, Boot, Resurrect, Check, vars, core, module, TInv, Started, Ready

\* Time adds to the silence what it takes from the wait.
LEMMA TickSilence ==
  ASSUME TInv, Tick
  PROVE  /\ Silence' = Silence
         /\ left \in Nat /\ left > 0 /\ left' = left - 1 /\ left' \in Nat
         /\ last_heartbeat \in Nat /\ last_heartbeat' = last_heartbeat + 1
  BY DEF TInv, Types, Tick, Silence

-------------------------------------------------------------------------------
(* Temperature *)

\* Sleeping n seconds more, n full seconds more pass.
LEMMA SecondsMore ==
  ASSUME Types, NEW d \in Nat, NEW n \in Nat
  PROVE  /\ Seconds(d) \in Nat
         /\ Seconds(d + SECOND * n) = Seconds(d) + n
         /\ d + SECOND * n < SECOND + SECOND * (Seconds(d) + n)
<1> DEFINE q == Seconds(d)
<1>1. phase \in Nat
  BY Constants DEF Types
<1>2. q \in Nat /\ SECOND * q <= phase + d /\ phase + d < SECOND * q + SECOND
  BY <1>1, Division DEF Seconds
<1> HIDE DEF q
<1>3. SECOND * n \in Nat /\ SECOND * q \in Nat /\ q + n \in Nat
      /\ SECOND * (q + n) = SECOND * q + SECOND * n
  <2>1. q \in Nat /\ n \in Nat /\ q + n \in Nat
    BY <1>2
  <2> QED BY <2>1, Product, Zenon
<1>4. SECOND * (q + n) <= phase + (d + SECOND * n)
      /\ phase + (d + SECOND * n) < SECOND * (q + n) + SECOND
  BY <1>1, <1>2, <1>3, Constants
<1>5. (phase + (d + SECOND * n)) \div SECOND = q + n
  BY <1>1, <1>3, <1>4, Quotient
<1>6. Seconds(d) = q
  BY DEF q
<1>7. d + SECOND * n < SECOND + SECOND * (q + n)
  BY <1>1, <1>3, <1>4, Constants
<1> QED BY <1>2, <1>5, <1>6, <1>7 DEF Seconds

\* A tick of a sleep takes a second from those to come when the clock shows a new one.
LEMMA SecondsLess ==
  ASSUME TInv, Tick
  PROVE  /\ Seconds(left) \in Nat
         /\ Seconds(left)' = IF phase' = 0 THEN Seconds(left) - 1 ELSE Seconds(left)
<1> DEFINE q == Seconds(left)
<1>1. phase \in Nat /\ phase < SECOND /\ phase' \in Nat
      /\ phase' = IF phase + 1 = SECOND THEN 0 ELSE phase + 1
  BY NextPhase, Constants DEF TInv, Types
<1>2. left \in Nat /\ left > 0 /\ left' = left - 1 /\ left' \in Nat
  BY TickSilence
<1>3. q \in Nat /\ SECOND * q <= phase + left /\ phase + left < SECOND * q + SECOND
  <2>1. phase + left \in Nat
    BY <1>1, <1>2
  <2> QED BY <2>1, Division, Zenon DEF Seconds
<1>4. Seconds(left)' = (phase' + left') \div SECOND
  BY DEF Seconds
<1>5. q = Seconds(left)
  BY DEF q
<1> HIDE DEF q
<1>6. CASE phase' # 0
  <2>1. phase' + left' = phase + left
    BY <1>1, <1>2, <1>6
  <2> QED BY <1>1, <1>2, <1>3, <1>4, <1>5, <1>6, <2>1, Quotient
<1>7. CASE phase' = 0
  <2>1. phase' + left' = phase + left - SECOND
    BY <1>1, <1>2, <1>7, Constants
  <2>2. q > 0
    <3> SUFFICES ASSUME q = 0 PROVE FALSE
      BY <1>3
    <3>1. SECOND * q = 0
      BY Constants
    <3> QED BY <1>1, <1>2, <1>3, <1>7, <3>1, Constants
  <2>3. q - 1 \in Nat
    BY <1>3, <2>2
  <2>4. SECOND * (q - 1) = SECOND * q - SECOND /\ SECOND * q \in Nat
    <3>1. SECOND * ((q - 1) + 1) = SECOND * (q - 1) + SECOND * 1
      BY <2>3, Product
    <3>2. (q - 1) + 1 = q
      BY <1>3
    <3>3. SECOND * (q - 1) \in Nat /\ SECOND * q \in Nat
      BY <1>3, <2>3, Product
    <3> QED BY <3>1, <3>2, <3>3, Constants
  <2>5. phase' + left' \in Nat
    BY <1>1, <1>2
  <2>6. SECOND * (q - 1) <= phase' + left'
        /\ phase' + left' < SECOND * (q - 1) + SECOND
    BY <1>1, <1>2, <1>3, <2>1, <2>4, Constants
  <2>7. (phase' + left') \div SECOND = q - 1
    BY <2>3, <2>5, <2>6, Quotient
  <2> QED BY <1>3, <1>4, <1>5, <1>7, <2>7
<1> QED BY <1>6, <1>7

\* At the end of a sleep nothing of it is to come.
LEMMA SecondsNone == ASSUME Types PROVE Seconds(0) = 0
<1>1. phase + 0 \in Nat /\ phase + 0 < SECOND
  BY Constants DEF Types
<1>2. 0 \in Nat /\ SECOND * 0 <= phase + 0 /\ phase + 0 < SECOND * 0 + SECOND
  BY <1>1, Constants
<1>3. (phase + 0) \div SECOND = 0
  BY <1>1, <1>2, Quotient, Zenon
<1> QED BY <1>3 DEF Seconds

LEMMA TemperatureRoundTimely ==
  ASSUME TInv, Temperature, NEW d \in Work[Kind], TemperatureRound(d)
  PROVE  Temperature'
<1> DEFINE s  == Restored(sleep_time)
           lt == Seconds(d)
           u  == UpTo(s, HEARTBEAT)
<1>1. d \in Nat /\ setup.polling_interval \in Nat /\ setup' = setup
  BY Setup DEF TInv, TemperatureRound
<1>2. s \in Nat /\ (poll => s = setup.polling_interval) /\ (~poll => s = sleep_time)
  BY <1>1 DEF TInv, Types, Restored, Temperature, HEARTBEAT
<1>3. u \in Nat /\ u <= HEARTBEAT /\ u + (IF s <= HEARTBEAT THEN 0 ELSE s - HEARTBEAT) = s
  BY <1>2 DEF UpTo, HEARTBEAT
<1>4. lt \in Nat
  BY <1>1, SecondsMore DEF TInv
<1>5. poll' = (s <= HEARTBEAT) /\ sleep_time' = (IF s > HEARTBEAT THEN s - HEARTBEAT ELSE s)
  BY DEF TemperatureRound
<1>6. setup'.polling_interval <= HEARTBEAT => poll' /\ sleep_time' = setup'.polling_interval
  BY <1>1, <1>2, <1>5 DEF Temperature, TInv, Types, HEARTBEAT
<1>7. ASSUME ~slow'
      PROVE  /\ Silence' <= SECOND * (HEARTBEAT + 1)
             /\ polled' + Seconds(left)' + (IF poll' THEN 0 ELSE sleep_time')
                  = setup'.polling_interval
  <2>1. lt <= u /\ (poll \/ ~slow)
    <3>1. ~(lt > u) /\ ~(~poll /\ slow)
      BY <1>7, Zenon DEF TemperatureRound
    <3>2. u \in Nat /\ lt \in Nat
      BY <1>3, <1>4
    <3> HIDE DEF u, lt
    <3> QED BY <3>1, <3>2
  <2>2. Asleep(s, lt) = u - lt /\ u - lt \in Nat
    BY <1>3, <1>4, <2>1 DEF Asleep, Less, HEARTBEAT
  <2>3. left' = d + SECOND * (u - lt) /\ last_heartbeat' = 0 /\ phase' = phase
    BY <2>2 DEF TemperatureRound, Beat
  <2>4. Seconds(left)' = Seconds(left')
    BY <2>3 DEF Seconds
  <2>5. Seconds(d + SECOND * (u - lt)) = lt + (u - lt)
        /\ d + SECOND * (u - lt) < SECOND + SECOND * (lt + (u - lt))
    BY <1>1, <2>2, SecondsMore, Zenon DEF TInv
  <2>6. lt + (u - lt) = u
    BY <1>3, <1>4
  <2>7. Seconds(left)' = u /\ left' < SECOND + SECOND * u
    BY <2>3, <2>4, <2>5, <2>6
  <2>8. SECOND * u <= SECOND * HEARTBEAT
    BY <1>3, Monotone, Constants DEF HEARTBEAT
  <2>9. left' \in Nat /\ SECOND * u \in Nat
    BY <1>3, Product, TemperatureRoundGood DEF TInv, Types
  <2> HIDE DEF s, lt, u
  <2>10. Silence' <= SECOND * (HEARTBEAT + 1)
    BY <1>3, <2>3, <2>7, <2>8, <2>9, Constants DEF Silence, HEARTBEAT
  <2>11. polled' \in Nat /\ polled' + s = setup.polling_interval
    <3>1. CASE poll
      BY <1>1, <1>2, <3>1 DEF TemperatureRound
    <3>2. CASE ~poll
      <4>1. left = 0 /\ ~slow /\ polled' = polled /\ polled \in Nat
        BY <2>1, <3>2 DEF TemperatureRound, Ready, TInv, Types
      <4>2. Seconds(left) = 0
        BY <4>1, SecondsNone DEF TInv
      <4> QED BY <1>1, <1>2, <3>2, <4>1, <4>2 DEF Temperature
    <3> QED BY <3>1, <3>2
  <2>12. u + (IF poll' THEN 0 ELSE sleep_time') = s
    <3>1. CASE s <= HEARTBEAT
      <4>1. poll'
        BY <1>5, <3>1
      <4> QED BY <1>2, <1>3, <3>1, <4>1 DEF HEARTBEAT
    <3>2. CASE ~(s <= HEARTBEAT)
      <4>1. ~poll'
        BY <1>5, <3>2
      <4>2. s > HEARTBEAT
        BY <1>2, <3>2 DEF HEARTBEAT
      <4> QED BY <1>2, <1>3, <1>5, <3>2, <4>1, <4>2 DEF HEARTBEAT
    <3> QED BY <3>1, <3>2
  <2>13. sleep_time' \in Nat
    BY <1>2, <1>5 DEF HEARTBEAT
  <2>14. polled' + Seconds(left)' + (IF poll' THEN 0 ELSE sleep_time')
           = setup.polling_interval
    BY <1>3, <2>7, <2>11, <2>12, <2>13
  <2> QED BY <1>1, <2>10, <2>14
<1> QED BY <1>6, <1>7 DEF Temperature

LEMMA TemperatureTimely ==
  ASSUME TInv, Placed, Temperature, Kind = "temperature", [Next]_vars
  PROVE  Temperature'
<1>1. setup' = setup
  BY SameModule
<1>2. Aside \/ (\E d \in Work[Kind] : TemperatureRound(d)) \/ Tick
  BY DEF Next, Placed, Aside, TakeAction, VideoRound, WarmedUp,
     SleepRound, AwaitMessage, NoMessage, ActionTaken, Listen, Hear, Raise, Replied, Ready
<1>3. CASE Aside
  <2>1. \/ UNCHANGED <<sleep_time, poll>>
        \/ sleep_time' = setup.polling_interval /\ poll' = TRUE
    BY <1>3 DEF Aside, Boot, Resurrect, Check, vars, module
  <2>2. slow' \/ UNCHANGED <<left, last_heartbeat, phase, polled, sleep_time, poll, slow>>
    BY <1>3, AsideSlow DEF module
  <2> QED BY <1>1, <2>1, <2>2 DEF Temperature, Silence, Seconds
<1>4. CASE \E d \in Work[Kind] : TemperatureRound(d)
  BY <1>4, TemperatureRoundTimely
<1>5. CASE Tick
  <2>1. Seconds(left) \in Nat
        /\ Seconds(left)' = IF phase' = 0 THEN Seconds(left) - 1 ELSE Seconds(left)
    BY <1>5, SecondsLess
  <2>2. polled' = IF phase' = 0 THEN polled + 1 ELSE polled
    BY <1>5 DEF Tick
  <2>3. Silence' = Silence /\ UNCHANGED <<slow, sleep_time, poll>>
    BY <1>5, TickSilence DEF Tick
  <2>4. polled \in Nat /\ sleep_time \in Nat
    BY Setup DEF TInv, Types
  <2>5. polled' + Seconds(left)' = polled + Seconds(left)
    BY <2>1, <2>2, <2>4
  <2> QED BY <1>1, <2>3, <2>5 DEF Temperature
<1> QED BY <1>2, <1>3, <1>4, <1>5

-------------------------------------------------------------------------------
(* The other modules *)

LEMMA SleepingTimely ==
  ASSUME TInv, Placed, Sleeping, Kind \in {"streaming", "trigger"}, [Next]_vars
  PROVE  Sleeping'
<1>1. Aside \/ SleepRound \/ Tick
  BY DEF Next, Placed, Aside, TemperatureRound, TakeAction, VideoRound, WarmedUp,
     AwaitMessage, NoMessage, ActionTaken, Listen, Hear, Raise, Replied, Ready
<1>2. CASE Aside
  BY <1>2, AsideSlow DEF Sleeping, Silence, module
<1>3. CASE SleepRound
  BY <1>3, Constants DEF SleepRound, Beat, Sleeping, Silence, HEARTBEAT
<1>4. CASE Tick
  BY <1>4, TickSilence DEF Tick, Sleeping
<1> QED BY <1>1, <1>2, <1>3, <1>4

LEMMA WaitingTimely ==
  ASSUME TInv, Placed, Waiting, Kind \in {"mail", "firebase"}, [Next]_vars
  PROVE  Waiting'
<1>1. \/ Aside \/ AwaitMessage \/ NoMessage \/ ActionTaken \/ Tick
      \/ \E d \in Work[Kind] : TakeAction(d)
  BY DEF Next, Placed, Aside, TemperatureRound, VideoRound, WarmedUp, SleepRound,
     Listen, Hear, Raise, Replied, Ready
<1>2. Receive(Kind)' = Receive(Kind) /\ Receive(Kind) \in Nat
  BY SameModule, Constants DEF Receive, HEARTBEAT
<1>3. CASE Aside
  BY <1>2, <1>3, AsideSlow DEF Waiting, Silence, module
<1>4. CASE AwaitMessage
  BY <1>2, <1>4 DEF AwaitMessage, Beat, Waiting, Silence
<1>5. CASE NoMessage \/ ActionTaken
  BY <1>2, <1>5 DEF NoMessage, ActionTaken, Waiting, Silence, core
<1>6. CASE Tick
  BY <1>2, <1>6, TickSilence DEF Tick, Waiting
<1>7. ASSUME NEW d \in Work[Kind], TakeAction(d) PROVE Waiting'
  <2>1. d \in Nat
    BY Setup DEF TInv
  <2> SUFFICES ASSUME ~slow' PROVE Silence' <= Receive(Kind)
    BY <1>2 DEF Waiting
  <2>2. Kind = "mail" /\ ~(d > Receive(Kind))
    BY <1>7 DEF TakeAction
  <2>3. left' = d /\ last_heartbeat' = 0
    BY <1>7, <2>2 DEF TakeAction, Beat
  <2> QED BY <1>2, <2>1, <2>2, <2>3 DEF Silence
<1> QED BY <1>1, <1>3, <1>4, <1>5, <1>6, <1>7

LEMMA VideoTimely ==
  ASSUME TInv, Placed, Video, Kind = "video", [Next]_vars
  PROVE  Video'
<1>1. Aside \/ WarmedUp \/ Tick \/ \E d \in Work[Kind] : VideoRound(d)
  BY DEF Next, Placed, Aside, TemperatureRound, TakeAction, SleepRound, AwaitMessage,
     NoMessage, ActionTaken, Listen, Hear, Raise, Replied, Ready
<1>2. setup' = setup /\ Kind' = Kind
  BY SameModule
<1>3. CASE Aside
  BY <1>2, <1>3, AsideSlow DEF Video, Silence, module
<1>4. CASE WarmedUp
  BY <1>4 DEF WarmedUp, Ready, Video
<1>5. CASE Tick
  <2> SUFFICES ASSUME ~slow' PROVE mark' = UpTo(last_heartbeat', 6 * SECOND)
    BY <1>2, <1>5, TickSilence DEF Tick, Video
  <2>1. ~slow /\ pc = "loop" /\ mark' = UpTo(mark + 1, 6 * SECOND)
    BY <1>5 DEF Tick, Video
  <2> QED BY <1>5, <2>1, TickSilence, Constants DEF Video, UpTo
<1>6. ASSUME NEW d \in Work[Kind], VideoRound(d) PROVE Video'
  <2>1. d \in Nat /\ setup.enabled_ \in BOOLEAN
    BY Setup DEF TInv
  <2>2. left = 0 /\ pc = "loop" /\ pc' = "loop"
    BY <1>6 DEF VideoRound, Ready
  <2> SUFFICES ASSUME ~slow' PROVE
                 /\ mark' = UpTo(last_heartbeat', 6 * SECOND)
                 /\ setup.enabled_ => Silence' <= SECOND * HEARTBEAT
                 /\ ~setup.enabled_ => Silence' = SECOND * (HEARTBEAT - 2)
    BY <1>2, <2>2 DEF Video
  <2>3. ~(d > 4 * SECOND /\ setup.enabled_) /\ (~slow \/ mark >= 6 * SECOND)
    BY <1>6 DEF VideoRound
  <2>4. left' = IF setup.enabled_ THEN Larger(d, 1) ELSE SECOND * (HEARTBEAT - 2)
    BY <1>6 DEF VideoRound
  <2>5. setup.enabled_ => left' \in Nat /\ left' <= 4 * SECOND
    BY <2>1, <2>3, <2>4, Constants DEF Larger
  <2>6. CASE mark >= 6 * SECOND
    <3>1. mark' = 0 /\ last_heartbeat' = 0
      BY <1>6, <2>6 DEF VideoRound, Beat
    <3> QED BY <2>4, <2>5, <3>1, Constants DEF Silence, UpTo, HEARTBEAT
  <2>7. CASE ~(mark >= 6 * SECOND)
    <3>1. mark' = mark /\ last_heartbeat' = last_heartbeat /\ ~slow
      BY <1>6, <2>3, <2>7 DEF VideoRound, NoBeat
    <3>2. mark = last_heartbeat /\ last_heartbeat \in Nat /\ last_heartbeat < 6 * SECOND
      BY <2>7, <3>1, Constants DEF Video, UpTo, TInv, Types
    <3>3. setup.enabled_
      BY <2>1, <2>2, <3>1, <3>2, Constants DEF Video, Silence, HEARTBEAT
    <3> QED BY <2>5, <3>1, <3>2, <3>3, Constants DEF Silence, UpTo, HEARTBEAT
  <2> QED BY <2>6, <2>7
<1> QED BY <1>1, <1>3, <1>4, <1>5, <1>6

\* A full second more, at most.
LEMMA ListenLimit ==
  ASSUME TInv, NEW m \in Nat, NEW base \in Nat, m < 4,
         last_heartbeat <= base + m * SECOND + phase
  PROVE  last_heartbeat + 1 <= base + 4 * SECOND
<1>1. m \in {0, 1, 2, 3} /\ last_heartbeat \in Nat /\ phase \in Nat /\ phase < SECOND
  BY Constants DEF TInv, Types
<1>2. m * SECOND <= 3 * SECOND /\ m * SECOND \in Nat
  BY <1>1, Constants
<1> QED BY <1>1, <1>2, Constants

LEMMA Transitive ==
  ASSUME NEW a \in Nat, NEW b \in Nat, NEW c \in Nat, a <= b, b <= c
  PROVE  a <= c
  OBVIOUS

LEMMA WithinLimit ==
  ASSUME NEW m \in Nat, NEW p \in Nat, NEW silence \in Nat, silence <= 30 * SECOND
  PROVE  silence <= 30 * SECOND + m * SECOND + p
<1>1. m * SECOND \in Nat
  BY Whole
<1> QED BY <1>1, Constants

LEMMA TickLimit ==
  ASSUME TInv, Tick, Kind = "noise", NEW base \in Nat,
         mark < 4 => last_heartbeat <= base + mark * SECOND + phase, mark' < 4
  PROVE  last_heartbeat' <= base + mark' * SECOND + phase'
<1>1. mark \in Nat /\ phase \in Nat /\ last_heartbeat' = last_heartbeat + 1
      /\ last_heartbeat \in Nat
  BY TickSilence, Constants DEF TInv, Types
<1>2. phase' = IF phase + 1 = SECOND THEN 0 ELSE phase + 1
  BY NextPhase
<1>3. mark' = IF phase' = 0 THEN UpTo(mark + 1, 4) ELSE mark
  BY DEF Tick
<1>4. CASE phase' = 0
  <2>1. mark' = mark + 1 /\ mark \in {0, 1, 2}
    BY <1>1, <1>3, <1>4 DEF UpTo
  <2>2. mark' * SECOND = mark * SECOND + SECOND /\ mark * SECOND \in Nat
    BY <2>1, Constants
  <2> QED BY <1>1, <1>2, <1>4, <2>1, <2>2, Constants
<1>5. CASE phase' # 0
  <2>1. mark' = mark /\ phase' = phase + 1 /\ mark * SECOND \in Nat
    BY <1>1, <1>2, <1>3, <1>5, Constants
  <2> QED BY <1>1, <2>1
<1> QED BY <1>4, <1>5

LEMMA NoiseTimely ==
  ASSUME TInv, Placed, Noise, Kind = "noise", [Next]_vars
  PROVE  Noise'
<1>1. \/ Aside \/ Listen \/ Hear \/ Replied \/ Tick
      \/ \E n \in 1 .. MaxRules : Raise(n)
  BY DEF Next, Placed, Aside, TemperatureRound, TakeAction, VideoRound, WarmedUp,
     SleepRound, AwaitMessage, NoMessage, ActionTaken, Ready
<1>2. CASE Aside
  BY <1>2, AsideSlow DEF Noise, Silence, module
<1>3. CASE Listen
  <2> SUFFICES ASSUME ~slow' PROVE Noise'
    BY DEF Noise
  <2>1. pc' = "loop" /\ marked' /\ left' = 1 /\ phase' = phase /\ left = 0
    BY <1>3 DEF Listen, Ready
  <2>2. CASE marked /\ mark >= 4
    <3>1. last_heartbeat' = 0 /\ mark' = 0
      BY <1>3, <2>2 DEF Listen, Beat
    <3>2. phase \in Nat
      BY Constants DEF TInv, Types
    <3> QED BY <2>1, <3>1, <3>2, Constants DEF Noise, Silence
  <2>3. CASE ~(marked /\ mark >= 4)
    <3>1. ~slow /\ last_heartbeat' = last_heartbeat
      BY <1>3, <2>3 DEF Listen, NoBeat
    <3>2. marked /\ mark \in Nat /\ mark < 4 /\ mark' = mark
      BY <1>3, <2>3, <3>1 DEF Listen, Noise, TInv, Types
    <3>3. last_heartbeat <= mark * SECOND + phase
      BY <3>1, <3>2 DEF Noise
    <3>4. mark * SECOND \in Nat /\ phase \in Nat
      BY <3>2, Constants DEF TInv, Types
    <3>5. last_heartbeat <= 0 + mark * SECOND + phase
      BY <3>3, <3>4
    <3>6. last_heartbeat + 1 <= 0 + 4 * SECOND
      BY <3>2, <3>5, ListenLimit, Zenon DEF TInv
    <3>7. Silence' <= 4 * SECOND
      BY <2>1, <3>1, <3>6, Constants DEF Silence, TInv, Types
    <3> QED BY <2>1, <3>1, <3>2, <3>3, <3>7 DEF Noise
  <2> QED BY <2>2, <2>3
<1>4. CASE Hear
  BY <1>4 DEF Hear, Noise
<1>5. ASSUME NEW n \in 1 .. MaxRules, Raise(n) PROVE Noise'
  BY <1>5 DEF Raise, Ready, Noise
<1>6. CASE Replied
  BY <1>6 DEF Replied, Noise
<1>7. CASE Tick
  <2> SUFFICES ASSUME ~slow' PROVE mark' < 4 => last_heartbeat' <= mark' * SECOND + phase'
    BY <1>7, TickSilence DEF Tick, Noise
  <2> SUFFICES ASSUME mark' < 4 PROVE last_heartbeat' <= mark' * SECOND + phase'
    OBVIOUS
  <2>1. ~slow
    BY <1>7 DEF Tick
  <2>2. mark \in Nat /\ mark' \in Nat /\ phase \in Nat /\ phase' \in Nat
    BY <1>7, TickGood, Constants DEF TInv, Types
  <2>3. mark < 4 => last_heartbeat <= 0 + mark * SECOND + phase
    <3>1. mark * SECOND \in Nat
      BY <2>2, Constants
    <3> QED BY <2>1, <2>2, <3>1 DEF Noise
  <2>4. last_heartbeat' <= 0 + mark' * SECOND + phase'
    BY <1>7, <2>3, TickLimit, Zenon
  <2>5. mark' * SECOND \in Nat
    BY <2>2, Whole, Zenon
  <2> QED BY <2>2, <2>4, <2>5
<1> QED BY <1>1, <1>2, <1>3, <1>4, <1>5, <1>6, <1>7

LEMMA NothingPolled ==
  ASSUME KInv, Kind # "temperature", [Next]_vars
  PROVE  polled' = 0
  BY DEF KInv, Next, vars, Boot, TemperatureRound, TakeAction, VideoRound, WarmedUp,
     SleepRound, AwaitMessage, NoMessage, ActionTaken, Listen, Hear, Raise, Replied,
     Check, Resurrect, Tick

LEMMA InitHolds == Init => IInv
  BY InitGood, InitTimely DEF IInv

LEMMA NextHolds == IInv /\ [Next]_vars => IInv'
<1> SUFFICES ASSUME IInv, [Next]_vars PROVE IInv'
  OBVIOUS
<1>1. TInv /\ KInv /\ TInv' /\ Placed /\ Placed' /\ Kind' = Kind
  BY NextGood, PlacedGood, SameModule DEF IInv, KInv
<1>2. Kind = "temperature" => Temperature'
  BY <1>1, TemperatureTimely DEF KInv
<1>3. Kind \in {"streaming", "trigger"} => Sleeping'
  BY <1>1, SleepingTimely DEF KInv
<1>4. Kind \in {"mail", "firebase"} => Waiting'
  BY <1>1, WaitingTimely DEF KInv
<1>5. Kind = "video" => Video'
  BY <1>1, VideoTimely DEF KInv
<1>6. Kind = "noise" => Noise'
  BY <1>1, NoiseTimely DEF KInv
<1>7. Kind # "temperature" => polled' = 0
  BY <1>1, NothingPolled
<1> QED BY <1>1, <1>2, <1>3, <1>4, <1>5, <1>6, <1>7 DEF IInv, KInv

\* A module is late for a heartbeat only if its work took longer than it allows for,
\* whatever a second is made of and wherever in it the module starts.
THEOREM LateOnlyIfSlow == Spec => []InTime
<1>1. IInv => InTime
  <2> SUFFICES ASSUME IInv, ~slow PROVE ~Overdue
    BY DEF InTime
  <2>1. Types /\ Kind \in Kinds /\ pc # "boot" /\ heartbeat_interval = Interval(Kind)
    BY Setup DEF IInv, TInv, Started
  <2>2. last_heartbeat \in Nat /\ left \in Nat
    BY <2>1 DEF Types
  <2>3. Interval(Kind) = SECOND * (IF Kind = "temperature" THEN 12
                                   ELSE IF Kind = "noise" THEN 4
                                   ELSE IF Kind = "firebase" THEN 1 ELSE 10)
    BY <2>1, Intervals
  <2>4. Silence <= Interval(Kind)
    <3>1. CASE Kind = "temperature"
      BY <2>2, <2>3, <3>1, Constants DEF IInv, KInv, Temperature, Silence, HEARTBEAT
    <3>2. CASE Kind \in {"streaming", "trigger"}
      BY <2>2, <2>3, <3>2, Constants DEF IInv, KInv, Sleeping, HEARTBEAT
    <3>3. CASE Kind \in {"mail", "firebase"}
      BY <2>2, <2>3, <3>3, Constants DEF IInv, KInv, Waiting, Receive, HEARTBEAT
    <3>4. CASE Kind = "video"
      <4>1. setup.enabled_ \in BOOLEAN
        BY <2>1, Setup
      <4>2. Silence <= SECOND * HEARTBEAT
        BY <2>2, <3>4, <4>1, Constants DEF IInv, KInv, Video, Silence, HEARTBEAT
      <4> QED BY <2>2, <2>3, <3>4, <4>2, Constants DEF HEARTBEAT
    <3>5. CASE Kind = "noise"
      BY <2>2, <2>3, <3>5, Constants DEF IInv, KInv, Noise
    <3> QED BY <2>1, <3>1, <3>2, <3>3, <3>4, <3>5 DEF Kinds
  <2> QED BY <2>1, <2>2, <2>4, Setup DEF Overdue, Silence
<1> QED BY <1>1, InitHolds, NextHolds, PTL DEF Spec

\* The time between two readings is the polling interval, to the second.
THEOREM PollingInterval == Spec => PollsOnTime
<1>1. IInv /\ [Next]_vars =>
        [polled > 0 /\ polled' = 0 => polled = setup.polling_interval \/ slow \/ GivenUp]_vars
  <2> SUFFICES ASSUME IInv, Next, polled > 0, polled' = 0, ~slow, ~GivenUp
               PROVE  polled = setup.polling_interval
    OBVIOUS
  <2>1. Types /\ Kind = "temperature"
    BY DEF IInv, TInv, KInv
  <2>2. PICK d \in Work[Kind] : TemperatureRound(d)
    BY <2>1 DEF Types, Next, Boot, TakeAction, VideoRound, WarmedUp, SleepRound,
       AwaitMessage, NoMessage, ActionTaken, Listen, Hear, Raise, Replied, Check,
       Resurrect, Tick, core
  <2>3. poll /\ left = 0
    BY <2>1, <2>2 DEF TemperatureRound, Ready, Types
  <2>4. Seconds(left) = 0
    BY <2>1, <2>3, SecondsNone
  <2> QED BY <2>1, <2>3, <2>4 DEF IInv, KInv, Temperature, Types
<1> QED BY <1>1, InitHolds, NextHolds, PTL DEF Spec, PollsOnTime

-------------------------------------------------------------------------------
(* How long a module is silent, if its work is short *)

\* Every missed heartbeat but the first took the watchdog another interval to find.
Watched ==
  missed_heartbeats > 0 =>
    last_heartbeat + check > heartbeat_interval + missed_heartbeats * CHECK_INTERVAL

Quiet == (Kind = "noise" => events.raised <= 1) => Silence <= Patience(Kind)

\* A camera that warms up, and then the frames until a heartbeat is due.
VideoQuiet ==
  /\ pc = "warm" => \E d \in Work[Kind] : Silence <= SECOND \div 2 + d
  /\ pc = "loop" /\ mark < 6 * SECOND =>
       \E d \in Work[Kind] : last_heartbeat <= SECOND \div 2 + d + mark
  /\ pc = "loop" /\ ~setup.enabled_ => (mark = 0 /\ left = 0) \/ mark + left >= 6 * SECOND

\* One reply, and then the rounds until a heartbeat is due.
NoiseQuiet ==
  events.raised <= 1 =>
    /\ pc = "wait" => Silence <= 30 * SECOND /\ events.due = events.raised
    /\ pc = "loop" /\ ~marked => Silence <= 30 * SECOND
    /\ pc = "loop" /\ mark < 4 => last_heartbeat <= 30 * SECOND + mark * SECOND + phase

SInv ==
  /\ Watched /\ Quiet
  /\ Kind = "firebase" /\ pc = "wait" => Silence <= Receive(Kind)
  /\ Kind = "video" => VideoQuiet
  /\ Kind = "noise" => NoiseQuiet

LEMMA PatienceNat ==
  ASSUME Types
  PROVE  /\ Patience(Kind) \in Nat /\ Interval(Kind) \in Nat
         /\ Interval(Kind) <= Patience(Kind)
<1> DEFINE grace == (MAX_MISSED_HEARTBEATS - 1) * CHECK_INTERVAL
<1>1. grace \in Nat
  BY Constants
<1>2. Interval(Kind) \in Nat
  BY Setup
<1>3. Patience(Kind) = Interval(Kind) + grace
  BY DEF Patience
<1> HIDE DEF grace
<1> QED BY <1>1, <1>2, <1>3

LEMMA InitQuiet == Init => SInv
<1> SUFFICES ASSUME Init PROVE SInv
  OBVIOUS
<1>1. Silence = 0 /\ missed_heartbeats = 0 /\ pc = "boot"
  BY DEF Init, Silence
<1>2. Types
  BY InitGood DEF TInv
<1>3. Quiet
  BY <1>1, <1>2, PatienceNat DEF Quiet
<1> QED BY <1>1, <1>3 DEF SInv, Watched, VideoQuiet, NoiseQuiet

LEMMA BeatWatched ==
  ASSUME TInv, Watched, NoBeat, check' = check, heartbeat_interval' = heartbeat_interval
  PROVE  Watched'
  BY DEF NoBeat, Watched

LEMMA WatchedGood == ASSUME TInv, Watched, [Next]_vars PROVE Watched'
<1>1. CASE Beat \/ Resurrect
  BY <1>1 DEF Beat, Resurrect, Watched
<1>2. CASE \E d \in Work[Kind] : Boot(d)
  BY <1>2 DEF Boot, Ready, Beat, NoBeat, TInv, Started, Watched
<1>3. CASE NoBeat /\ check' = check /\ heartbeat_interval' = heartbeat_interval
  BY <1>3, BeatWatched
<1>4. CASE Check
  <2>1. missed_heartbeats \in Nat /\ last_heartbeat \in Nat /\ heartbeat_interval \in Nat
    BY Constants DEF TInv, Types
  <2>2. check = 0 /\ check' = CHECK_INTERVAL /\ last_heartbeat' = last_heartbeat
        /\ heartbeat_interval' = heartbeat_interval
    BY <1>4 DEF Check
  <2>3. missed_heartbeats * CHECK_INTERVAL \in Nat
        /\ (missed_heartbeats + 1) * CHECK_INTERVAL
             = missed_heartbeats * CHECK_INTERVAL + CHECK_INTERVAL
    BY <2>1, Constants
  <2>4. missed_heartbeats > 0 =>
          last_heartbeat > heartbeat_interval + missed_heartbeats * CHECK_INTERVAL
    BY <2>1, <2>2, <2>3 DEF Watched
  <2>5. CASE Overdue
    <3>1. missed_heartbeats' = missed_heartbeats + 1
      BY <1>4, <2>5 DEF Check
    <3>2. last_heartbeat > heartbeat_interval + missed_heartbeats * CHECK_INTERVAL
      <4>1. CASE missed_heartbeats = 0
        <5>1. missed_heartbeats * CHECK_INTERVAL = 0
          BY <4>1, Constants
        <5> QED BY <2>1, <2>5, <5>1 DEF Overdue
      <4> QED BY <2>1, <2>4, <4>1
    <3>3. last_heartbeat' + check'
            > heartbeat_interval' + (missed_heartbeats + 1) * CHECK_INTERVAL
      BY <2>1, <2>2, <2>3, <3>2, Constants
    <3> QED BY <3>1, <3>3 DEF Watched
  <2>6. CASE ~Overdue
    <3>1. missed_heartbeats' = missed_heartbeats
      BY <1>4, <2>6 DEF Check
    <3>2. missed_heartbeats = 0
      BY <2>1, <2>3, <2>4, <2>6 DEF Overdue
    <3> QED BY <3>1, <3>2 DEF Watched
  <2> QED BY <2>5, <2>6
<1>5. CASE Tick
  <2>1. last_heartbeat' + check' = last_heartbeat + check
    BY <1>5, Constants DEF Tick, TInv, Types
  <2> QED BY <1>5, <2>1 DEF Tick, Watched
<1>6. CASE UNCHANGED <<core, check>>
  BY <1>6 DEF core, Watched
<1>7. \/ Beat \/ Resurrect \/ (\E d \in Work[Kind] : Boot(d))
      \/ NoBeat /\ check' = check /\ heartbeat_interval' = heartbeat_interval
      \/ Check \/ Tick \/ UNCHANGED <<core, check>>
  BY DEF Next, vars, TemperatureRound, TakeAction, VideoRound, WarmedUp,
     SleepRound, AwaitMessage, NoMessage, ActionTaken, Listen, Hear, Raise, Replied
<1> QED BY <1>1, <1>2, <1>3, <1>4, <1>5, <1>6, <1>7

-------------------------------------------------------------------------------

\* A module that starts, starts again or is looked at.
LEMMA AsideQuiet ==
  ASSUME TInv, Aside, Kind # "video"
  PROVE  /\ Silence' = 0 \/ Silence' = Silence
         /\ \/ Silence' = 0 /\ last_heartbeat' = 0 /\ pc' \in {"boot", "loop"}
            \/ UNCHANGED <<module, last_heartbeat, phase>>
<1>1. CASE \E d \in Work[Kind] : Boot(d)
  BY <1>1 DEF Boot, Ready, Beat, NoBeat, TInv, Started, Silence
<1>2. CASE Resurrect
  BY <1>2 DEF Resurrect, Silence
<1>3. CASE Check \/ UNCHANGED vars
  BY <1>3 DEF Check, vars, module, core, Silence
<1> QED BY <1>1, <1>2, <1>3 DEF Aside

\* Short work, for the module there is.
LEMMA Short ==
  ASSUME ShortWork, TInv, NEW d \in Work[Kind]
  PROVE  /\ Kind \in {"temperature", "mail"} => d <= Patience(Kind)
         /\ Kind = "firebase" => Receive(Kind) + d <= Patience(Kind)
         /\ Kind = "video" =>
              /\ \A e \in Work[Kind] :
                   SECOND \div 2 + d + 6 * SECOND - 1 + Larger(e, 1) <= Patience(Kind)
              /\ SECOND \div 2 + d + SECOND * (HEARTBEAT - 2) <= Patience(Kind)
  BY DEF ShortWork, Kind, TInv, Types

LEMMA TemperatureQuiet ==
  ASSUME ShortWork, IInv, Quiet, Kind = "temperature", [Next]_vars
  PROVE  Quiet'
<1>1. Aside \/ (\E d \in Work[Kind] : TemperatureRound(d)) \/ Tick
  BY DEF IInv, KInv, Next, Placed, Aside, TakeAction, VideoRound, WarmedUp,
     SleepRound, AwaitMessage, NoMessage, ActionTaken, Listen, Hear, Raise, Replied, Ready
<1>2. TInv /\ Patience(Kind)' = Patience(Kind) /\ Patience(Kind) \in Nat /\ Kind' = Kind
  BY SameModule, PatienceNat DEF IInv, TInv, Patience
<1>3. SUFFICES Silence' <= Patience(Kind)
  BY <1>2 DEF Quiet
<1>4. CASE Aside
  BY <1>2, <1>4, AsideQuiet DEF Quiet
<1>5. ASSUME NEW d \in Work[Kind], TemperatureRound(d) PROVE Silence' <= Patience(Kind)
  <2> DEFINE s  == Restored(sleep_time)
             lt == Seconds(d)
             u  == UpTo(s, HEARTBEAT)
  <2>1. d \in Nat /\ d <= Patience(Kind) /\ setup.polling_interval \in Nat
    BY <1>2, Setup, Short DEF TInv
  <2>2. s \in Nat
    BY <1>2, <2>1 DEF TInv, Types, Restored
  <2>3. u \in Nat /\ u <= HEARTBEAT
    BY <2>2 DEF UpTo, HEARTBEAT
  <2>4. lt \in Nat
    BY <1>2, <2>1, SecondsMore DEF TInv
  <2>5. left' = d + SECOND * Asleep(s, lt) /\ last_heartbeat' = 0
    BY <1>5 DEF TemperatureRound, Beat
  <2>6. CASE lt <= u
    <3>1. Asleep(s, lt) = u - lt /\ u - lt \in Nat
      BY <2>3, <2>4, <2>6 DEF Asleep, Less, HEARTBEAT
    <3>2. d + SECOND * (u - lt) < SECOND + SECOND * (lt + (u - lt))
      BY <1>2, <2>1, <3>1, SecondsMore, Zenon DEF TInv
    <3>3. lt + (u - lt) = u
      BY <2>3, <2>4
    <3>4. SECOND * u <= SECOND * HEARTBEAT /\ SECOND * u \in Nat
      BY <2>3, Monotone, Product, Constants DEF HEARTBEAT
    <3>5. left' < SECOND + SECOND * u /\ left' \in Nat
      BY <1>5, <2>5, <3>1, <3>2, <3>3, TemperatureRoundGood DEF IInv, TInv, Types
    <3>6. 12 * SECOND <= Patience(Kind)
      <4>1. Interval(Kind) = SECOND * 12
        BY Intervals DEF Kinds
      <4> QED BY <1>2, <4>1, PatienceNat, Constants DEF TInv
    <3> HIDE DEF s, lt, u
    <3> QED BY <1>2, <2>5, <3>4, <3>5, <3>6, Constants DEF Silence, HEARTBEAT
  <2>7. CASE ~(lt <= u)
    <3>1. Asleep(s, lt) = 0
      BY <2>3, <2>4, <2>7 DEF Asleep, Less, HEARTBEAT
    <3>2. SECOND * 0 = 0
      BY Constants
    <3>3. left' = d
      BY <2>1, <2>5, <3>1, <3>2
    <3> QED BY <2>1, <2>5, <3>3 DEF Silence
  <2> QED BY <2>6, <2>7
<1>6. CASE Tick
  BY <1>2, <1>6, TickSilence DEF Quiet
<1> QED BY <1>1, <1>4, <1>5, <1>6

LEMMA SleepingQuiet ==
  ASSUME IInv, Quiet, Kind \in {"streaming", "trigger"}, [Next]_vars
  PROVE  Quiet'
<1>1. Aside \/ SleepRound \/ Tick
  BY DEF IInv, KInv, Next, Placed, Aside, TemperatureRound, TakeAction, VideoRound, WarmedUp,
     AwaitMessage, NoMessage, ActionTaken, Listen, Hear, Raise, Replied, Ready
<1>2. TInv /\ Patience(Kind)' = Patience(Kind) /\ Patience(Kind) \in Nat /\ Kind' = Kind
  BY SameModule, PatienceNat DEF IInv, TInv, Patience
<1>3. SUFFICES Silence' <= Patience(Kind)
  BY <1>2 DEF Quiet
<1>4. CASE Aside
  BY <1>2, <1>4, AsideQuiet DEF Quiet
<1>5. CASE SleepRound
  <2>1. Interval(Kind) = SECOND * 10
    BY Intervals DEF Kinds
  <2>2. Interval(Kind) <= Patience(Kind)
    BY <1>2, PatienceNat DEF TInv
  <2> QED BY <1>2, <1>5, <2>1, <2>2, Constants DEF SleepRound, Beat, Silence, HEARTBEAT
<1>6. CASE Tick
  BY <1>2, <1>6, TickSilence DEF Quiet
<1> QED BY <1>1, <1>4, <1>5, <1>6

LEMMA WaitingQuiet ==
  ASSUME ShortWork, IInv, SInv, Kind \in {"mail", "firebase"}, [Next]_vars
  PROVE  Quiet' /\ (Kind = "firebase" /\ pc' = "wait" => Silence' <= Receive(Kind))
<1>1. \/ Aside \/ AwaitMessage \/ NoMessage \/ ActionTaken \/ Tick
      \/ \E d \in Work[Kind] : TakeAction(d)
  BY DEF IInv, KInv, Next, Placed, Aside, TemperatureRound, VideoRound, WarmedUp, SleepRound,
     Listen, Hear, Raise, Replied, Ready
<1>2. TInv /\ Patience(Kind)' = Patience(Kind) /\ Patience(Kind) \in Nat /\ Kind' = Kind
  BY SameModule, PatienceNat DEF IInv, TInv, Patience
<1>3. Receive(Kind) = Interval(Kind) /\ Receive(Kind) \in Nat /\ Receive(Kind) <= Patience(Kind)
  <2>1. Receive(Kind) = Interval(Kind)
    BY Intervals DEF Kinds, Receive, HEARTBEAT
  <2> QED BY <1>2, <2>1, PatienceNat DEF TInv
<1>4. Silence <= Patience(Kind) /\ left \in Nat /\ last_heartbeat \in Nat
      /\ (Kind = "firebase" /\ pc = "wait" => Silence <= Receive(Kind))
  BY <1>2 DEF SInv, Quiet, TInv, Types
<1>5. SUFFICES /\ Silence' <= Patience(Kind)
               /\ Kind = "firebase" /\ pc' = "wait" => Silence' <= Receive(Kind)
  BY <1>2 DEF Quiet
<1>6. CASE Aside
  BY <1>2, <1>3, <1>4, <1>6, AsideQuiet DEF Silence, module
<1>7. CASE AwaitMessage
  BY <1>3, <1>7 DEF AwaitMessage, Beat, Silence
<1>8. CASE NoMessage \/ ActionTaken
  BY <1>4, <1>8 DEF NoMessage, ActionTaken, Silence, core
<1>9. CASE Tick
  BY <1>2, <1>4, <1>9, TickSilence DEF Tick
<1>10. ASSUME NEW d \in Work[Kind], TakeAction(d)
       PROVE  Silence' <= Patience(Kind) /\ pc' # "wait"
  <2>1. d \in Nat
    BY <1>2, Setup DEF TInv
  <2>2. left' = d /\ pc' = "act" /\ pc = "wait"
    BY <1>10 DEF TakeAction
  <2>3. CASE Kind = "mail"
    BY <1>2, <1>10, <2>1, <2>2, <2>3, Short DEF TakeAction, Beat, Silence
  <2>4. CASE Kind = "firebase"
    <3>1. last_heartbeat' = last_heartbeat
      BY <1>10, <2>4 DEF TakeAction, NoBeat
    <3>2. Receive(Kind) + d <= Patience(Kind)
      BY <1>2, <2>4, Short
    <3>3. last_heartbeat <= Receive(Kind)
      BY <1>3, <1>4, <2>2, <2>4 DEF Silence
    <3> QED BY <1>2, <1>3, <1>4, <2>1, <2>2, <3>1, <3>2, <3>3 DEF Silence
  <2> QED BY <2>2, <2>3, <2>4
<1> QED BY <1>1, <1>6, <1>7, <1>8, <1>9, <1>10

LEMMA VideoStaysQuiet ==
  ASSUME ShortWork, IInv, Quiet, VideoQuiet, Kind = "video", [Next]_vars
  PROVE  Quiet' /\ VideoQuiet'
<1>1. Aside \/ WarmedUp \/ Tick \/ \E d \in Work[Kind] : VideoRound(d)
  BY DEF IInv, KInv, Next, Placed, Aside, TemperatureRound, TakeAction, SleepRound,
     AwaitMessage, NoMessage, ActionTaken, Listen, Hear, Raise, Replied, Ready
<1>2. TInv /\ Patience(Kind)' = Patience(Kind) /\ Patience(Kind) \in Nat /\ Kind' = Kind
      /\ setup' = setup
  BY SameModule, PatienceNat DEF IInv, TInv, Patience
<1>3. /\ SECOND \div 2 \in Nat /\ left \in Nat /\ last_heartbeat \in Nat /\ mark \in Nat
      /\ setup.enabled_ \in BOOLEAN /\ Work[Kind] \subseteq Nat
  BY <1>2, Setup, Constants DEF TInv, Types
<1>4. Silence <= Patience(Kind)
  BY DEF Quiet
<1>5. SUFFICES Silence' <= Patience(Kind) /\ VideoQuiet'
  BY <1>2 DEF Quiet
<1>6. ASSUME NEW d \in Work[Kind], Boot(d) PROVE Silence' <= Patience(Kind) /\ VideoQuiet'
  <2>1. pc' = "warm" /\ Silence' = SECOND \div 2 + d
    BY <1>3, <1>6 DEF Boot, Beat, Silence
  <2>2. SECOND \div 2 + d + SECOND * (HEARTBEAT - 2) <= Patience(Kind)
    BY <1>2, Short
  <2>3. Silence' <= Patience(Kind)
    BY <1>2, <1>3, <2>1, <2>2, Constants DEF HEARTBEAT
  <2> QED BY <1>2, <1>3, <2>1, <2>3 DEF VideoQuiet
<1>7. CASE Resurrect
  BY <1>2, <1>7 DEF Resurrect, Silence, VideoQuiet
<1>8. CASE Check \/ UNCHANGED vars
  BY <1>2, <1>4, <1>8 DEF Check, vars, core, module, Silence, VideoQuiet
<1>9. CASE WarmedUp
  <2>1. left = 0 /\ left' = 0 /\ pc = "warm" /\ pc' = "loop" /\ mark' = 0
        /\ last_heartbeat' = last_heartbeat
    BY <1>9 DEF WarmedUp, Ready, core
  <2>2. PICK d \in Work[Kind] : Silence <= SECOND \div 2 + d
    BY <2>1 DEF VideoQuiet
  <2>3. Silence' = Silence /\ d \in Nat /\ last_heartbeat' <= SECOND \div 2 + d + mark'
    BY <1>3, <2>1, <2>2 DEF Silence
  <2> QED BY <1>2, <1>4, <2>1, <2>3 DEF VideoQuiet
<1>10. CASE Tick
  <2>1. Silence' = Silence /\ pc' = pc /\ left' = left - 1 /\ left > 0
        /\ last_heartbeat' = last_heartbeat + 1
    BY <1>2, <1>10, TickSilence DEF Tick
  <2>2. pc = "loop" => mark' = UpTo(mark + 1, 6 * SECOND)
    BY <1>10 DEF Tick
  <2>3. ASSUME pc = "loop", mark' < 6 * SECOND
        PROVE  \E d \in Work[Kind] : last_heartbeat' <= SECOND \div 2 + d + mark'
    <3>1. mark' = mark + 1 /\ mark < 6 * SECOND
      BY <1>3, <2>2, <2>3, Constants DEF UpTo
    <3>2. PICK d \in Work[Kind] : last_heartbeat <= SECOND \div 2 + d + mark
      BY <2>3, <3>1 DEF VideoQuiet
    <3>3. last_heartbeat' <= SECOND \div 2 + d + mark'
      BY <1>3, <2>1, <3>1, <3>2
    <3> QED BY <3>3
  <2>4. ASSUME pc = "loop", ~setup.enabled_ PROVE mark' + left' >= 6 * SECOND
    BY <1>3, <2>1, <2>2, <2>4, Constants DEF VideoQuiet, UpTo
  <2> QED BY <1>2, <1>4, <2>1, <2>3, <2>4 DEF VideoQuiet
<1>11. ASSUME NEW d \in Work[Kind], VideoRound(d)
       PROVE  Silence' <= Patience(Kind) /\ VideoQuiet'
  <2>1. left = 0 /\ pc = "loop" /\ pc' = "loop" /\ d \in Nat
    BY <1>3, <1>11 DEF VideoRound, Ready
  <2>2. left' = IF setup.enabled_ THEN Larger(d, 1) ELSE SECOND * (HEARTBEAT - 2)
    BY <1>11 DEF VideoRound
  <2>3. Larger(d, 1) \in Nat
    BY <2>1 DEF Larger
  <2>4. ~setup.enabled_ => mark' + left' >= 6 * SECOND
    BY <1>3, <1>11, <2>2, Constants DEF VideoRound, HEARTBEAT
  <2>5. PICK c \in Work[Kind] : last_heartbeat' <= SECOND \div 2 + c + mark' /\ c \in Nat
                                /\ mark' < 6 * SECOND /\ mark' \in Nat
                                /\ last_heartbeat' \in Nat
                                /\ (~setup.enabled_ => mark' = 0)
    <3>1. CASE mark >= 6 * SECOND
      <4>1. mark' = 0 /\ last_heartbeat' = 0
        BY <1>11, <3>1 DEF VideoRound, Beat
      <4> QED BY <1>3, <2>1, <4>1, Constants
    <3>2. CASE ~(mark >= 6 * SECOND)
      <4>1. mark' = mark /\ last_heartbeat' = last_heartbeat
        BY <1>11, <3>2 DEF VideoRound, NoBeat
      <4>2. mark < 6 * SECOND
        BY <1>3, <3>2, Constants
      <4>3. PICK c \in Work[Kind] : last_heartbeat <= SECOND \div 2 + c + mark
        BY <2>1, <4>2 DEF VideoQuiet
      <4>4. ~setup.enabled_ => mark = 0
        BY <1>3, <2>1, <4>2, Constants DEF VideoQuiet
      <4> QED BY <1>3, <4>1, <4>2, <4>3, <4>4
    <3> QED BY <3>1, <3>2
  <2>6. Silence' <= Patience(Kind)
    <3> DEFINE half == SECOND \div 2
               most == Patience(Kind)
               beat == last_heartbeat'
               m    == mark'
               sil  == Silence'
    <3>1. /\ half \in Nat /\ most \in Nat /\ beat <= half + c + m
          /\ c \in Nat /\ m < 6 * SECOND /\ m \in Nat /\ beat \in Nat
          /\ ~setup.enabled_ => m = 0
      BY <1>2, <1>3, <2>5
    <3>2. CASE setup.enabled_
      <4>1. half + c + 6 * SECOND - 1 + Larger(d, 1) <= most
        BY <1>2, Short
      <4>2. sil = beat + Larger(d, 1)
        BY <2>2, <3>2 DEF Silence
      <4> HIDE DEF half, most, beat, m, sil
      <4>3. sil <= most
        BY <2>3, <3>1, <4>1, <4>2, Constants
      <4> QED BY <4>3 DEF sil, most
    <3>3. CASE ~setup.enabled_
      <4>1. half + c + SECOND * 8 <= most
        BY <1>2, Short DEF HEARTBEAT
      <4>2. sil = beat + SECOND * 8
        BY <2>2, <3>3 DEF Silence, HEARTBEAT
      <4> HIDE DEF half, most, beat, m, sil
      <4>3. sil <= most
        BY <3>1, <3>3, <4>1, <4>2, Constants
      <4> QED BY <4>3 DEF sil, most
    <3> QED BY <1>3, <3>2, <3>3
  <2> QED BY <1>2, <2>1, <2>4, <2>5, <2>6 DEF VideoQuiet
<1> QED BY <1>1, <1>6, <1>7, <1>8, <1>9, <1>10, <1>11 DEF Aside

LEMMA NoiseStaysQuiet ==
  ASSUME ShortWork, IInv, Quiet, NoiseQuiet, Kind = "noise", [Next]_vars
  PROVE  Quiet' /\ NoiseQuiet'
<1>1. \/ Aside \/ Listen \/ Hear \/ Replied \/ Tick
      \/ \E n \in 1 .. MaxRules : Raise(n)
  BY DEF IInv, KInv, Next, Placed, Aside, TemperatureRound, TakeAction, VideoRound,
     WarmedUp, SleepRound, AwaitMessage, NoMessage, ActionTaken, Ready
<1>2. TInv /\ Patience(Kind)' = Patience(Kind) /\ Patience(Kind) \in Nat /\ Kind' = Kind
      /\ TInv'
  BY SameModule, PatienceNat, NextGood DEF IInv, TInv, Patience
<1>3. 34 * SECOND <= Patience(Kind)
  <2>1. 30 * SECOND + 4 * SECOND <= Patience(Kind)
    BY <1>2 DEF ShortWork, Kind, TInv, Types
  <2> QED BY <2>1, Constants
<1>4. /\ left \in Nat /\ last_heartbeat \in Nat /\ mark \in Nat /\ phase \in Nat
      /\ left' \in Nat /\ last_heartbeat' \in Nat /\ mark' \in Nat /\ phase' \in Nat
  BY <1>2, Constants DEF TInv, Types
<1>5. mark * SECOND \in Nat /\ mark' * SECOND \in Nat
  BY <1>4, Whole, Zenon
<1>6. CASE Aside
  <2>1. \/ Silence' = 0 /\ last_heartbeat' = 0 /\ pc' \in {"boot", "loop"}
        \/ UNCHANGED <<module, last_heartbeat, phase>>
    BY <1>2, <1>6, AsideQuiet
  <2>2. CASE Silence' = 0 /\ last_heartbeat' = 0 /\ pc' \in {"boot", "loop"}
    <3>1. last_heartbeat' <= 30 * SECOND /\ Silence' <= 30 * SECOND
      BY <2>2, Constants
    <3>2. last_heartbeat' <= 30 * SECOND + mark' * SECOND + phase'
      BY <1>4, <3>1, WithinLimit, Zenon
    <3>3. Silence' <= Patience(Kind)
      BY <1>2, <2>2
    <3> QED BY <1>2, <2>2, <3>1, <3>2, <3>3 DEF Quiet, NoiseQuiet
  <2>3. CASE UNCHANGED <<module, last_heartbeat, phase>>
    BY <1>2, <2>3 DEF module, Quiet, NoiseQuiet, Silence
  <2> QED BY <2>1, <2>2, <2>3
<1>7. CASE Listen
  <2>1. pc = "loop" /\ pc' = "loop" /\ marked' /\ left' = 1 /\ left = 0
        /\ phase' = phase /\ events' = events
    BY <1>7 DEF Listen, Ready
  <2>2. SUFFICES ASSUME events.raised <= 1
                 PROVE  /\ last_heartbeat' + 1 <= 34 * SECOND
                        /\ mark' < 4 =>
                             last_heartbeat' <= 30 * SECOND + mark' * SECOND + phase'
    <3>1. Silence' = last_heartbeat' + 1
      BY <2>1 DEF Silence
    <3>2. last_heartbeat' + 1 <= 34 * SECOND => Silence' <= Patience(Kind)
      <4> DEFINE beat == last_heartbeat'
      <4>1. beat \in Nat
        BY <1>4
      <4>2. beat + 1 \in Nat /\ 34 * SECOND \in Nat
        <5> HIDE DEF beat
        <5> QED BY <4>1, Constants
      <4> QED BY <1>2, <1>3, <3>1, <4>2, Transitive, Zenon
    <3> QED BY <1>2, <2>1, <3>2 DEF Quiet, NoiseQuiet
  <2>3. CASE marked /\ mark >= 4
    <3>1. last_heartbeat' = 0 /\ last_heartbeat' <= 30 * SECOND
      BY <1>7, <2>3, Constants DEF Listen, Beat
    <3>2. last_heartbeat' <= 30 * SECOND + mark' * SECOND + phase'
      BY <1>4, <3>1, WithinLimit, Zenon
    <3>3. last_heartbeat' + 1 <= 34 * SECOND
      BY <3>1, Constants
    <3> QED BY <3>2, <3>3
  <2>4. CASE marked /\ ~(mark >= 4)
    <3>1. last_heartbeat' = last_heartbeat /\ mark' = mark /\ mark < 4
      BY <1>4, <1>7, <2>4 DEF Listen, NoBeat
    <3>2. last_heartbeat <= 30 * SECOND + mark * SECOND + phase
      BY <2>1, <2>2, <3>1 DEF NoiseQuiet
    <3>3. 30 * SECOND \in Nat
      BY Constants
    <3>4. last_heartbeat + 1 <= 30 * SECOND + 4 * SECOND
      BY <1>2, <1>4, <3>1, <3>2, <3>3, ListenLimit, Zenon
    <3> QED BY <2>1, <3>1, <3>2, <3>4, Constants
  <2>5. CASE ~marked
    <3>1. last_heartbeat' = last_heartbeat /\ mark' = 0
      BY <1>7, <2>5 DEF Listen, NoBeat
    <3>2. last_heartbeat <= 30 * SECOND
      BY <1>4, <2>1, <2>2, <2>5 DEF NoiseQuiet, Silence
    <3>3. last_heartbeat' <= 30 * SECOND + mark' * SECOND + phase'
      BY <1>4, <3>1, <3>2, WithinLimit, Zenon
    <3>4. last_heartbeat' + 1 <= 34 * SECOND
      BY <1>4, <3>1, <3>2, Constants
    <3> QED BY <3>3, <3>4
  <2> QED BY <2>3, <2>4, <2>5
<1>8. CASE Hear
  <2>1. Silence' = 3 * SECOND /\ pc' = "rules"
    BY <1>8, Constants DEF Hear, Beat, Silence
  <2> QED BY <1>2, <1>3, <2>1, Constants DEF Quiet, NoiseQuiet
<1>9. ASSUME NEW n \in 1 .. MaxRules, Raise(n) PROVE Quiet' /\ NoiseQuiet'
  <2>1. Silence' = 30 * SECOND /\ pc' = "wait" /\ events' = [raised |-> n, due |-> n]
    BY <1>9, Constants DEF Raise, Beat, Silence
  <2> QED BY <1>2, <1>3, <2>1, Constants DEF Quiet, NoiseQuiet
<1>10. CASE Replied
  <2>1. pc = "wait" /\ last_heartbeat' = last_heartbeat /\ phase' = phase
    BY <1>10 DEF Replied, core
  <2>2. events \in [raised : Nat, due : Nat] /\ events.due > 0
        /\ events' = [events EXCEPT !.due = @ - 1]
    BY <1>2, <1>10, <2>1 DEF Replied, TInv, Types, Bounds
  <2>3. events'.raised = events.raised
    BY <2>2
  <2>4. ASSUME events.raised <= 1
        PROVE  pc' = "loop" /\ left' = 0 /\ last_heartbeat <= 30 * SECOND
    <3>1. Silence <= 30 * SECOND /\ events.due = events.raised
      BY <2>1, <2>4 DEF NoiseQuiet
    <3>2. events.due = 1
      BY <2>2, <2>4, <3>1
    <3>3. pc' = "loop" /\ left' = 0
      BY <1>10, <3>2 DEF Replied
    <3> QED BY <1>4, <3>1, <3>3, Constants DEF Silence
  <2>5. ASSUME events.raised <= 1
        PROVE  /\ Silence' <= Patience(Kind) /\ Silence' <= 30 * SECOND
               /\ last_heartbeat' <= 30 * SECOND + mark' * SECOND + phase'
    <3>1. last_heartbeat' <= 30 * SECOND
      BY <2>1, <2>4, <2>5
    <3>2. Silence' = last_heartbeat /\ last_heartbeat <= 30 * SECOND
      <4>1. left' = 0 /\ last_heartbeat' = last_heartbeat /\ last_heartbeat <= 30 * SECOND
        BY <2>1, <2>4, <2>5
      <4>2. Silence' = last_heartbeat + 0
        BY <4>1 DEF Silence
      <4> QED BY <1>4, <4>1, <4>2
    <3>3. last_heartbeat' <= 30 * SECOND + mark' * SECOND + phase'
      BY <1>4, <3>1, WithinLimit, Zenon
    <3>4. last_heartbeat <= Patience(Kind)
      BY <1>2, <1>3, <1>4, <3>2, Constants
    <3> QED BY <3>2, <3>3, <3>4
  <2> QED BY <1>2, <2>3, <2>4, <2>5 DEF Quiet, NoiseQuiet
<1>11. CASE Tick
  <2>1. Silence' = Silence /\ UNCHANGED <<pc, marked, events>>
    BY <1>2, <1>11, TickSilence DEF Tick
  <2>2. ASSUME events.raised <= 1, pc = "loop", mark' < 4
        PROVE  last_heartbeat' <= 30 * SECOND + mark' * SECOND + phase'
    <3>1. 30 * SECOND \in Nat
      BY Constants
    <3>2. mark < 4 => last_heartbeat <= 30 * SECOND + mark * SECOND + phase
      BY <2>2 DEF NoiseQuiet
    <3> QED BY <1>2, <1>11, <2>2, <3>1, <3>2, TickLimit, Zenon
  <2> QED BY <1>2, <2>1, <2>2 DEF Quiet, NoiseQuiet
<1> QED BY <1>1, <1>6, <1>7, <1>8, <1>9, <1>10, <1>11

LEMMA NextQuiet == ShortWork /\ IInv /\ SInv /\ [Next]_vars => SInv'
<1> SUFFICES ASSUME ShortWork, IInv, SInv, [Next]_vars PROVE SInv'
  OBVIOUS
<1>1. Kind' = Kind /\ Receive(Kind)' = Receive(Kind) /\ Kind \in Kinds
  BY SameModule, Setup DEF IInv, TInv
<1>2. Watched'
  BY WatchedGood DEF IInv, SInv
<1>3. Kind = "temperature" => Quiet'
  BY TemperatureQuiet DEF SInv
<1>4. Kind \in {"streaming", "trigger"} => Quiet'
  BY SleepingQuiet DEF SInv
<1>5. Kind \in {"mail", "firebase"} =>
        Quiet' /\ (Kind = "firebase" /\ pc' = "wait" => Silence' <= Receive(Kind))
  BY WaitingQuiet
<1>6. Kind = "video" => Quiet' /\ VideoQuiet'
  BY VideoStaysQuiet DEF SInv
<1>7. Kind = "noise" => Quiet' /\ NoiseQuiet'
  BY NoiseStaysQuiet DEF SInv
<1>8. Quiet'
  BY <1>1, <1>3, <1>4, <1>5, <1>6, <1>7 DEF Kinds
<1> QED BY <1>1, <1>2, <1>5, <1>6, <1>7, <1>8 DEF SInv

\* The watchdog gives up no module whose work is short, but for a noise detection that
\* waits for the replies to more events than one.
THEOREM WorkingNotGivenUp == ASSUME ShortWork PROVE Spec => []GivesUpOnlyNoise
<1>1. IInv /\ SInv => GivesUpOnlyNoise
  <2> SUFFICES ASSUME IInv, SInv, GivenUp PROVE Kind = "noise" /\ events.raised > 1
    BY DEF GivesUpOnlyNoise
  <2> DEFINE grace == (MAX_MISSED_HEARTBEATS - 1) * CHECK_INTERVAL
  <2>1. Types /\ Patience(Kind) \in Nat
    BY PatienceNat DEF IInv, TInv
  <2>2. /\ check = 0 /\ last_heartbeat > heartbeat_interval
        /\ missed_heartbeats = MAX_MISSED_HEARTBEATS - 1
        /\ last_heartbeat \in Nat /\ heartbeat_interval \in Nat /\ left \in Nat
    BY <2>1, Constants DEF GivenUp, Overdue, Types
  <2>3. heartbeat_interval = Interval(Kind)
    BY <2>2 DEF IInv, TInv, Started
  <2>4. last_heartbeat > heartbeat_interval + grace
    <3>1. CASE missed_heartbeats > 0
      BY <2>2, <3>1, Constants DEF SInv, Watched
    <3>2. CASE ~(missed_heartbeats > 0)
      <4>1. MAX_MISSED_HEARTBEATS - 1 = 0
        BY <2>2, <3>2, Constants
      <4>2. grace = 0
        BY <4>1, Constants
      <4> HIDE DEF grace
      <4> QED BY <2>2, <4>2
    <3> QED BY <3>1, <3>2
  <2>5. Patience(Kind) = heartbeat_interval + grace
    BY <2>3 DEF Patience
  <2> HIDE DEF grace
  <2>6. Silence > Patience(Kind)
    BY <2>1, <2>2, <2>4, <2>5 DEF Silence
  <2>7. Kind = "noise" /\ ~(events.raised <= 1)
    BY <2>1, <2>2, <2>6 DEF SInv, Quiet, Silence
  <2>8. events.raised \in Nat
    BY <2>1 DEF Types
  <2> QED BY <2>7, <2>8
<1>2. Init => IInv /\ SInv
  BY InitHolds, InitQuiet
<1>3. IInv /\ SInv /\ [Next]_vars => IInv' /\ SInv'
  BY NextHolds, NextQuiet
<1> QED BY <1>1, <1>2, <1>3, PTL DEF Spec
=============================================================================
