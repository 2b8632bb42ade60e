------------------------------ MODULE FloodLimit ------------------------------
(***************************************************************************)
(* Module::isFlooding (lib_module/module.cpp) and the calls it stands      *)
(* before: events, acknowledgements, intervals and system messages are     *)
(* dropped when too many messages left within a window, while a heartbeat  *)
(* waits for the window to pass and is then sent in any case.              *)
(*                                                                         *)
(* Most modules call it from one thread.  The trigger module               *)
(* (trigger_module.cpp) has a thread for each rule, which raises its event *)
(* once or again and again, beside the one that sends heartbeats; they     *)
(* share the counter and no lock, so that a load and a store of it are     *)
(* steps of their own here.                                                *)
(*                                                                         *)
(* An operator X_Y beside an operator X is X with a plausible mistake Y; no *)
(* action uses it.  It is there to see a property of the code fail.        *)
(***************************************************************************)
EXTENDS Naturals

CONSTANTS
  Programs,               \* possible modules: what each of its threads calls
  FLOOD_MSG_PER_SECOND,   \* messages per window, and windows per second
  WINDOW                  \* its length in ticks

ASSUME FloodAssumption ==
  /\ FLOOD_MSG_PER_SECOND \in Nat \ {0}
  /\ WINDOW \in Nat \ {0}

VARIABLES
  program,          \* thread -> the calls it makes; never changes
  thread,           \* thread -> where it is in a call, and its local variables
  message_density_,
  last_density_reset_   \* its age; at first it is the clock's epoch

\* What happened, for the properties.
VARIABLE recent     \* the last messages of a single thread that isFlooding let
                    \* pass, oldest first: the ages of their clock readings

vars == <<program, thread, message_density_, last_density_reset_, recent>>

Threads == DOMAIN program
OneThread == \A t, u \in Threads : t = u
Last == 1 .. 2 * FLOOD_MSG_PER_SECOND
Idle == [pc |-> "idle", call |-> "none", now |-> 0, density |-> 0]
Aged(age) == IF age > WINDOW THEN age ELSE age + 1

Init ==
  /\ program \in Programs
  /\ thread = [t \in Threads |-> Idle]
  /\ message_density_ = 0
  /\ last_density_reset_ = WINDOW + 1
  /\ recent = [i \in Last |-> WINDOW + 1]

At(t, pc) == thread[t].pc = pc
Go(t, pc) == thread' = [thread EXCEPT ![t].pc = pc]

-------------------------------------------------------------------------------
(* isFlooding *)

\* A call begins: the clock is read.
Call(t, call) ==
  /\ At(t, "idle")
  /\ call \in program[t]
  /\ thread' = [thread EXCEPT ![t] = [Idle EXCEPT !.pc = "span", !.call = call]]
  /\ UNCHANGED <<program, message_density_, last_density_reset_, recent>>

\* timespan > limit, where a reset by another thread may be later than now.
Span(t) ==
  /\ At(t, "span")
  /\ Go(t, IF last_density_reset_ > WINDOW THEN "reset" ELSE "load")
  /\ UNCHANGED <<program, message_density_, last_density_reset_, recent>>

Reset_KeepsTime(t) ==
  /\ At(t, "reset")
  /\ message_density_' = 0
  /\ Go(t, "load")
  /\ UNCHANGED <<program, last_density_reset_, recent>>

Reset(t) ==
  /\ At(t, "reset")
  /\ message_density_' = 0
  /\ last_density_reset_' = thread[t].now
  /\ Go(t, "load")
  /\ UNCHANGED <<program, recent>>

Full_OffByOne(n) == n > FLOOD_MSG_PER_SECOND
Full(n) == n >= FLOOD_MSG_PER_SECOND

\* What the call does when it would flood the core.
Flooded(t) ==
  CASE thread[t].call = "heartbeat" -> "wait"
    [] thread[t].call = "again"     -> "send"
    [] OTHER                        -> "idle"

Load(t) ==
  /\ At(t, "load")
  /\ thread' = [thread EXCEPT
       ![t].density = message_density_,
       ![t].now = IF Full(message_density_) THEN 0 ELSE @,
       ![t].pc = IF Full(message_density_) THEN Flooded(t) ELSE "store"]
  /\ UNCHANGED <<program, message_density_, last_density_reset_, recent>>

\* message_density_++ of the value that was compared.
Store(t) ==
  /\ At(t, "store")
  /\ message_density_' = thread[t].density + 1
  /\ recent' = IF OneThread
               THEN [i \in Last |-> IF i + 1 \in Last THEN recent[i + 1] ELSE thread[t].now]
               ELSE recent
  /\ Go(t, "send")
  /\ UNCHANGED <<program, last_density_reset_>>

-------------------------------------------------------------------------------
(* Its callers *)

\* sendHeartbeat sleeps for the window, rounded up, and calls again for the
\* counter's sake alone.
CallAgain_Heartbeat(t) == "heartbeat"
CallAgain(t) == "again"

Waited(t) ==
  /\ At(t, "wait")
  /\ thread[t].now > WINDOW
  /\ thread' = [thread EXCEPT ![t] = [Idle EXCEPT !.pc = "span", !.call = CallAgain(t)]]
  /\ UNCHANGED <<program, message_density_, last_density_reset_, recent>>

Send(t) ==
  /\ At(t, "send")
  /\ thread' = [thread EXCEPT ![t] = Idle]
  /\ UNCHANGED <<program, message_density_, last_density_reset_, recent>>

\* A thread may stand still between any two steps.
Tick ==
  /\ last_density_reset_' = Aged(last_density_reset_)
  /\ thread' = [t \in Threads |->
       IF At(t, "idle") \/ At(t, "send") THEN thread[t]
       ELSE [thread[t] EXCEPT !.now = Aged(@)]]
  /\ recent' = [i \in Last |-> Aged(recent[i])]
  /\ UNCHANGED <<program, message_density_>>

Step(t) == Span(t) \/ Reset(t) \/ Load(t) \/ Store(t) \/ Waited(t) \/ Send(t)

Next ==
  \/ \E t \in Threads : Step(t) \/ \E call \in program[t] : Call(t, call)
  \/ Tick

Spec == Init /\ [][Next]_vars

\* Threads are scheduled and time passes.
FairSpec ==
  /\ Spec
  /\ WF_vars(Tick)
  /\ \A t \in UNION {DOMAIN p : p \in Programs} : WF_vars(t \in Threads /\ Step(t))

-------------------------------------------------------------------------------
(* Properties                                                              *)

\* However the threads meet, the counter stays within its limit: a value another
\* thread stored in between is lost, not added to.
TypeOK ==
  /\ message_density_ \in 0 .. FLOOD_MSG_PER_SECOND
  /\ last_density_reset_ \in 0 .. WINDOW + 1
  /\ \A t \in Threads :
       /\ thread[t].now \in 0 .. WINDOW + 1
       /\ thread[t].density \in 0 .. FLOOD_MSG_PER_SECOND

\* "Check if module is currently flooding the core" (module.cpp:57, 66, 75, 103): the
\* windows are not aligned to anything, but a module with one thread sends
\* less than twice the limit, a burst at the end of one window and another at the
\* start of the next, in any time as long as a window.  With two threads it may send more.
OneThreadRate == OneThread => recent[1] > WINDOW

\* "This action waits when flood protection avoids sending" (module.h:88), and it
\* does not wait for ever, whatever the other threads send: a heartbeat gets out.
HeartbeatGetsOut ==
  \A t \in UNION {DOMAIN p : p \in Programs} :
    (t \in Threads /\ thread[t].call = "heartbeat") ~> (t \in Threads /\ At(t, "send"))
===============================================================================
