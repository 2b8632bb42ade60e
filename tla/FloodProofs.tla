------------------------------ MODULE FloodProofs ------------------------------
(***************************************************************************)
(* Proofs about Module::isFlooding, for any number of threads that call it *)
(* without a lock.  A thread stores one more than the value it compared,   *)
(* whatever was stored in between, so that it is the threads' local        *)
(* variables the invariant has to speak of.                                *)
(*                                                                         *)
(* For a module with one thread there is a second invariant, about the     *)
(* rate: of the last messages, as many as the counter says were sent since *)
(* the last reset, the first of them at its time; the others were before,  *)
(* and all but the FLOOD_MSG_PER_SECOND - 1 that were sent last of those    *)
(* are older than a window.                                                *)
(***************************************************************************)
EXTENDS FloodLimit, TLAPS

Calls == {"none", "again"} \cup UNION {program[t] : t \in Threads}

Counter == 0 .. FLOOD_MSG_PER_SECOND
Age     == 0 .. WINDOW + 1

ThreadState ==
  [pc : {"idle", "span", "reset", "load", "store", "send", "wait"},
   call : Calls, now : Age, density : Counter]

\* What a thread is about to store was below the limit when it was loaded.
Safe(r) == r.pc = "store" => r.density < FLOOD_MSG_PER_SECOND

IInv ==
  /\ message_density_ \in Counter
  /\ last_density_reset_ \in Age
  /\ thread \in [Threads -> ThreadState]
  /\ \A t \in Threads : Safe(thread[t])

LEMMA Constants ==
  /\ FLOOD_MSG_PER_SECOND \in Nat \ {0} /\ WINDOW \in Nat \ {0}
  /\ 0 \in Counter /\ 0 \in Age
  /\ Idle \in ThreadState /\ Safe(Idle)
  BY FloodAssumption DEF Counter, Age, Idle, ThreadState, Calls, Safe

LEMMA AgedAge == ASSUME NEW a \in Age PROVE Aged(a) \in Age
  BY Constants DEF Age, Aged

\* A step of one thread that leaves it safe.
LEMMA OneMoves ==
  ASSUME IInv, NEW t \in Threads, NEW r \in ThreadState, Safe(r),
         thread' = [thread EXCEPT ![t] = r], UNCHANGED program
  PROVE  /\ thread' \in [Threads' -> ThreadState']
         /\ \A u \in Threads' : Safe(thread'[u])
<1>1. Threads' = Threads /\ ThreadState' = ThreadState
  BY DEF Threads, ThreadState, Calls
<1>2. thread \in [Threads -> ThreadState] /\ \A u \in Threads : Safe(thread[u])
  BY DEF IInv
<1>3. \A u \in Threads : thread'[u] = IF u = t THEN r ELSE thread[u]
  BY <1>2
<1> QED BY <1>1, <1>2, <1>3

LEMMA InitGood == Init => IInv
<1> SUFFICES ASSUME Init PROVE IInv
  OBVIOUS
<1>1. thread \in [Threads -> ThreadState] /\ \A t \in Threads : Safe(thread[t])
  BY Constants DEF Init
<1>2. last_density_reset_ \in Age /\ message_density_ \in Counter
  BY Constants DEF Init, Age
<1> QED BY <1>1, <1>2 DEF IInv

LEMMA CallGood ==
  ASSUME IInv, NEW t \in Threads, NEW call \in program[t], Call(t, call)
  PROVE  IInv'
<1> DEFINE r == [Idle EXCEPT !.pc = "span", !.call = call]
<1>1. r \in ThreadState /\ Safe(r)
  <2>1. call \in Calls
    BY DEF Calls
  <2> QED BY <2>1, Constants DEF Idle, ThreadState, Safe
<1>2. thread' = [thread EXCEPT ![t] = r]
  BY DEF Call
<1> HIDE DEF r
<1>3. thread' \in [Threads' -> ThreadState'] /\ \A u \in Threads' : Safe(thread'[u])
  BY <1>1, <1>2, OneMoves DEF Call
<1> QED BY <1>3 DEF IInv, Call

\* The program counter moves on, but not to the store.
LEMMA Moves ==
  ASSUME IInv, NEW t \in Threads, NEW pc \in {"load", "reset", "send"}, Go(t, pc),
         UNCHANGED program
  PROVE  thread' \in [Threads' -> ThreadState'] /\ \A u \in Threads' : Safe(thread'[u])
<1> DEFINE r == [thread[t] EXCEPT !.pc = pc]
<1>1. r \in ThreadState /\ Safe(r)
  BY DEF IInv, ThreadState, Safe
<1>2. thread' = [thread EXCEPT ![t] = r]
  BY DEF Go
<1> HIDE DEF r
<1> QED BY <1>1, <1>2, OneMoves

LEMMA SpanGood == ASSUME IInv, NEW t \in Threads, Span(t) PROVE IInv'
<1>1. PICK pc \in {"load", "reset", "send"} : Go(t, pc)
  BY DEF Span
<1>2. thread' \in [Threads' -> ThreadState'] /\ \A u \in Threads' : Safe(thread'[u])
  BY <1>1, Moves DEF Span
<1> QED BY <1>2 DEF IInv, Span

LEMMA ResetGood == ASSUME IInv, NEW t \in Threads, Reset(t) PROVE IInv'
<1>1. thread' \in [Threads' -> ThreadState'] /\ \A u \in Threads' : Safe(thread'[u])
  BY Moves DEF Reset
<1>2. thread[t].now \in Age
  BY DEF IInv, ThreadState
<1> QED BY <1>1, <1>2, Constants DEF IInv, Reset

\* The comparison is what makes the later store safe.
LEMMA LoadGood == ASSUME IInv, NEW t \in Threads, Load(t) PROVE IInv'
<1> DEFINE full == Full(message_density_)
           n == IF full THEN 0 ELSE thread[t].now
           p == IF full THEN Flooded(t) ELSE "store"
           r == [thread[t] EXCEPT !.density = message_density_, !.now = n, !.pc = p]
<1>1. thread[t] \in ThreadState /\ message_density_ \in Counter
  BY DEF IInv
<1>2. n \in Age
  BY <1>1, Constants DEF ThreadState
<1>3. p \in {"idle", "wait", "send", "store"} /\ (p = "store" => ~full)
  BY DEF Flooded
<1>4. thread' = [thread EXCEPT ![t] = r]
  <2>1. thread \in [Threads -> ThreadState]
    BY DEF IInv
  <2> QED BY <1>1, <2>1 DEF Load, ThreadState
<1>5. ~full => message_density_ < FLOOD_MSG_PER_SECOND
  BY <1>1, Constants DEF Full, Counter
<1> HIDE DEF full, n, p
<1>6. r \in ThreadState /\ r.pc = p /\ r.density = message_density_
  BY <1>1, <1>2, <1>3 DEF ThreadState
<1>7. Safe(r)
  BY <1>3, <1>5, <1>6 DEF Safe
<1> HIDE DEF r
<1>8. thread' \in [Threads' -> ThreadState'] /\ \A u \in Threads' : Safe(thread'[u])
  BY <1>4, <1>6, <1>7, OneMoves DEF Load
<1> QED BY <1>8 DEF IInv, Load

\* One more than a value below the limit, whatever the counter holds by now.
LEMMA StoreGood == ASSUME IInv, NEW t \in Threads, Store(t) PROVE IInv'
<1>1. thread' \in [Threads' -> ThreadState'] /\ \A u \in Threads' : Safe(thread'[u])
  BY Moves DEF Store
<1>2. thread[t].density \in Counter /\ thread[t].density < FLOOD_MSG_PER_SECOND
  BY DEF IInv, ThreadState, Safe, Store, At
<1>3. message_density_' \in Counter
  BY <1>2, Constants DEF Store, Counter
<1> QED BY <1>1, <1>3 DEF IInv, Store

LEMMA IdlesGood == ASSUME IInv, NEW t \in Threads, Waited(t) \/ Send(t) PROVE IInv'
<1> DEFINE again == [Idle EXCEPT !.pc = "span", !.call = "again"]
<1>1. again \in ThreadState /\ Safe(again)
  BY Constants DEF Idle, ThreadState, Calls, Safe
<1>2. thread' = [thread EXCEPT ![t] = again] \/ thread' = [thread EXCEPT ![t] = Idle]
  BY DEF Waited, Send, CallAgain
<1> HIDE DEF again
<1>3. thread' \in [Threads' -> ThreadState'] /\ \A u \in Threads' : Safe(thread'[u])
  BY <1>1, <1>2, Constants, OneMoves DEF Waited, Send
<1> QED BY <1>3 DEF IInv, Waited, Send

LEMMA TickGood == IInv /\ Tick => IInv'
<1> SUFFICES ASSUME IInv, Tick PROVE IInv'
  OBVIOUS
<1>1. Threads' = Threads /\ ThreadState' = ThreadState
  BY DEF Tick, Threads, ThreadState, Calls
<1> DEFINE r(t) == IF At(t, "idle") \/ At(t, "send") THEN thread[t]
                   ELSE [thread[t] EXCEPT !.now = Aged(@)]
<1>2. ASSUME NEW t \in Threads PROVE r(t) \in ThreadState /\ Safe(r(t))
  <2>1. thread[t] \in ThreadState /\ Safe(thread[t])
    BY DEF IInv
  <2> DEFINE a == Aged(thread[t].now)
  <2>2. a \in Age
    BY <2>1, AgedAge DEF ThreadState
  <2>3. r(t) = thread[t] \/ r(t) = [thread[t] EXCEPT !.now = a]
    BY <2>1 DEF ThreadState
  <2> HIDE DEF a, r
  <2> QED BY <2>1, <2>2, <2>3 DEF ThreadState, Safe
<1>3. thread' = [t \in Threads |-> r(t)]
  BY DEF Tick
<1> HIDE DEF r
<1>4. thread' \in [Threads -> ThreadState] /\ \A t \in Threads : Safe(thread'[t])
  BY <1>2, <1>3
<1>5. last_density_reset_' \in Age
  BY AgedAge DEF Tick, IInv
<1>6. message_density_' = message_density_
  BY DEF Tick
<1> QED BY <1>1, <1>4, <1>5, <1>6 DEF IInv

LEMMA NextGood == IInv /\ [Next]_vars => IInv'
<1> SUFFICES ASSUME IInv, [Next]_vars PROVE IInv'
  OBVIOUS
<1>1. CASE UNCHANGED vars
  BY <1>1 DEF IInv, vars, Threads, ThreadState, Calls
<1> QED BY <1>1, CallGood, SpanGood, ResetGood, LoadGood, StoreGood, IdlesGood, TickGood
        DEF Next, Step

LEMMA Always == Spec => []IInv
  BY InitGood, NextGood, PTL DEF Spec

\* However many threads of a module share message_density_ without a lock, none of
\* them ever stores more than FLOOD_MSG_PER_SECOND in it.
THEOREM CounterWithinLimit == Spec => []TypeOK
<1>1. IInv => TypeOK
  BY DEF IInv, TypeOK, ThreadState, Counter, Age
<1> QED BY <1>1, Always, PTL

-------------------------------------------------------------------------------
(* A module with one thread *)

Calling == {"span", "reset", "load", "store"}

\* The clock reading of a call is later than those before it, and the counter is 0
\* only until the first message after a reset.
InCall(r) ==
  /\ r.pc \in Calling => \A i \in Last : r.now <= recent[i]
  /\ r.pc = "reset" => last_density_reset_ > WINDOW
  /\ r.pc = "store" => r.density = message_density_
  /\ message_density_ = 0 =>
       IF r.pc \in {"load", "store"} THEN last_density_reset_ <= r.now
                                     ELSE last_density_reset_ > WINDOW

Rate ==
  /\ recent \in [Last -> Age]
  /\ \A i \in Last : i + message_density_ <= 2 * FLOOD_MSG_PER_SECOND + 1
                       => last_density_reset_ <= recent[i]
  /\ \A i \in Last : i + message_density_ <= FLOOD_MSG_PER_SECOND + 1
                       => WINDOW < recent[i]
  /\ \A t \in Threads : InCall(thread[t])

RInv == IInv /\ (OneThread => Rate)

LEMMA AgedGrows ==
  ASSUME NEW a \in Age, NEW b \in Age, a <= b
  PROVE  Aged(a) <= Aged(b) /\ (a > WINDOW => Aged(a) > WINDOW)
  BY Constants DEF Age, Aged

LEMMA RateInit == Init => Rate
<1> SUFFICES ASSUME Init PROVE Rate
  OBVIOUS
<1>1. \A i \in Last : recent[i] = WINDOW + 1
  BY DEF Init
<1>2. recent \in [Last -> Age] /\ WINDOW + 1 > WINDOW
  BY Constants DEF Init, Age
<1>3. ASSUME NEW t \in Threads PROVE InCall(thread[t])
  BY <1>2, Constants DEF Init, InCall, Idle, Calling
<1> QED BY <1>1, <1>2, <1>3 DEF Init, Rate

\* A step of the only thread that touches nothing but the thread.
LEMMA RateMoves ==
  ASSUME Rate, OneThread, NEW t \in Threads, NEW r, thread' = [thread EXCEPT ![t] = r],
         thread \in [Threads -> ThreadState], InCall(r),
         UNCHANGED <<program, message_density_, last_density_reset_, recent>>
  PROVE  Rate'
<1>1. Threads' = Threads
  BY DEF Threads
<1>2. \A u \in Threads : u = t
  BY DEF OneThread
<1>3. \A u \in Threads : thread'[u] = r
  BY <1>2
<1>4. \A u \in Threads' : InCall(thread[u])'
  BY <1>1, <1>3 DEF InCall
<1> QED BY <1>1, <1>4 DEF Rate

LEMMA RateCall ==
  ASSUME IInv, Rate, OneThread, NEW t \in Threads, NEW call \in program[t], Call(t, call)
  PROVE  Rate'
<1> DEFINE r == [Idle EXCEPT !.pc = "span", !.call = call]
<1>1. r.pc = "span" /\ r.now = 0
  BY DEF Idle
<1>2. \A i \in Last : 0 <= recent[i]
  BY Constants DEF Rate, Age
<1>3. thread[t].pc = "idle" /\ InCall(thread[t])
  BY DEF Rate, Call, At
<1>4. thread' = [thread EXCEPT ![t] = r]
  BY DEF Call
<1> HIDE DEF r
<1>5. InCall(r)
  BY <1>1, <1>2, <1>3 DEF InCall
<1> QED BY <1>4, <1>5, RateMoves DEF IInv, Call

LEMMA RateSpan ==
  ASSUME IInv, Rate, OneThread, NEW t \in Threads, Span(t)
  PROVE  Rate'
<1> DEFINE pc == IF last_density_reset_ > WINDOW THEN "reset" ELSE "load"
           r == [thread[t] EXCEPT !.pc = pc]
<1>1. thread[t] \in ThreadState /\ thread[t].pc = "span" /\ InCall(thread[t])
  BY DEF IInv, Rate, Span, At
<1>2. pc \in {"reset", "load"} /\ (pc = "reset" <=> last_density_reset_ > WINDOW)
  OBVIOUS
<1>3. thread' = [thread EXCEPT ![t] = r]
  BY DEF Span, Go
<1> HIDE DEF pc
<1>4. r.pc = pc /\ r.now = thread[t].now
  BY <1>1 DEF ThreadState
<1> HIDE DEF r
<1>5. InCall(r)
  BY <1>1, <1>2, <1>4 DEF InCall, Calling
<1> QED BY <1>3, <1>5, RateMoves DEF IInv, Span

\* The counter starts again, and every message before it is older than the reset;
\* those that the old counter left out are older than a window.
LEMMA RateReset ==
  ASSUME IInv, Rate, OneThread, NEW t \in Threads, Reset(t)
  PROVE  Rate'
<1> DEFINE now == thread[t].now
<1>1. thread[t] \in ThreadState /\ thread[t].pc = "reset" /\ InCall(thread[t])
  BY DEF IInv, Rate, Reset, At
<1>2. Threads' = Threads /\ (\A u \in Threads : u = t) /\ thread \in [Threads -> ThreadState]
  BY DEF Threads, OneThread, IInv, Reset
<1>3. /\ last_density_reset_' = now /\ message_density_' = 0 /\ recent' = recent
      /\ thread' = [thread EXCEPT ![t].pc = "load"]
  BY DEF Reset, Go
<1>4. now \in Age /\ last_density_reset_ > WINDOW /\ \A i \in Last : now <= recent[i]
  BY <1>1 DEF InCall, ThreadState, Calling
<1>5. ASSUME NEW i \in Last, i + 0 <= FLOOD_MSG_PER_SECOND + 1 PROVE WINDOW < recent[i]
  <2>1. i + message_density_ <= 2 * FLOOD_MSG_PER_SECOND + 1
    BY <1>5, Constants DEF IInv, Counter, Last
  <2>2. last_density_reset_ <= recent[i] /\ recent[i] \in Age /\ last_density_reset_ \in Age
    BY <2>1 DEF Rate, IInv
  <2> QED BY <1>4, <2>2, Constants DEF Age
<1>6. ASSUME NEW u \in Threads PROVE InCall(thread[u])'
  <2>1. thread'[u].pc = "load" /\ thread'[u].now = now
    BY <1>1, <1>2, <1>3 DEF ThreadState
  <2> HIDE DEF now
  <2>2. now <= now
    BY <1>4, Constants DEF Age
  <2> QED BY <1>3, <1>4, <2>1, <2>2 DEF InCall
<1> HIDE DEF now
<1> QED BY <1>2, <1>3, <1>4, <1>5, <1>6 DEF Rate

LEMMA RateLoad ==
  ASSUME IInv, Rate, OneThread, NEW t \in Threads, Load(t)
  PROVE  Rate'
<1> DEFINE full == Full(message_density_)
           n == IF full THEN 0 ELSE thread[t].now
           p == IF full THEN Flooded(t) ELSE "store"
           r == [thread[t] EXCEPT !.density = message_density_, !.now = n, !.pc = p]
<1>1. thread[t] \in ThreadState /\ thread[t].pc = "load" /\ InCall(thread[t])
  BY DEF IInv, Rate, Load, At
<1>2. full => message_density_ # 0 /\ p \notin Calling
  <2>1. full => message_density_ # 0
    BY Constants DEF Full, IInv, Counter
  <2> QED BY <2>1 DEF Flooded, Calling
<1>3. ~full => p = "store" /\ n = thread[t].now
  OBVIOUS
<1>4. thread' = [thread EXCEPT ![t] = r]
  <2>1. thread \in [Threads -> ThreadState]
    BY DEF IInv
  <2> QED BY <1>1, <2>1 DEF Load, ThreadState
<1> HIDE DEF full, n, p
<1>5. r.pc = p /\ r.now = n /\ r.density = message_density_
  BY <1>1 DEF ThreadState
<1> HIDE DEF r
<1>6. InCall(r)
  BY <1>1, <1>2, <1>3, <1>5 DEF InCall, Calling
<1> QED BY <1>4, <1>6, RateMoves DEF IInv, Load

\* One more message since the reset: every message moves down by one.
LEMMA RateStore ==
  ASSUME IInv, Rate, OneThread, NEW t \in Threads, Store(t)
  PROVE  Rate'
<1> DEFINE now == thread[t].now
           d   == message_density_
           F   == FLOOD_MSG_PER_SECOND
<1>1. thread[t] \in ThreadState /\ thread[t].pc = "store" /\ InCall(thread[t])
  BY DEF IInv, Rate, Store, At
<1>2. Threads' = Threads /\ (\A u \in Threads : u = t) /\ thread \in [Threads -> ThreadState]
  BY DEF Threads, OneThread, IInv, Store
<1>3. /\ now \in Age /\ (\A i \in Last : now <= recent[i]) /\ thread[t].density = d
      /\ d = 0 => last_density_reset_ <= now
  BY <1>1 DEF InCall, ThreadState, Calling
<1>4. /\ d \in 0 .. F /\ F \in Nat \ {0} /\ last_density_reset_ \in Age
      /\ recent \in [Last -> Age]
  BY Constants DEF IInv, Rate, Counter
<1>5. /\ message_density_' = d + 1 /\ last_density_reset_' = last_density_reset_
      /\ recent' = [i \in Last |-> IF i + 1 \in Last THEN recent[i + 1] ELSE now]
      /\ thread' = [thread EXCEPT ![t].pc = "send"]
  BY <1>3 DEF Store, Go
<1>6. recent' \in [Last -> Age]
  BY <1>3, <1>4, <1>5
<1>7. ASSUME NEW i \in Last, i + (d + 1) <= 2 * F + 1
      PROVE  last_density_reset_ <= recent'[i]
  <2>1. CASE i + 1 \in Last
    <3>1. (i + 1) + d <= 2 * F + 1
      BY <1>4, <1>7 DEF Last
    <3>2. last_density_reset_ <= recent[i + 1]
      BY <2>1, <3>1 DEF Rate
    <3> QED BY <1>5, <2>1, <3>2
  <2>2. CASE i + 1 \notin Last
    <3>1. d = 0
      BY <1>4, <1>7, <2>2 DEF Last
    <3> QED BY <1>3, <1>5, <2>2, <3>1
  <2> QED BY <2>1, <2>2
<1>8. ASSUME NEW i \in Last, i + (d + 1) <= F + 1
      PROVE  WINDOW < recent'[i]
  <2>1. i + 1 \in Last /\ (i + 1) + d <= F + 1
    BY <1>4, <1>8 DEF Last
  <2>2. WINDOW < recent[i + 1]
    BY <2>1 DEF Rate
  <2> QED BY <1>5, <2>1, <2>2
<1>9. ASSUME NEW u \in Threads PROVE InCall(thread[u])'
  <2>1. thread'[u].pc = "send" /\ message_density_' # 0
    BY <1>1, <1>2, <1>4, <1>5 DEF ThreadState
  <2> QED BY <2>1 DEF InCall, Calling
<1> HIDE DEF now, d
<1> QED BY <1>2, <1>5, <1>6, <1>7, <1>8, <1>9 DEF Rate

LEMMA RateIdles ==
  ASSUME IInv, Rate, OneThread, NEW t \in Threads, Waited(t) \/ Send(t)
  PROVE  Rate'
<1> DEFINE again == [Idle EXCEPT !.pc = "span", !.call = "again"]
<1>1. thread[t].pc \in {"wait", "send"} /\ InCall(thread[t])
  BY DEF Rate, Waited, Send, At
<1>2. message_density_ = 0 => last_density_reset_ > WINDOW
  BY <1>1 DEF InCall
<1>3. \A i \in Last : 0 <= recent[i]
  BY Constants DEF Rate, Age
<1>4. again.pc = "span" /\ again.now = 0 /\ Idle.pc = "idle"
  BY DEF Idle
<1>5. thread' = [thread EXCEPT ![t] = again] \/ thread' = [thread EXCEPT ![t] = Idle]
  BY DEF Waited, Send, CallAgain
<1> HIDE DEF again
<1>6. InCall(again) /\ InCall(Idle)
  BY <1>2, <1>3, <1>4 DEF InCall, Calling
<1> QED BY <1>5, <1>6, RateMoves DEF IInv, Waited, Send

\* Everything ages at once, so that what was older stays older.
LEMMA RateTick == ASSUME IInv, Rate, OneThread, Tick PROVE Rate'
<1>1. /\ Threads' = Threads /\ thread \in [Threads -> ThreadState]
      /\ recent \in [Last -> Age] /\ last_density_reset_ \in Age
  BY DEF IInv, Rate, Tick, Threads
<1>2. /\ recent' = [i \in Last |-> Aged(recent[i])]
      /\ last_density_reset_' = Aged(last_density_reset_)
      /\ message_density_' = message_density_
  BY DEF Tick
<1>3. recent' \in [Last -> Age]
  BY <1>1, <1>2, AgedAge
<1>4. \A i \in Last : i + message_density_ <= 2 * FLOOD_MSG_PER_SECOND + 1
                       => last_density_reset_' <= recent'[i]
  BY <1>1, <1>2, AgedGrows DEF Rate
<1>5. ASSUME NEW i \in Last, i + message_density_ <= FLOOD_MSG_PER_SECOND + 1
      PROVE  WINDOW < recent'[i]
  <2>1. recent[i] \in Age /\ recent[i] <= recent[i] /\ recent[i] > WINDOW
    BY <1>1, <1>5, Constants DEF Rate, Age
  <2>2. Aged(recent[i]) > WINDOW /\ Aged(recent[i]) \in Age
    BY <2>1, AgedGrows, AgedAge
  <2> QED BY <1>2, <2>2, Constants DEF Age
<1>6. ASSUME NEW t \in Threads PROVE InCall(thread[t])'
  <2> DEFINE r == thread[t]
             s == thread'[t]
  <2>1. r \in ThreadState /\ InCall(r) /\ r.now \in Age
    BY <1>1 DEF Rate, ThreadState
  <2>2. /\ s.pc = r.pc /\ s.density = r.density
        /\ r.pc \in Calling => s.now = Aged(r.now)
    BY <1>1, <2>1 DEF Tick, At, ThreadState, Calling
  <2> HIDE DEF r, s
  <2>3. last_density_reset_ > WINDOW => last_density_reset_' > WINDOW
    BY <1>1, <1>2, Constants DEF Aged, Age
  <2>4. s.pc \in Calling => \A i \in Last : s.now <= recent'[i]
    BY <1>1, <1>2, <2>1, <2>2, AgedGrows DEF InCall
  <2>5. message_density_ = 0 /\ s.pc \in {"load", "store"} => last_density_reset_' <= s.now
    BY <1>1, <1>2, <2>1, <2>2, AgedGrows DEF InCall, Calling
  <2> QED BY <1>2, <2>1, <2>2, <2>3, <2>4, <2>5 DEF InCall, s
<1> QED BY <1>1, <1>2, <1>3, <1>4, <1>5, <1>6 DEF Rate

LEMMA RateNext == RInv /\ [Next]_vars => RInv'
<1> SUFFICES ASSUME RInv, [Next]_vars, OneThread' PROVE Rate'
  BY NextGood DEF RInv
<1>1. program' = program
  BY DEF Next, vars, Step, Call, Span, Reset, Load, Store, Waited, Send, Tick
<1>2. OneThread /\ Rate /\ IInv
  BY <1>1 DEF OneThread, Threads, RInv
<1>3. CASE UNCHANGED vars
  BY <1>2, <1>3 DEF Rate, vars, InCall, Threads
<1> QED BY <1>2, <1>3, RateCall, RateSpan, RateReset, RateLoad, RateStore, RateIdles, RateTick
        DEF Next, Step

\* A module with one thread never gets twice FLOOD_MSG_PER_SECOND messages past
\* isFlooding within a window, wherever the window begins.
THEOREM RateOfOneThread == Spec => []OneThreadRate
<1>1. Init => RInv
  BY InitGood, RateInit DEF RInv
<1>2. RInv => OneThreadRate
  <2> SUFFICES ASSUME RInv, OneThread PROVE recent[1] > WINDOW
    BY DEF OneThreadRate
  <2>1. 1 \in Last /\ 1 + message_density_ <= FLOOD_MSG_PER_SECOND + 1
    BY Constants DEF RInv, IInv, Counter, Last
  <2>2. WINDOW < recent[1] /\ recent[1] \in Age
    BY <2>1 DEF RInv, Rate
  <2> QED BY <2>2, Constants DEF Age
<1> QED BY <1>1, <1>2, RateNext, PTL DEF Spec
===============================================================================
