---------------------------- MODULE RuleEngineProofs ----------------------------
(***************************************************************************)
(* Theorems of the rule engine for every rule set, every limit and every   *)
(* number of events: the type invariant, one reply per event, all tries    *)
(* before an abort, retries only of overdue events, the fire limit of      *)
(* module rules, and the implementation of EventDelivery.  All of them     *)
(* rest on the inductive invariant IInv.                                   *)
(***************************************************************************)
EXTENDS RuleEngineRefinement, TLAPS, WellFoundedInduction

\* Each thread is at one of its own statements.
PcInv ==
  /\ pc["main"] \in {"idle", "check", "enqueue", "reply"}
  /\ pc["watchdog"] \in {"idle", "check", "enqueue"}
  /\ pc["ack"] \in {"sleep", "lock", "scan"}

\* A caller inside enqueueEvent has a rule to work on, one the engine knows once
\* the check is passed; the watchdog thread only raises system messages.
WorkInv ==
  /\ \A t \in Callers : pc[t] \in {"check", "enqueue"} => work[t] # {}
  /\ \A t \in Callers : pc[t] = "enqueue" => Current(t) \in Rules
  /\ work["watchdog"] \subseteq SysRules

\* The entry acceptAck uses after the unlock is out of the queue.
HeldInv == pc["main"] = "reply" => held \in Events \ ack_queue_

\* The scan runs under the mutex over entries of the queue, and what was overdue
\* when the ack thread read the time is overdue when the scan comes to it.
ScanInv ==
  /\ pc["ack"] = "scan" <=> ack_mtx_ = "ack"
  /\ todo \subseteq ack_queue_
  /\ pc["ack"] # "scan" => todo = {}
  /\ pc["ack"] = "sleep" => overdue = {}
  /\ pc["ack"] = "lock" =>
       \A id \in overdue \cap ack_queue_ : hist[id].quiet = ACK_TIMEOUT
  /\ \A id \in overdue \cap todo : hist[id].quiet = ACK_TIMEOUT

\* The entries agree with what the action modules have seen.
EntryInv ==
  \A id \in Events : /\ entry[id].age = hist[id].quiet
                     /\ entry[id].num_tries = hist[id].sent

\* A rule that may fire for its timestamp may be enqueued for, and that stays
\* so between the check and the lock for a rule that only one thread uses.
LimitInv ==
  /\ \A r \in Rules : rule_since[r] <= accept_since[r]
  /\ pc["main"] = "enqueue" /\ Current("main") \notin SysRules =>
       accept_since[Current("main")] >= FireLimit[Current("main")]

IInv ==
  /\ TypeOK
  /\ PcInv
  /\ WorkInv
  /\ HeldInv
  /\ ScanInv
  /\ EntryInv
  /\ LimitInv
  /\ OneReply
  /\ AbortAfterAllTries

-------------------------------------------------------------------------------
\* The least element the loops of systemMessage and ackThread go on with exists.
LEMMA MinIn ==
  ASSUME NEW S \in SUBSET Nat, S # {}
  PROVE  Min(S) \in S /\ \A y \in S : Min(S) <= y
<1>1. \E R : /\ IsWellFoundedOn(R, Nat)
             /\ \A m, n \in Nat : m < n => <<m, n>> \in R
  <2>1. \A m, n \in Nat : m < n => <<m, n>> \in OpToRel(<, Nat)
    BY DEF OpToRel
  <2> QED
    BY <2>1, NatLessThanWellFounded, Zenon
<1>2. PICK R : /\ IsWellFoundedOn(R, Nat)
               /\ \A m, n \in Nat : m < n => <<m, n>> \in R
  BY <1>1
<1>3. PICK n \in S : \A m \in S : <<m, n>> \notin R
  <2>1. IsWellFoundedOn(R, Nat)
    BY <1>2, Zenon
  <2>2. S \subseteq Nat
    OBVIOUS
  <2>3. \E x \in S : \A y \in S : ~(<<y, x>> \in R)
    BY <2>1, <2>2, WFMin, Zenon
  <2> QED
    BY <2>3, Zenon
<1>4. \A m \in S : n <= m
  <2>1. \A m, k \in Nat : m < k => <<m, k>> \in R
    BY <1>2, Zenon
  <2>2. \A m \in S : ~(m < n)
    BY <2>1, <1>3, Zenon
  <2> QED
    BY <2>2
<1> QED
  BY <1>4 DEF Min

LEMMA InitInv == Init => IInv
<1> SUFFICES ASSUME Init PROVE IInv
  OBVIOUS
<1> USE RuleAssumption, TimeAssumption
<1>1. PICK uptime \in 0 .. MaxUptime :
        rule_since = [r \in Rules |-> UpTo(uptime, FireLimit[r])]
  BY DEF Init
<1>2. Events = {}
  BY DEF Init, Events
<1>3. TypeOK
  BY <1>1, <1>2 DEF Init, TypeOK, UpTo, Rules, RuleID, Threads, Callers, Entry, Seen
<1>4. LimitInv
  BY <1>1 DEF Init, LimitInv, UpTo, Rules, Threads, Callers
<1>5. PcInv /\ WorkInv /\ HeldInv /\ ScanInv
  BY DEF Init, PcInv, WorkInv, HeldInv, ScanInv, Threads, Callers
<1>6. EntryInv /\ OneReply /\ AbortAfterAllTries
  BY <1>2 DEF EntryInv, OneReply, AbortAfterAllTries
<1> QED
  BY <1>3, <1>4, <1>5, <1>6 DEF IInv

-------------------------------------------------------------------------------
(* The steps of the ack thread. *)

LEMMA AckWakeInv == IInv /\ AckWake => IInv'
<1> SUFFICES ASSUME IInv, AckWake PROVE IInv'
  OBVIOUS
<1> USE RuleAssumption, TimeAssumption DEF IInv, AckWake, TimedOut, seen
<1>1. TypeOK' /\ PcInv'
  BY DEF TypeOK, PcInv, Threads, Callers, Events
<1>2. WorkInv' /\ HeldInv' /\ LimitInv'
  BY DEF TypeOK, WorkInv, HeldInv, LimitInv, Threads, Callers, Current, Events
<1>3. ScanInv'
  <2>1. \A id \in overdue' : hist[id].quiet = ACK_TIMEOUT
    <3> SUFFICES ASSUME NEW id \in overdue' PROVE hist[id].quiet = ACK_TIMEOUT
      OBVIOUS
    <3>1. id \in Events /\ entry[id].age >= ACK_TIMEOUT
      BY DEF TypeOK
    <3>2. entry[id].age \in 0 .. ACK_TIMEOUT /\ entry[id].age = hist[id].quiet
      BY <3>1 DEF TypeOK, Entry, EntryInv
    <3> QED
      BY <3>1, <3>2
  <2> QED
    BY <2>1 DEF ScanInv, TypeOK, Threads
<1>4. EntryInv' /\ OneReply' /\ AbortAfterAllTries'
  BY DEF EntryInv, OneReply, AbortAfterAllTries, TypeOK, Threads, Events
<1> QED
  BY <1>1, <1>2, <1>3, <1>4

LEMMA AckLockInv == IInv /\ AckLock => IInv'
<1> SUFFICES ASSUME IInv, AckLock PROVE IInv'
  OBVIOUS
<1> USE RuleAssumption, TimeAssumption DEF IInv, AckLock, LoopEntries, seen
<1>1. TypeOK' /\ PcInv'
  BY DEF TypeOK, PcInv, Threads, Callers, Events
<1>2. WorkInv' /\ HeldInv' /\ LimitInv'
  BY DEF TypeOK, WorkInv, HeldInv, LimitInv, Threads, Callers, Current, Events
<1>3. ScanInv'
  BY DEF ScanInv, TypeOK, Threads
<1>4. EntryInv' /\ OneReply' /\ AbortAfterAllTries'
  BY DEF EntryInv, OneReply, AbortAfterAllTries, TypeOK, Threads, Events
<1> QED
  BY <1>1, <1>2, <1>3, <1>4

LEMMA ItIn ==
  ASSUME TypeOK, todo # {}
  PROVE  It \in todo /\ It \in Events
<1>1. todo \in SUBSET Nat /\ todo \subseteq Events
  BY DEF TypeOK, Events
<1> QED
  BY <1>1, MinIn DEF It

LEMMA TakenActionType ==
  ASSUME NEW e \in Entry
  PROVE  /\ TakenAction(e) \in Entry
         /\ TakenAction(e).rule = e.rule
         /\ TakenAction(e).num_tries = e.num_tries + 1
         /\ TakenAction(e).age = 0
<1>1. 0 \in 0 .. ACK_TIMEOUT
  BY TimeAssumption
<1> QED
  BY <1>1 DEF Entry, TakenAction

LEMMA SeenActionType ==
  ASSUME NEW h \in Seen
  PROVE  /\ SeenAction(h) \in Seen
         /\ SeenAction(h).sent = h.sent + 1
         /\ SeenAction(h).quiet = 0
         /\ SeenAction(h).acks = h.acks
         /\ SeenAction(h).aborts = h.aborts
<1>1. 0 \in 0 .. ACK_TIMEOUT
  BY TimeAssumption
<1> QED
  BY <1>1 DEF Seen, SeenAction

LEMMA AckSkipInv == IInv /\ AckSkip => IInv'
<1> SUFFICES ASSUME IInv, AckSkip PROVE IInv'
  OBVIOUS
<1> USE RuleAssumption, TimeAssumption DEF IInv, AckSkip, seen
<1>1. TypeOK' /\ PcInv' /\ WorkInv' /\ HeldInv' /\ LimitInv'
  BY DEF TypeOK, PcInv, WorkInv, HeldInv, LimitInv, Current, Events
<1>2. ScanInv'
  BY DEF ScanInv
<1>3. EntryInv' /\ OneReply' /\ AbortAfterAllTries'
  BY DEF EntryInv, OneReply, AbortAfterAllTries, Events
<1> QED
  BY <1>1, <1>2, <1>3

\* The engine retries what it has sent at most NUM_ACTION_RETRIES times, and an
\* entry in the queue is nobody else's.
LEMMA AckRetryInv == IInv /\ AckRetry => IInv'
<1> SUFFICES ASSUME IInv, AckRetry PROVE IInv'
  OBVIOUS
<1> USE RuleAssumption, TimeAssumption DEF IInv, AckRetry, TriesLeft, Fired
<1>1. It \in todo /\ It \in Events
  BY ItIn
<1>2. entry[It] \in Entry /\ hist[It] \in Seen
  BY <1>1 DEF TypeOK
<1>3. /\ TakenAction(entry[It]) \in Entry
      /\ TakenAction(entry[It]).num_tries = entry[It].num_tries + 1
      /\ TakenAction(entry[It]).age = 0
  BY <1>2, TakenActionType
<1>4. /\ SeenAction(hist[It]) \in Seen
      /\ SeenAction(hist[It]).sent = hist[It].sent + 1
      /\ SeenAction(hist[It]).quiet = 0
      /\ SeenAction(hist[It]).acks = hist[It].acks
      /\ SeenAction(hist[It]).aborts = hist[It].aborts
  BY <1>2, SeenActionType
<1>5. TypeOK' /\ PcInv' /\ WorkInv' /\ HeldInv'
  <2>1. entry' \in [Events -> Entry] /\ hist' \in [Events -> Seen]
    BY <1>1, <1>3, <1>4 DEF TypeOK
  <2>2. entry[It].rule \in Rules
    BY <1>2 DEF Entry
  <2> QED
    BY <2>1, <2>2 DEF TypeOK, PcInv, WorkInv, HeldInv, Current, Events
<1>6. ScanInv'
  BY <1>1 DEF ScanInv, TypeOK
<1>7. EntryInv'
  BY <1>1, <1>3, <1>4 DEF EntryInv, TypeOK, Events
<1>8. LimitInv'
  BY <1>2 DEF LimitInv, TypeOK, Entry, Current
<1>9. OneReply'
  BY <1>1, <1>4 DEF OneReply, TypeOK, Events
<1>10. AbortAfterAllTries'
  <2>1. hist[It].aborts = 0
    BY <1>1, <1>2 DEF ScanInv, OneReply, Seen, HeldInv
  <2>2. hist[It].sent + 1 <= NUM_ACTION_RETRIES + 1
    BY <1>1, <1>2 DEF EntryInv, Seen
  <2> QED
    BY <1>1, <1>4, <2>1, <2>2 DEF AbortAfterAllTries, TypeOK, Events
<1> QED
  BY <1>5, <1>6, <1>7, <1>8, <1>9, <1>10

LEMMA AckAbortInv == IInv /\ AckAbort => IInv'
<1> SUFFICES ASSUME IInv, AckAbort PROVE IInv'
  OBVIOUS
<1> USE RuleAssumption, TimeAssumption DEF IInv, AckAbort, TriesLeft, Erase
<1>1. It \in todo /\ It \in Events /\ It \in ack_queue_
  BY ItIn DEF ScanInv
<1>2. hist[It] \in Seen
  BY <1>1 DEF TypeOK
<1> DEFINE new == [hist[It] EXCEPT !.aborts = @ + 1]
<1>3. /\ new \in Seen
      /\ new.sent = hist[It].sent /\ new.quiet = hist[It].quiet
      /\ new.acks = hist[It].acks /\ new.aborts = hist[It].aborts + 1
  BY <1>2 DEF Seen
<1>4. hist' = [hist EXCEPT ![It] = new]
  OBVIOUS
<1> HIDE DEF new
<1>5. TypeOK' /\ PcInv' /\ WorkInv' /\ HeldInv' /\ LimitInv'
  <2>1. hist' \in [Events -> Seen]
    BY <1>1, <1>3, <1>4 DEF TypeOK
  <2> QED
    BY <2>1 DEF TypeOK, PcInv, WorkInv, HeldInv, LimitInv, Current, Events
<1>6. ScanInv'
  BY <1>1, <1>3, <1>4 DEF ScanInv, TypeOK
<1>7. EntryInv'
  BY <1>1, <1>3, <1>4 DEF EntryInv, TypeOK, Events
<1>8. OneReply'
  <2>1. hist[It].acks + hist[It].aborts = 0
    BY <1>1 DEF OneReply
  <2>2. new.acks + new.aborts = 1
    BY <1>2, <1>3, <2>1 DEF Seen
  <2>3. It # held \/ pc["main"] # "reply"
    BY <1>1 DEF HeldInv
  <2> QED
    BY <1>1, <1>4, <2>2, <2>3 DEF OneReply, TypeOK, Events
<1>9. AbortAfterAllTries'
  <2>1. hist[It].sent = NUM_ACTION_RETRIES + 1
    BY <1>1, <1>2 DEF AbortAfterAllTries, EntryInv, Seen
  <2> QED
    BY <1>1, <1>3, <1>4, <2>1 DEF AbortAfterAllTries, TypeOK, Events
<1> QED
  BY <1>5, <1>6, <1>7, <1>8, <1>9

LEMMA AckUnlockInv == IInv /\ AckUnlock => IInv'
<1> SUFFICES ASSUME IInv, AckUnlock PROVE IInv'
  OBVIOUS
<1> USE RuleAssumption, TimeAssumption DEF IInv, AckUnlock, Unlocked, seen
<1>1. TypeOK' /\ PcInv'
  BY DEF TypeOK, PcInv, Threads, Callers, Events
<1>2. WorkInv' /\ HeldInv' /\ LimitInv'
  BY DEF TypeOK, WorkInv, HeldInv, LimitInv, Threads, Callers, Current, Events
<1>3. ScanInv'
  BY DEF ScanInv, TypeOK, Threads
<1>4. /\ UNCHANGED <<event_id_, ack_queue_, entry, hist, held>>
      /\ pc'["main"] = pc["main"]
      /\ EntryInv /\ OneReply /\ AbortAfterAllTries
  BY DEF TypeOK, Threads
<1>5. EntryInv' /\ OneReply' /\ AbortAfterAllTries'
  <2> HIDE DEF IInv, AckUnlock
  <2> QED
    BY <1>4 DEF EntryInv, OneReply, AbortAfterAllTries, Events
<1> QED
  BY <1>1, <1>2, <1>3, <1>5
-------------------------------------------------------------------------------
(* The steps of the callers and of time. *)

LEMMA CurrentIn ==
  ASSUME TypeOK, NEW t \in Callers, work[t] # {}
  PROVE  Current(t) \in work[t] /\ Current(t) \in RuleID
<1>1. work[t] \in SUBSET Nat /\ work[t] \subseteq RuleID
  BY RuleAssumption DEF TypeOK, RuleID
<1> QED
  BY <1>1, MinIn DEF Current

LEMMA TickInv == IInv /\ Tick => IInv'
<1> SUFFICES ASSUME IInv, Tick PROVE IInv'
  OBVIOUS
<1> USE RuleAssumption, TimeAssumption DEF IInv, Tick
<1>1. \A n \in 0 .. ACK_TIMEOUT : /\ UpTo(n + 1, ACK_TIMEOUT) \in 0 .. ACK_TIMEOUT
                                  /\ n = ACK_TIMEOUT => UpTo(n + 1, ACK_TIMEOUT) = n
  BY DEF UpTo
<1>2. ASSUME NEW id \in Events
      PROVE  /\ entry'[id] \in Entry /\ hist'[id] \in Seen
             /\ entry'[id].num_tries = entry[id].num_tries
             /\ hist'[id].sent = hist[id].sent
             /\ hist'[id].acks = hist[id].acks
             /\ hist'[id].aborts = hist[id].aborts
             /\ hist'[id].quiet = entry'[id].age
             /\ hist[id].quiet = ACK_TIMEOUT => hist'[id].quiet = ACK_TIMEOUT
  <2>1. /\ entry[id] \in Entry /\ hist[id] \in Seen
        /\ entry[id].age = hist[id].quiet
    BY <1>2 DEF TypeOK, EntryInv
  <2>2. CASE id \in ack_queue_
    <3>1. /\ entry'[id] = [entry[id] EXCEPT !.age = UpTo(@ + 1, ACK_TIMEOUT)]
          /\ hist'[id] = [hist[id] EXCEPT !.quiet = UpTo(@ + 1, ACK_TIMEOUT)]
      BY <1>2, <2>2
    <3> QED
      BY <2>1, <3>1, <1>1 DEF Entry, Seen
  <2>3. CASE id \notin ack_queue_
    BY <1>2, <2>1, <2>3
  <2> QED
    BY <2>2, <2>3
<1>3. /\ rule_since' \in [Rules -> Nat] /\ accept_since' \in [Rules -> Nat]
      /\ \A r \in Rules : rule_since[r] <= accept_since[r] =>
                            rule_since'[r] <= accept_since'[r]
      /\ \A r \in Rules : accept_since[r] >= FireLimit[r] =>
                            accept_since'[r] >= FireLimit[r]
  BY DEF TypeOK, UpTo
<1>4. TypeOK' /\ PcInv' /\ WorkInv' /\ HeldInv'
  BY <1>2, <1>3 DEF TypeOK, PcInv, WorkInv, HeldInv, Current, Events
<1>5. ScanInv'
  BY <1>2 DEF ScanInv, TypeOK
<1>6. EntryInv'
  BY <1>2 DEF EntryInv, Events
<1>7. LimitInv'
  <2>1. pc["main"] = "enqueue" => Current("main") \in Rules
    BY DEF WorkInv, Callers
  <2>2. Current("main")' = Current("main")
    BY DEF Current
  <2> QED
    BY <1>3, <2>1, <2>2 DEF LimitInv
<1>8. OneReply'
  BY <1>2 DEF OneReply, Events
<1>9. AbortAfterAllTries'
  BY <1>2 DEF AbortAfterAllTries, Events
<1> QED
  BY <1>4, <1>5, <1>6, <1>7, <1>8, <1>9

LEMMA ReceiveInv ==
  ASSUME IInv, NEW r \in RuleID \ SysRules, ReceiveEvent(r)
  PROVE  IInv'
<1> USE RuleAssumption, TimeAssumption DEF IInv, ReceiveEvent, seen
<1>1. TypeOK' /\ PcInv' /\ WorkInv' /\ HeldInv' /\ LimitInv'
  BY DEF TypeOK, PcInv, WorkInv, HeldInv, LimitInv, Threads, Callers, Current,
         Events
<1>2. ScanInv' /\ EntryInv' /\ OneReply' /\ AbortAfterAllTries'
  BY DEF ScanInv, EntryInv, OneReply, AbortAfterAllTries, TypeOK, Threads, Events
<1> QED
  BY <1>1, <1>2

LEMMA SystemMessageInv ==
  ASSUME IInv, NEW t \in Callers, SystemMessage(t)
  PROVE  IInv'
<1> USE RuleAssumption, TimeAssumption DEF IInv, SystemMessage, seen
<1>1. TypeOK'
  <2>1. SysRules \in SUBSET RuleID
    BY DEF Rules, RuleID
  <2> QED
    BY <2>1 DEF TypeOK, Threads, Callers, Events
<1>2. PcInv' /\ WorkInv' /\ HeldInv' /\ LimitInv'
  BY DEF TypeOK, PcInv, WorkInv, HeldInv, LimitInv, Threads, Callers, Current,
         Events
<1>3. ScanInv' /\ EntryInv' /\ OneReply' /\ AbortAfterAllTries'
  BY DEF ScanInv, EntryInv, OneReply, AbortAfterAllTries, TypeOK, Threads,
         Callers, Events
<1> QED
  BY <1>1, <1>2, <1>3

\* A caller that goes on to its next rule leaves the threads as the invariant
\* wants them.
LEMMA NextRuleInv ==
  ASSUME IInv, NEW t \in Callers, pc[t] \in {"check", "enqueue"}, NextRule(t)
  PROVE  /\ pc' \in [Threads -> {"idle", "check", "enqueue", "reply", "sleep",
                                 "lock", "scan"}]
         /\ work' \in [Callers -> SUBSET RuleID]
         /\ pc'["ack"] = pc["ack"]
         /\ pc["main"] = "reply" <=> pc'["main"] = "reply"
         /\ pc'["main"] = "enqueue" => /\ pc["main"] = "enqueue"
                                       /\ Current("main")' = Current("main")
         /\ PcInv' /\ WorkInv'
<1> USE DEF IInv, NextRule
<1>1. /\ pc' \in [Threads -> {"idle", "check", "enqueue", "reply", "sleep",
                              "lock", "scan"}]
      /\ work' \in [Callers -> SUBSET RuleID]
  BY DEF TypeOK, Threads, Callers
<1>2. /\ pc'["ack"] = pc["ack"]
      /\ pc["main"] = "reply" <=> pc'["main"] = "reply"
  BY DEF TypeOK, PcInv, Threads, Callers
<1>3. PcInv'
  BY DEF TypeOK, PcInv, Threads, Callers
<1>4. \A u \in Callers : pc'[u] = "enqueue" =>
        pc[u] = "enqueue" /\ work'[u] = work[u]
  BY DEF TypeOK, Threads, Callers
<1>5. WorkInv'
  BY <1>4 DEF TypeOK, WorkInv, Threads, Callers, Current
<1> QED
  BY <1>1, <1>2, <1>3, <1>4, <1>5 DEF Current, Callers

LEMMA CheckDropInv ==
  ASSUME IInv, NEW t \in Callers, CheckUnknown(t) \/ CheckReject(t)
  PROVE  IInv'
<1> USE RuleAssumption, TimeAssumption DEF IInv, seen
<1>1. /\ pc[t] = "check" /\ NextRule(t)
      /\ UNCHANGED <<event_id_, ack_queue_, entry, rule_since, ack_mtx_, held,
                     overdue, todo, hist, accept_since>>
  BY DEF CheckUnknown, CheckReject
<1>2. suppressed' \subseteq Rules
  BY DEF CheckUnknown, CheckReject, TypeOK
<1> USE <1>1
<1>3. TypeOK' /\ PcInv' /\ WorkInv'
  BY <1>2, NextRuleInv DEF TypeOK, Events
<1>4. HeldInv' /\ ScanInv'
  BY NextRuleInv DEF HeldInv, ScanInv, Events
<1>5. LimitInv'
  BY NextRuleInv DEF LimitInv
<1>6. EntryInv' /\ OneReply' /\ AbortAfterAllTries'
  BY NextRuleInv DEF EntryInv, OneReply, AbortAfterAllTries, Events
<1> QED
  BY <1>3, <1>4, <1>5, <1>6

\* The check of the main thread: the rule has not been enqueued for within its
\* limit, since every enqueued event also sets the timestamp.
LEMMA CheckTriggerInv ==
  ASSUME IInv, NEW t \in Callers, CheckTrigger(t)
  PROVE  IInv'
<1> USE RuleAssumption, TimeAssumption DEF IInv, CheckTrigger, seen
<1>1. TypeOK' /\ PcInv' /\ WorkInv' /\ HeldInv' /\ ScanInv'
  BY DEF TypeOK, PcInv, WorkInv, HeldInv, ScanInv, Threads, Callers, Current,
         Events
<1>2. LimitInv'
  <2>1. accept_since[Current(t)] >= FireLimit[Current(t)]
    BY DEF TypeOK, LimitInv, Trigger, TooEarly
  <2> QED
    BY <2>1 DEF LimitInv, TypeOK, Threads, Callers, Current
<1>3. EntryInv' /\ OneReply' /\ AbortAfterAllTries'
  BY DEF EntryInv, OneReply, AbortAfterAllTries, TypeOK, Threads, Callers, Events
<1> QED
  BY <1>1, <1>2, <1>3
\* An event gets an id of its own, and with it the next entry of the queue.
LEMMA EnqueueInv ==
  ASSUME IInv, NEW t \in Callers, Enqueue(t)
  PROVE  IInv'
<1> USE RuleAssumption, TimeAssumption DEF IInv, Enqueue, NextId, Fired
<1> DEFINE r == Current(t)
           fresh == TakenAction([rule |-> r, num_tries |-> 0, age |-> 0])
           first == SeenAction([sent |-> 0, quiet |-> 0, acks |-> 0, aborts |-> 0])
<1>1. event_id_ \in Nat /\ event_id_ \notin Events /\ r \in Rules
  BY DEF TypeOK, Events, WorkInv
<1>2. /\ fresh \in Entry
      /\ fresh.rule = r /\ fresh.num_tries = 1 /\ fresh.age = 0
  BY <1>1 DEF Entry, TakenAction
<1>3. /\ first \in Seen
      /\ first.sent = 1 /\ first.quiet = 0 /\ first.acks = 0 /\ first.aborts = 0
  BY DEF Seen, SeenAction
<1>4. /\ event_id_' = event_id_ + 1
      /\ entry'[event_id_] = fresh /\ hist'[event_id_] = first
      /\ \A id \in Events : entry'[id] = entry[id] /\ hist'[id] = hist[id]
      /\ NextRule(t) /\ pc[t] \in {"check", "enqueue"}
  BY <1>1 DEF Events
<1>5. Events' = Events \cup {event_id_}
  BY <1>1, <1>4 DEF Events
<1> HIDE DEF fresh, first
<1>6. TypeOK' /\ PcInv' /\ WorkInv'
  <2>1. entry' \in [Events' -> Entry] /\ hist' \in [Events' -> Seen]
    <3>1. /\ entry' = [id \in Events' |-> IF id = event_id_ THEN fresh ELSE entry[id]]
          /\ hist' = [id \in Events' |-> IF id = event_id_ THEN first ELSE hist[id]]
      BY <1>1 DEF fresh, first, Events
    <3>2. /\ \A id \in Events' : entry'[id] \in Entry
          /\ \A id \in Events' : hist'[id] \in Seen
      BY <1>2, <1>3, <1>4, <1>5 DEF TypeOK
    <3> QED
      BY <3>1, <3>2
  <2>2. rule_since' \in [Rules -> Nat] /\ accept_since' \in [Rules -> Nat]
    BY DEF TypeOK
  <2>3. ack_queue_' \subseteq Events' /\ todo' \subseteq Events' /\ overdue' \subseteq Events'
    BY <1>5 DEF TypeOK
  <2>4. event_id_' \in Nat
    BY <1>1
  <2> QED
    BY <1>4, <2>1, <2>2, <2>3, <2>4, NextRuleInv DEF TypeOK
<1>7. HeldInv'
  BY <1>1, <1>4, <1>5, NextRuleInv DEF HeldInv
<1>8. ScanInv'
  <2>1. /\ pc'["ack"] = pc["ack"]
        /\ ack_queue_' = ack_queue_ \cup {event_id_}
        /\ UNCHANGED <<ack_mtx_, todo, overdue>>
    BY <1>4, NextRuleInv
  <2>2. event_id_ \notin overdue /\ event_id_ \notin todo
    BY <1>1 DEF TypeOK
  <2>3. \A id \in overdue : hist'[id] = hist[id]
    BY <1>4 DEF TypeOK
  <2>4. ScanInv
    OBVIOUS
  <2> HIDE DEF IInv, Enqueue
  <2> QED
    BY <2>1, <2>2, <2>3, <2>4 DEF ScanInv
<1>9. EntryInv'
  <2>1. EntryInv
    OBVIOUS
  <2> HIDE DEF IInv, Enqueue
  <2> QED
    BY <2>1, <1>2, <1>3, <1>4, <1>5 DEF EntryInv
<1>10. LimitInv'
  <2>1. t = "main" => pc'["main"] # "enqueue"
    BY <1>4 DEF NextRule, TypeOK, Threads, Callers
  <2>2. t = "watchdog" => r \in SysRules
    BY CurrentIn DEF WorkInv
  <2>3. t \in {"main", "watchdog"}
    BY DEF Callers
  <2> QED
    BY <1>1, <1>4, <2>1, <2>2, <2>3, NextRuleInv DEF LimitInv, TypeOK
<1>11. OneReply'
  <2>1. pc["main"] = "reply" => held # event_id_
    BY <1>1 DEF HeldInv
  <2>2. ASSUME NEW id \in Events'
        PROVE  LET out == /\ id \notin ack_queue_'
                          /\ ~(pc'["main"] = "reply" /\ held' = id)
               IN  hist'[id].acks + hist'[id].aborts = IF out THEN 1 ELSE 0
    <3>1. CASE id = event_id_
      BY <1>3, <1>4, <3>1
    <3>2. CASE id \in Events
      <4>1. /\ id \in ack_queue_' <=> id \in ack_queue_
            /\ pc'["main"] = "reply" <=> pc["main"] = "reply"
            /\ held' = held /\ hist'[id] = hist[id]
        BY <1>1, <1>4, <3>2, NextRuleInv
      <4> QED
        BY <3>2, <4>1 DEF OneReply
    <3> QED
      BY <1>5, <3>1, <3>2
  <2> QED
    BY <2>2 DEF OneReply
<1>12. AbortAfterAllTries'
  <2>1. 1 <= NUM_ACTION_RETRIES + 1
    OBVIOUS
  <2>2. ASSUME NEW id \in Events'
        PROVE  /\ hist'[id].sent <= NUM_ACTION_RETRIES + 1
               /\ hist'[id].aborts > 0 => hist'[id].sent = NUM_ACTION_RETRIES + 1
    <3>1. CASE id = event_id_
      BY <1>3, <1>4, <2>1, <3>1
    <3>2. CASE id \in Events
      BY <1>4, <3>2 DEF AbortAfterAllTries
    <3> QED
      BY <1>5, <3>1, <3>2
  <2> QED
    BY <2>2 DEF AbortAfterAllTries
<1> QED
  BY <1>6, <1>7, <1>8, <1>9, <1>10, <1>11, <1>12

\* The entry goes from the queue to acceptAck, which alone answers it.
LEMMA AcceptAckInv ==
  ASSUME IInv, NEW id \in Events, AcceptAck(id)
  PROVE  IInv'
<1> USE RuleAssumption, TimeAssumption DEF IInv, AcceptAck, Erase, seen
<1>1. TypeOK' /\ PcInv' /\ WorkInv' /\ HeldInv' /\ LimitInv'
  BY DEF TypeOK, PcInv, WorkInv, HeldInv, LimitInv, Threads, Callers, Current,
         Events
<1>2. ScanInv'
  BY DEF ScanInv, TypeOK, Threads, Callers
<1>3. OneReply'
  BY DEF OneReply, TypeOK, Threads, Callers, Events
<1>4. EntryInv' /\ AbortAfterAllTries'
  BY DEF EntryInv, AbortAfterAllTries, Events
<1> QED
  BY <1>1, <1>2, <1>3, <1>4

LEMMA ReplyAckInv == IInv /\ ReplyAck => IInv'
<1> SUFFICES ASSUME IInv, ReplyAck PROVE IInv'
  OBVIOUS
<1> USE RuleAssumption, TimeAssumption DEF IInv, ReplyAck
<1>1. held \in Events /\ held \notin ack_queue_
  BY DEF HeldInv
<1> DEFINE new == [hist[held] EXCEPT !.acks = @ + 1]
<1>2. /\ new \in Seen
      /\ new.sent = hist[held].sent /\ new.quiet = hist[held].quiet
      /\ new.acks = hist[held].acks + 1 /\ new.aborts = hist[held].aborts
  BY <1>1 DEF TypeOK, Seen
<1>3. hist' = [hist EXCEPT ![held] = new]
  OBVIOUS
<1> HIDE DEF new
<1>4. TypeOK' /\ PcInv' /\ WorkInv' /\ HeldInv' /\ LimitInv'
  <2>1. hist' \in [Events -> Seen]
    BY <1>1, <1>2, <1>3 DEF TypeOK
  <2> QED
    BY <2>1 DEF TypeOK, PcInv, WorkInv, HeldInv, LimitInv, Threads, Callers,
                Current, Events
<1>5. ScanInv'
  BY <1>1, <1>2, <1>3 DEF ScanInv, TypeOK, Threads, Callers
<1>6. EntryInv'
  BY <1>1, <1>2, <1>3 DEF EntryInv, TypeOK, Events
<1>7. OneReply'
  <2>1. hist[held] \in Seen /\ hist[held].acks + hist[held].aborts = 0
    BY <1>1 DEF OneReply, TypeOK
  <2>2. new.acks + new.aborts = 1
    BY <1>2, <2>1 DEF Seen
  <2>3. /\ \A id \in Events : hist'[id] = IF id = held THEN new ELSE hist[id]
        /\ pc["main"] = "reply" /\ pc'["main"] = "idle"
        /\ ack_queue_' = ack_queue_ /\ Events' = Events
    BY <1>1, <1>3 DEF TypeOK, Threads, Callers, Events
  <2>4. OneReply
    OBVIOUS
  <2> HIDE DEF IInv, ReplyAck
  <2> QED
    BY <1>1, <2>2, <2>3, <2>4 DEF OneReply
<1>8. AbortAfterAllTries'
  BY <1>1, <1>2, <1>3 DEF AbortAfterAllTries, TypeOK, Events
<1> QED
  BY <1>4, <1>5, <1>6, <1>7, <1>8

-------------------------------------------------------------------------------
(* The theorems. *)

LEMMA NextInv == IInv /\ [Next]_vars => IInv'
<1> SUFFICES ASSUME IInv, [Next]_vars PROVE IInv'
  OBVIOUS
<1>1. CASE Tick
  BY <1>1, TickInv
<1>2. CASE \E r \in RuleID \ SysRules : ReceiveEvent(r)
  BY <1>2, ReceiveInv
<1>3. CASE \E t \in Callers : SystemMessage(t)
  BY <1>3, SystemMessageInv
<1>4. CASE \E t \in Callers : CheckUnknown(t) \/ CheckReject(t)
  BY <1>4, CheckDropInv
<1>5. CASE \E t \in Callers : CheckTrigger(t)
  BY <1>5, CheckTriggerInv
<1>6. CASE \E t \in Callers : Enqueue(t)
  BY <1>6, EnqueueInv
<1>7. CASE \E id \in Events : AcceptAck(id)
  BY <1>7, AcceptAckInv
<1>8. CASE ReplyAck
  BY <1>8, ReplyAckInv
<1>9. CASE AckThread
  BY <1>9, AckWakeInv, AckLockInv, AckSkipInv, AckRetryInv, AckAbortInv,
     AckUnlockInv DEF AckThread
<1>10. CASE UNCHANGED vars
  BY <1>10 DEF vars, IInv, TypeOK, PcInv, WorkInv, HeldInv, ScanInv, EntryInv,
               LimitInv, OneReply, AbortAfterAllTries, Events, Current
<1> QED
  BY <1>1, <1>2, <1>3, <1>4, <1>5, <1>6, <1>7, <1>8, <1>9, <1>10
     DEF Next, CheckEvent

\* IInv is an invariant of the engine.
THEOREM Invariance == Spec => []IInv
<1> QED
  BY InitInv, NextInv, PTL DEF Spec

\* Every variable of the engine keeps its type (ruleengine.h:120-131).
THEOREM TypeCorrectness == Spec => []TypeOK
<1>1. IInv => TypeOK
  BY DEF IInv
<1> QED
  BY <1>1, Invariance, PTL

\* Each enqueued event is answered and its entry freed once, by acceptAck or by
\* the ack thread, whatever acknowledgements come late or twice.
THEOREM OneReplyPerEvent == Spec => []OneReply
<1>1. IInv => OneReply
  BY DEF IInv
<1> QED
  BY <1>1, Invariance, PTL

\* An event is given up only after NUM_ACTION_RETRIES retries, and no action is
\* sent more often.
THEOREM AllTriesBeforeAbort == Spec => []AbortAfterAllTries
<1>1. IInv => AbortAfterAllTries
  BY DEF IInv
<1> QED
  BY <1>1, Invariance, PTL
-------------------------------------------------------------------------------
(* What a step does to what the modules have seen. *)

\* The event of the entry a retry or an abort is about.
LEMMA ItOverdue ==
  ASSUME IInv, todo # {}, It \in overdue
  PROVE  /\ It \in Events /\ It \in ack_queue_
         /\ hist[It].quiet = ACK_TIMEOUT
         /\ hist[It] \in Seen
         /\ hist[It].acks = 0 /\ hist[It].aborts = 0
         /\ entry[It].num_tries = hist[It].sent
<1> USE DEF IInv
<1>1. It \in todo /\ It \in Events /\ It \in ack_queue_
  BY ItIn DEF ScanInv
<1>2. hist[It] \in Seen /\ hist[It].acks + hist[It].aborts = 0
  BY <1>1 DEF TypeOK, OneReply
<1> QED
  BY <1>1, <1>2 DEF ScanInv, EntryInv, Seen

\* Steps that send nothing to a module: time, the checks, locking and unlocking.
Silent ==
  /\ event_id_' = event_id_
  /\ \A id \in Events : /\ hist'[id].sent = hist[id].sent
                        /\ hist'[id].acks = hist[id].acks
                        /\ hist'[id].aborts = hist[id].aborts

LEMMA SilentSteps ==
  ASSUME IInv, [Next]_vars
  PROVE  Silent \/ (\E t \in Callers : Enqueue(t)) \/ ReplyAck \/ AckRetry \/ AckAbort
<1> USE DEF Silent, seen
<1>1. CASE Tick
  <2>1. ASSUME NEW id \in Events
        PROVE  /\ hist'[id].sent = hist[id].sent
               /\ hist'[id].acks = hist[id].acks
               /\ hist'[id].aborts = hist[id].aborts
    <3>1. hist[id] \in Seen
      BY DEF IInv, TypeOK
    <3>2. CASE id \in ack_queue_
      <4>1. hist'[id] = [hist[id] EXCEPT !.quiet = UpTo(@ + 1, ACK_TIMEOUT)]
        BY <1>1, <3>2 DEF Tick
      <4> QED
        BY <3>1, <4>1 DEF Seen
    <3>3. CASE id \notin ack_queue_
      BY <1>1, <3>3 DEF Tick
    <3> QED
      BY <3>2, <3>3
  <2> QED
    BY <1>1, <2>1 DEF Tick
<1>2. CASE \E r \in RuleID \ SysRules : ReceiveEvent(r)
  BY <1>2 DEF ReceiveEvent
<1>3. CASE \E t \in Callers : SystemMessage(t) \/ CheckEvent(t)
  BY <1>3 DEF SystemMessage, CheckEvent, CheckUnknown, CheckReject, CheckTrigger
<1>4. CASE \E id \in Events : AcceptAck(id)
  BY <1>4 DEF AcceptAck
<1>5. CASE AckWake \/ AckLock \/ AckSkip \/ AckUnlock
  BY <1>5 DEF AckWake, AckLock, AckSkip, AckUnlock
<1>6. CASE UNCHANGED vars
  BY <1>6 DEF vars
<1> QED
  BY <1>1, <1>2, <1>3, <1>4, <1>5, <1>6 DEF Next, AckThread

LEMMA RetryStep ==
  ASSUME IInv, [Next]_vars, NEW id \in Events, hist'[id].sent # hist[id].sent
  PROVE  id \in ack_queue_ /\ hist[id].quiet = ACK_TIMEOUT
<1>1. ~Silent
  BY DEF Silent
<1>2. ASSUME NEW t \in Callers, Enqueue(t) PROVE FALSE
  <2>1. hist'[id] = hist[id]
    BY <1>2 DEF Enqueue, Events, IInv, TypeOK
  <2> QED
    BY <2>1
<1>3. ASSUME ReplyAck PROVE FALSE
  BY <1>3 DEF ReplyAck, IInv, HeldInv, TypeOK, Seen
<1>4. ASSUME AckAbort PROVE FALSE
  BY <1>4, ItOverdue DEF AckAbort, IInv, TypeOK, Seen
<1>5. AckRetry
  BY <1>1, <1>2, <1>3, <1>4, SilentSteps
<1>6. id = It
  BY <1>5 DEF AckRetry, IInv, TypeOK
<1> QED
  BY <1>5, <1>6, ItOverdue DEF AckRetry

\* ACK_TIMEOUT passes between two actions of an event, and none is sent of an
\* event that is not in the queue any more (ruleengine.cpp:158-173).
THEOREM RetriesAreOverdue == Spec => RetryOnlyOverdue
<1>1. IInv /\ [Next]_vars => [ResendsOverdue]_vars
  BY RetryStep DEF ResendsOverdue
<1> QED
  BY <1>1, Invariance, PTL DEF Spec, RetryOnlyOverdue

LEMMA FireLimitStep ==
  ASSUME IInv, [Next]_vars PROVE AcceptsInLimit(Rules \ SysRules)
<1> SUFFICES ASSUME event_id_' # event_id_,
                    entry'[event_id_].rule \in Rules \ SysRules
             PROVE  LET r == entry'[event_id_].rule
                    IN  accept_since[r] >= FireLimit[r]
  BY DEF AcceptsInLimit
<1>1. PICK t \in Callers : Enqueue(t)
  BY SilentSteps DEF Silent, ReplyAck, AckRetry, AckAbort
<1>2. entry'[event_id_].rule = Current(t)
  BY <1>1 DEF Enqueue, TakenAction, IInv, TypeOK
<1>3. t # "watchdog"
  BY <1>1, <1>2, CurrentIn DEF Enqueue, IInv, WorkInv
<1>4. t = "main"
  BY <1>3 DEF Callers
<1> QED
  BY <1>1, <1>2, <1>4 DEF Enqueue, IInv, LimitInv

\* Events of a rule that modules raise are enqueued fire_limit apart, although
\* enqueueEvent reads the timestamp without ack_mtx_ (ruleengine.cpp:45-70).
THEOREM ModuleRulesKeepFireLimit == Spec => ModuleFireLimit
<1>1. IInv /\ [Next]_vars => [AcceptsInLimit(Rules \ SysRules)]_vars
  BY FireLimitStep
<1> QED
  BY <1>1, Invariance, PTL DEF Spec, ModuleFireLimit
-------------------------------------------------------------------------------
(* The refinement. *)

LEMMA DeliveryInit == Init => Delivery!Init
BY DEF Init, Delivery!Init, Events

\* A step that changes neither ids, sends nor replies is a stutter.
LEMMA SilentStutters ==
  ASSUME IInv, Silent
  PROVE  UNCHANGED Delivery!vars
<1>1. Events' = Events
  BY DEF Silent, Events
<1>2. \A id \in Events : Told(hist'[id]) = Told(hist[id])
  BY DEF Silent, Told
<1> QED
  BY <1>1, <1>2 DEF Silent, Delivery!vars

LEMMA EnqueueAccepts ==
  ASSUME IInv, NEW t \in Callers, Enqueue(t)
  PROVE  Delivery!Accept
<1> DEFINE first == SeenAction([sent |-> 0, quiet |-> 0, acks |-> 0, aborts |-> 0])
<1>1. first.sent = 1 /\ Told(first) = "pending"
  BY DEF SeenAction, Told
<1>2. event_id_ \in Nat /\ event_id_' = event_id_ + 1
  BY DEF IInv, TypeOK, Enqueue, NextId
<1>3. hist' = [id \in 0 .. event_id_ |-> IF id = event_id_ THEN first ELSE hist[id]]
  BY DEF Enqueue
<1> HIDE DEF first
<1>4. Events' = 0 .. event_id_
  BY <1>2 DEF Events
<1>5. \A id \in 0 .. event_id_ : id # event_id_ => id \in Events
  BY <1>2 DEF Events
<1> QED
  BY <1>1, <1>2, <1>3, <1>4, <1>5 DEF Delivery!Accept

LEMMA RetryRetries ==
  ASSUME IInv, AckRetry, NEW e, e = It
  PROVE  Delivery!Retry(e) /\ e \in Delivery!Accepted
<1>1. /\ It \in Events /\ hist[It] \in Seen
      /\ Told(hist[It]) = "pending" /\ hist[It].sent <= NUM_ACTION_RETRIES
  BY ItOverdue DEF AckRetry, TriesLeft, Told
<1>2. /\ SeenAction(hist[It]).sent = hist[It].sent + 1
      /\ Told(SeenAction(hist[It])) = Told(hist[It])
  BY <1>1, SeenActionType DEF Told
<1>3. Events' = Events /\ event_id_' = event_id_
  BY DEF AckRetry, Events
<1>4. /\ hist'[It] = SeenAction(hist[It])
      /\ \A id \in Events : id # It => hist'[id] = hist[id]
  BY <1>1 DEF AckRetry, IInv, TypeOK
<1>5. It \in Delivery!Accepted
  BY <1>1 DEF Delivery!Accepted, Events
<1>6. [id \in Events |-> Told(hist[id])]' = [id \in Events |-> Told(hist[id])]
  BY <1>2, <1>3, <1>4
<1>7. [id \in Events |-> hist[id].sent]' =
        [[id \in Events |-> hist[id].sent] EXCEPT ![e] = hist[e].sent + 1]
  BY <1>1, <1>2, <1>3, <1>4
<1> QED
  BY <1>1, <1>3, <1>5, <1>6, <1>7 DEF Delivery!Retry

\* A reply changes the outcome of one pending event and sends no action.
LEMMA ReplyOutcome ==
  ASSUME IInv, NEW e \in Events, NEW h \in Seen, NEW told,
         hist' = [hist EXCEPT ![e] = h], h.sent = hist[e].sent,
         Told(h) = told, event_id_' = event_id_
  PROVE  /\ [id \in Events |-> hist[id].sent]' = [id \in Events |-> hist[id].sent]
         /\ [id \in Events |-> Told(hist[id])]' =
              [[id \in Events |-> Told(hist[id])] EXCEPT ![e] = told]
<1>1. Events' = Events
  BY DEF Events
<1>2. hist'[e] = h /\ \A id \in Events : id # e => hist'[id] = hist[id]
  BY DEF IInv, TypeOK
<1>3. \A id \in Events : hist'[id].sent = hist[id].sent
  BY <1>2
<1>4. \A id \in Events : Told(hist'[id]) = IF id = e THEN told ELSE Told(hist[id])
  BY <1>2
<1> QED
  BY <1>1, <1>3, <1>4

LEMMA AbortAborts ==
  ASSUME IInv, AckAbort
  PROVE  Delivery!Abort(It) /\ It \in Delivery!Accepted
<1>1. /\ It \in Events /\ hist[It] \in Seen /\ Told(hist[It]) = "pending"
      /\ hist[It].acks = 0 /\ hist[It].aborts = 0
      /\ hist[It].sent = NUM_ACTION_RETRIES + 1
  BY ItOverdue, TimeAssumption DEF AckAbort, TriesLeft, IInv, AbortAfterAllTries, Told,
                              Seen
<1> DEFINE h == [hist[It] EXCEPT !.aborts = @ + 1]
<1>2. h \in Seen /\ h.sent = hist[It].sent /\ Told(h) = "aborted"
  BY <1>1 DEF Seen, Told
<1>3. hist' = [hist EXCEPT ![It] = h] /\ event_id_' = event_id_
  BY DEF AckAbort
<1> HIDE DEF h
<1>4. It \in Delivery!Accepted
  BY <1>1 DEF Delivery!Accepted, Events
<1>5. /\ [id \in Events |-> hist[id].sent]' = [id \in Events |-> hist[id].sent]
      /\ [id \in Events |-> Told(hist[id])]' =
           [[id \in Events |-> Told(hist[id])] EXCEPT ![It] = "aborted"]
  BY <1>1, <1>2, <1>3, ReplyOutcome
<1> QED
  BY <1>1, <1>3, <1>4, <1>5 DEF Delivery!Abort

LEMMA ReplyAcknowledges ==
  ASSUME IInv, ReplyAck
  PROVE  Delivery!Acknowledge(held) /\ held \in Delivery!Accepted
<1>1. held \in Events /\ hist[held] \in Seen
  BY DEF ReplyAck, IInv, HeldInv, TypeOK
<1>2. hist[held].acks + hist[held].aborts = 0
  BY <1>1 DEF ReplyAck, IInv, OneReply
<1>3. hist[held].acks = 0 /\ hist[held].aborts = 0 /\ Told(hist[held]) = "pending"
  BY <1>1, <1>2 DEF Seen, Told
<1> DEFINE h == [hist[held] EXCEPT !.acks = @ + 1]
<1>4. h \in Seen /\ h.sent = hist[held].sent /\ Told(h) = "acknowledged"
  BY <1>1, <1>3 DEF Seen, Told
<1>5. hist' = [hist EXCEPT ![held] = h] /\ event_id_' = event_id_
  BY DEF ReplyAck
<1> HIDE DEF h
<1>6. held \in Delivery!Accepted
  BY <1>1 DEF Delivery!Accepted, Events
<1> QED
  BY <1>1, <1>3, <1>4, <1>5, <1>6, ReplyOutcome DEF Delivery!Acknowledge

\* The engine with its threads, mutex and timeouts implements EventDelivery.
THEOREM EngineDelivers == Spec => ImplementsDelivery
<1>1. IInv /\ [Next]_vars => [Delivery!Next]_Delivery!vars
  <2> SUFFICES ASSUME IInv, [Next]_vars
               PROVE  Delivery!Next \/ UNCHANGED Delivery!vars
    OBVIOUS
  <2>1. CASE Silent
    BY <2>1, SilentStutters
  <2>2. CASE \E t \in Callers : Enqueue(t)
    BY <2>2, EnqueueAccepts DEF Delivery!Next
  <2>3. CASE ReplyAck
    BY <2>3, ReplyAcknowledges DEF Delivery!Next
  <2>4. CASE AckRetry
    <3>1. PICK e : e = It
      OBVIOUS
    <3> QED
      BY <2>4, <3>1, RetryRetries DEF Delivery!Next
  <2>5. CASE AckAbort
    BY <2>5, AbortAborts DEF Delivery!Next
  <2>6. \/ Silent
        \/ \E t \in Callers : Enqueue(t)
        \/ ReplyAck \/ AckRetry \/ AckAbort
    BY SilentSteps
  <2> QED
    BY <2>1, <2>2, <2>3, <2>4, <2>5, <2>6
<1> QED
  BY <1>1, DeliveryInit, Invariance, PTL DEF Spec, ImplementsDelivery, Delivery!Spec
===============================================================================
