------------------------------ MODULE RuleEngine ------------------------------
(***************************************************************************)
(* The rule engine of the core (core/ruleengine.cpp).  Two threads hand it *)
(* events: the main thread, which reads the core queue (Sentri::readMessage), *)
(* and the watchdog thread, which raises a system message when it buries a *)
(* module.  A third thread, the ack thread, re-sends the action of an      *)
(* event that no action module acknowledges and gives the event up after   *)
(* NUM_ACTION_RETRIES retries.                                             *)
(*                                                                         *)
(* Time is what the code compares: the time since an action was sent and   *)
(* since a rule last fired.  Both are counted in ticks and stop at the     *)
(* limit they are compared with, beyond which they cannot be told apart,   *)
(* so no clock has to be bounded.                                          *)
(*                                                                         *)
(* An operator X_Y beside an operator X is X with a plausible mistake Y; no *)
(* action uses it.  It is there to see a property of the code fail.        *)
(***************************************************************************)
EXTENDS Naturals, FiniteSetsExt

CONSTANTS
  NumRules,            \* rules_.size(); the id of a rule is its index
  SysRules,            \* rules whose event is the system message
  Disabled,            \* rules with is_disabled
  FireLimit,           \* fire_limit of each rule in ticks, 0 when it has none
  ACK_TIMEOUT,         \* in ticks
  NUM_ACTION_RETRIES,
  MaxUptime,           \* bound: longest uptime of the host when the core starts
  MaxEvents            \* bound: no message is read once so many events have an id

Rules   == 0 .. NumRules - 1
RuleID  == 0 .. NumRules      \* NumRules: a stale id, of no rule
Callers == {"main", "watchdog"}
Threads == Callers \cup {"ack"}

ASSUME RuleAssumption ==
  /\ NumRules \in Nat
  /\ SysRules \subseteq Rules
  /\ Disabled \subseteq Rules
  /\ FireLimit \in [Rules -> Nat]

ASSUME TimeAssumption ==
  /\ ACK_TIMEOUT \in Nat \ {0}
  /\ NUM_ACTION_RETRIES \in Nat
  /\ MaxUptime \in Nat
  /\ MaxEvents \in Nat

-------------------------------------------------------------------------------
VARIABLES
  event_id_,    \* next event id
  ack_queue_,   \* ids of the events that wait for an acknowledgement; the list
                \* is in the order of its ids: they are given and appended
                \* under ack_mtx_
  entry,        \* the EventEntry of each id given so far
  rule_since,   \* ticks since rule_timestamps_[r]
  ack_mtx_,     \* the thread that holds the mutex, or "free"
  pc,           \* where each thread is
  work,         \* rules a caller still has to enqueue an event for
  held,         \* the entry acceptAck took out of the queue
  overdue,      \* entries that have timed out at the ack thread's `now`
  todo          \* entries the ack thread's loop has not visited

\* What the environment has seen: never read by the actions' guards.
VARIABLES
  hist,         \* per event: actions sent, ticks since the last one, replies
  accept_since, \* ticks since an event of the rule was last enqueued
  suppressed    \* rules of which the fire limit has rejected an event

seen == <<hist, accept_since, suppressed>>
vars == <<event_id_, ack_queue_, entry, rule_since, ack_mtx_, pc, work, held,
          overdue, todo, hist, accept_since, suppressed>>

Events == 0 .. event_id_ - 1
UpTo(n, limit) == IF n < limit THEN n ELSE limit

\* The timestamps start at 0, which the steady clock reads as the boot of the
\* host: a rule that never fired looks as if it had fired at boot.
Init ==
  /\ event_id_ = 0
  /\ ack_queue_ = {}
  /\ entry = [id \in {} |-> {}]
  /\ \E uptime \in 0 .. MaxUptime :
       rule_since = [r \in Rules |-> UpTo(uptime, FireLimit[r])]
  /\ ack_mtx_ = "free"
  /\ pc = [t \in Threads |-> IF t = "ack" THEN "sleep" ELSE "idle"]
  /\ work = [t \in Callers |-> {}]
  /\ held = 0
  /\ overdue = {}
  /\ todo = {}
  /\ hist = [id \in {} |-> {}]
  /\ accept_since = FireLimit
  /\ suppressed = {}

-------------------------------------------------------------------------------
(* Time *)

Tick ==
  /\ entry' = [id \in Events |->
                 IF id \in ack_queue_
                   THEN [entry[id] EXCEPT !.age = UpTo(@ + 1, ACK_TIMEOUT)]
                   ELSE entry[id]]
  /\ hist' = [id \in Events |->
                IF id \in ack_queue_
                  THEN [hist[id] EXCEPT !.quiet = UpTo(@ + 1, ACK_TIMEOUT)]
                  ELSE hist[id]]
  /\ rule_since' = [r \in Rules |-> UpTo(rule_since[r] + 1, FireLimit[r])]
  /\ accept_since' = [r \in Rules |-> UpTo(accept_since[r] + 1, FireLimit[r])]
  /\ UNCHANGED <<event_id_, ack_queue_, ack_mtx_, pc, work, held, overdue, todo,
                 suppressed>>

-------------------------------------------------------------------------------
(* enqueueEvent, called by the main thread for MSG_EVENT and by systemMessage *)

\* An event module only raises events of its own rules.  It may have read a
\* newer rules.conf than the core, and then name a rule the core does not have.
ReceiveEvent(r) ==
  /\ event_id_ < MaxEvents
  /\ pc["main"] = "idle"
  /\ pc' = [pc EXCEPT !["main"] = "check"]
  /\ work' = [work EXCEPT !["main"] = {r}]
  /\ UNCHANGED <<event_id_, ack_queue_, entry, rule_since, ack_mtx_, held,
                 overdue, todo, seen>>

\* systemMessage: MSG_SYS in the main thread, buryModule in the watchdog's.
SystemMessage(t) ==
  /\ event_id_ < MaxEvents
  /\ pc[t] = "idle"
  /\ SysRules # {}
  /\ pc' = [pc EXCEPT ![t] = "check"]
  /\ work' = [work EXCEPT ![t] = SysRules]
  /\ UNCHANGED <<event_id_, ack_queue_, entry, rule_since, ack_mtx_, held,
                 overdue, todo, seen>>

Current(t) == Min(work[t])

\* The caller goes on to the next rule, or back to its own loop.
NextRule(t) ==
  LET rest == work[t] \ {Current(t)}
  IN  /\ work' = [work EXCEPT ![t] = rest]
      /\ pc' = [pc EXCEPT ![t] = IF rest = {} THEN "idle" ELSE "check"]

TooEarly(r) == FireLimit[r] > 0 /\ rule_since[r] < FireLimit[r]
Trigger(r)  == r \notin Disabled /\ ~TooEarly(r)

\* getRule throws: the event is dropped with a warning and nobody is told.
CheckUnknown(t) ==
  /\ pc[t] = "check"
  /\ Current(t) \notin Rules
  /\ NextRule(t)
  /\ UNCHANGED <<event_id_, ack_queue_, entry, rule_since, ack_mtx_, held,
                 overdue, todo, seen>>

\* The event was given no id: the abort carries that of the caller's entry.
CheckReject(t) ==
  /\ pc[t] = "check"
  /\ Current(t) \in Rules
  /\ ~Trigger(Current(t))
  /\ suppressed' = IF Current(t) \in Disabled THEN suppressed
                                              ELSE suppressed \cup {Current(t)}
  /\ NextRule(t)
  /\ UNCHANGED <<event_id_, ack_queue_, entry, rule_since, ack_mtx_, held,
                 overdue, todo, hist, accept_since>>

\* The constraints are read without the mutex: Enqueue comes later.
CheckTrigger(t) ==
  /\ pc[t] = "check"
  /\ Current(t) \in Rules
  /\ Trigger(Current(t))
  /\ pc' = [pc EXCEPT ![t] = "enqueue"]
  /\ UNCHANGED <<event_id_, ack_queue_, entry, rule_since, ack_mtx_, work, held,
                 overdue, todo, seen>>

\* num_tries and action_sent as takeAction leaves them.
TakenAction(e) ==
  [rule |-> e.rule, num_tries |-> e.num_tries + 1, age |-> 0]
SeenAction(h) ==
  [sent |-> h.sent + 1, quiet |-> 0, acks |-> h.acks, aborts |-> h.aborts]

\* takeAction's timestamp, of a first action and of a retry alike.
Fired_Untimed(r) == rule_since
Fired(r) == [rule_since EXCEPT ![r] = 0]

NextId_Reused == event_id_
NextId == event_id_ + 1

\* The section under ack_mtx_: id, push_back and takeAction.
Enqueue(t) ==
  LET r     == Current(t)
      fresh == TakenAction([rule |-> r, num_tries |-> 0, age |-> 0])
      first == SeenAction([sent |-> 0, quiet |-> 0, acks |-> 0, aborts |-> 0])
  IN  /\ pc[t] = "enqueue"
      /\ ack_mtx_ = "free"
      /\ event_id_' = NextId
      /\ ack_queue_' = ack_queue_ \cup {event_id_}
      /\ entry' = [id \in 0 .. event_id_ |->
                     IF id = event_id_ THEN fresh ELSE entry[id]]
      /\ hist' = [id \in 0 .. event_id_ |->
                    IF id = event_id_ THEN first ELSE hist[id]]
      /\ rule_since' = Fired(r)
      /\ accept_since' = [accept_since EXCEPT ![r] = 0]
      /\ NextRule(t)
      /\ UNCHANGED <<ack_mtx_, held, overdue, todo, suppressed>>

-------------------------------------------------------------------------------
(* acceptAck, in the main thread *)

Erase_Forgotten(id) == ack_queue_
Erase(id) == ack_queue_ \ {id}

\* MSG_ACKAC arrives for an event whose action was sent, in time, late or again;
\* the id of an event that is not in the queue is ignored.
AcceptAck(id) ==
  /\ pc["main"] = "idle"
  /\ ack_mtx_ = "free"
  /\ id \in ack_queue_
  /\ ack_queue_' = Erase(id)
  /\ held' = id
  /\ pc' = [pc EXCEPT !["main"] = "reply"]
  /\ UNCHANGED <<event_id_, entry, rule_since, ack_mtx_, work, overdue, todo,
                 seen>>

\* After the mutex is released: tell the event module and free the entry.
ReplyAck ==
  /\ pc["main"] = "reply"
  /\ hist' = [hist EXCEPT ![held].acks = @ + 1]
  /\ pc' = [pc EXCEPT !["main"] = "idle"]
  /\ UNCHANGED <<event_id_, ack_queue_, entry, rule_since, ack_mtx_, work, held,
                 overdue, todo, accept_since, suppressed>>

-------------------------------------------------------------------------------
(* ackThread *)

TimedOut_Untried(e) == e.age >= ACK_TIMEOUT /\ e.num_tries <= NUM_ACTION_RETRIES
TimedOut(e) == e.age >= ACK_TIMEOUT

\* `now` is read before the mutex is taken.  Only this thread sends an action
\* again, so the entries that have timed out at `now` are known here.
AckWake ==
  /\ pc["ack"] = "sleep"
  /\ pc' = [pc EXCEPT !["ack"] = "lock"]
  /\ overdue' = {id \in ack_queue_ : TimedOut(entry[id])}
  /\ UNCHANGED <<event_id_, ack_queue_, entry, rule_since, ack_mtx_, work, held,
                 todo, seen>>

\* The loop runs over the queue as it is under the mutex.
LoopEntries_Stale == overdue
LoopEntries == ack_queue_

AckLock ==
  /\ pc["ack"] = "lock"
  /\ ack_mtx_ = "free"
  /\ ack_mtx_' = "ack"
  /\ pc' = [pc EXCEPT !["ack"] = "scan"]
  /\ todo' = LoopEntries
  /\ UNCHANGED <<event_id_, ack_queue_, entry, rule_since, work, held, overdue,
                 seen>>

It == Min(todo)

AckSkip ==
  /\ pc["ack"] = "scan"
  /\ todo # {}
  /\ It \notin overdue
  /\ todo' = todo \ {It}
  /\ UNCHANGED <<event_id_, ack_queue_, entry, rule_since, ack_mtx_, pc, work,
                 held, overdue, seen>>

TriesLeft_OneLess(e) == e.num_tries < NUM_ACTION_RETRIES
TriesLeft_OneMore(e) == e.num_tries <= NUM_ACTION_RETRIES + 1
TriesLeft(e) == e.num_tries <= NUM_ACTION_RETRIES

AckRetry ==
  /\ pc["ack"] = "scan"
  /\ todo # {}
  /\ It \in overdue
  /\ TriesLeft(entry[It])
  /\ entry' = [entry EXCEPT ![It] = TakenAction(@)]
  /\ hist' = [hist EXCEPT ![It] = SeenAction(@)]
  /\ rule_since' = Fired(entry[It].rule)
  /\ todo' = todo \ {It}
  /\ UNCHANGED <<event_id_, ack_queue_, ack_mtx_, pc, work, held, overdue,
                 accept_since, suppressed>>

AckAbort ==
  /\ pc["ack"] = "scan"
  /\ todo # {}
  /\ It \in overdue
  /\ ~TriesLeft(entry[It])
  /\ ack_queue_' = Erase(It)
  /\ hist' = [hist EXCEPT ![It].aborts = @ + 1]
  /\ todo' = todo \ {It}
  /\ UNCHANGED <<event_id_, entry, rule_since, ack_mtx_, pc, work, held, overdue,
                 accept_since, suppressed>>

Unlocked_Forgotten == "ack"
Unlocked == "free"

AckUnlock ==
  /\ pc["ack"] = "scan"
  /\ todo = {}
  /\ ack_mtx_' = Unlocked
  /\ pc' = [pc EXCEPT !["ack"] = "sleep"]
  /\ overdue' = {}
  /\ UNCHANGED <<event_id_, ack_queue_, entry, rule_since, work, held, todo, seen>>

-------------------------------------------------------------------------------
CheckEvent(t) == CheckUnknown(t) \/ CheckReject(t) \/ CheckTrigger(t)
AckThread == AckWake \/ AckLock \/ AckSkip \/ AckRetry \/ AckAbort \/ AckUnlock

Next ==
  \/ Tick
  \/ \E r \in RuleID \ SysRules : ReceiveEvent(r)
  \/ \E t \in Callers : SystemMessage(t) \/ CheckEvent(t) \/ Enqueue(t)
  \/ \E id \in Events : AcceptAck(id)
  \/ ReplyAck
  \/ AckThread

Spec == Init /\ [][Next]_vars

\* The threads are scheduled and time passes.  The ack thread sleeps for
\* ACK_CHECK_INTERVAL without the mutex between two scans, which lets a caller
\* that waits for it in: that is the strong fairness.  Nothing makes a module
\* raise an event or acknowledge one.
Fairness ==
  /\ WF_vars(Tick)
  /\ WF_vars(AckThread)
  /\ WF_vars(ReplyAck)
  /\ \A t \in Callers : WF_vars(CheckEvent(t)) /\ SF_vars(Enqueue(t))

FairSpec == Spec /\ Fairness

-------------------------------------------------------------------------------
(* Properties *)

Entry == [rule : Rules, num_tries : Nat, age : 0 .. ACK_TIMEOUT]
Seen  == [sent : Nat, quiet : 0 .. ACK_TIMEOUT, acks : Nat, aborts : Nat]

\* Every variable has its type: ids and entries go together, the callers are in
\* enqueueEvent or acceptAck, the mutex is free or the ack thread's.
TypeOK ==
  /\ event_id_ \in Nat
  /\ ack_queue_ \subseteq Events
  /\ entry \in [Events -> Entry]
  /\ rule_since \in [Rules -> Nat]
  /\ ack_mtx_ \in {"free", "ack"}
  /\ pc \in [Threads -> {"idle", "check", "enqueue", "reply", "sleep", "lock",
                         "scan"}]
  /\ work \in [Callers -> SUBSET RuleID]
  /\ held \in Nat
  /\ overdue \subseteq Events
  /\ todo \subseteq Events
  /\ hist \in [Events -> Seen]
  /\ accept_since \in [Rules -> Nat]
  /\ suppressed \subseteq Rules

\* acceptAck uses and frees an entry after it has released the mutex, the ack
\* thread frees one under it.  An entry that is still in the queue, or that
\* acceptAck is about to use, was answered by nobody; every other one was
\* answered, and so freed, exactly once.
OneReply ==
  \A id \in Events :
    LET out == id \notin ack_queue_ /\ ~(pc["main"] = "reply" /\ held = id)
    IN  hist[id].acks + hist[id].aborts = IF out THEN 1 ELSE 0

\* The engine gives an event up only when its action was sent once and retried
\* NUM_ACTION_RETRIES times, and never sends it more often.
AbortAfterAllTries ==
  \A id \in Events :
    /\ hist[id].sent <= NUM_ACTION_RETRIES + 1
    /\ hist[id].aborts > 0 => hist[id].sent = NUM_ACTION_RETRIES + 1

ResendsOverdue ==
  \A id \in Events :
    hist'[id].sent # hist[id].sent => id \in ack_queue_ /\ hist[id].quiet = ACK_TIMEOUT

\* An action is sent only for an event that is pending, and again only when
\* ACK_TIMEOUT has passed since it was last sent, although ackThread reads the
\* time before it waits for the mutex, behind which events are acknowledged.
RetryOnlyOverdue == [][ResendsOverdue]_vars

AcceptsInLimit(S) ==
  event_id_' # event_id_ =>
    LET r == entry'[event_id_].rule
    IN  r \in S => accept_since[r] >= FireLimit[r]

\* Two events of a rule that a module raises are enqueued fire_limit apart,
\* although enqueueEvent reads the timestamp without the mutex.
ModuleFireLimit == [][AcceptsInLimit(Rules \ SysRules)]_vars

\* The same of every rule, as ruleengine.h:66 and 69 promise of enqueueEvent:
\* only events that fulfil the constraints are enqueued, thread-safe.
FireLimitOfAll == [][AcceptsInLimit(Rules)]_vars

\* The fire limit rejects an event only of a rule that has fired before.
SuppressedHasFired == \A r \in suppressed : \E id \in Events : entry[id].rule = r

\* Every event that is enqueued is acknowledged or aborted in the end.
EveryEventAnswered ==
  \A id \in 0 .. MaxEvents - 1 :
    (id \in ack_queue_) ~> (id \in Events /\ hist[id].acks + hist[id].aborts = 1)

\* Every event a thread has taken on is decided: nobody waits for ack_mtx_ forever.
CallersReturn == \A t \in Callers : (pc[t] # "idle") ~> (pc[t] = "idle")
=============================================================================
