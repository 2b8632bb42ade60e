------------------------------- MODULE Delivery -------------------------------
(***************************************************************************)
(* The way of an event through the whole system: an event module raises it *)
(* (lib_module/module.cpp), the core turns it into an action               *)
(* (core/sentri.cpp), an action module carries the action out and          *)
(* acknowledges it (module_mail, module_sms or module_firebase), and the   *)
(* core tells the event module.  Every arrow is a queue of Messaging, every *)
(* process may die and be forked again, and the rule engine is             *)
(* EventDelivery, which RuleEngine implements.                             *)
(*                                                                         *)
(* What is abstracted: the clock (an action that is not acknowledged may   *)
(* time out at any moment), the flood limit (a message may be dropped      *)
(* whenever the module calls isFlooding), and the other modules, whose     *)
(* heartbeats and log messages fill the core queue.                        *)
(*                                                                         *)
(* An operator X_Y beside an operator X is X with a plausible mistake Y; no *)
(* action uses it.  It is there to see a property of the code fail.        *)
(***************************************************************************)
EXTENDS Messaging, EventDelivery, FiniteSets

CONSTANTS
  Kinds,        \* the action modules to look at: "mail", "sms", "firebase"
  MaxRaises,    \* bound: events the event module raises
  MaxRestarts,  \* bound: processes of the action module that are forked again
  MaxBuried     \* bound: modules that are buried, their queues removed

ASSUME DeliveryAssumption ==
  /\ {"event", "action"} \subseteq ModuleQueues
  /\ Kinds \subseteq {"mail", "sms", "firebase"}
  /\ MaxRaises \in Nat

VARIABLES
  kind,         \* which action module the rule's action belongs to
  raised,       \* events the event module has raised, numbered from 1
  source,       \* which of them each id of the engine stands for
  act,          \* the action module's process: where it is, the event it works
                \* on, its firebase token, and what rules.conf said at its start
  token_file,   \* the token firebase has saved
  restarts,
  performed,    \* how often an action was carried out for each event: the event's
                \* own ("same"), or that of a rule which has taken its id ("other")
  heard         \* what became of the replies to each event: "acked" or "abort" was
                \* heard; "lost" could not be sent, or was received in vain

world  == <<kind, raised, restarts>>
engine == <<accepted, sends, outcome, source>>
dvars  == <<queues, vars, kind, raised, source, act, token_file, restarts,
            performed, heard>>

Raises == 1 .. MaxRaises
Tokens == {"", "token"}

\* How often any action was carried out for each event.
Carried == [n \in Raises |-> performed[n]["same"] + performed[n]["other"]]

Msg(type, id, of) == [type |-> type, id |-> id, of |-> of]
Other == Msg("other", 0, 0)

Idle(a) == [a EXCEPT !.pc = "idle", !.id = 0]
Down    == [pc |-> "down", id |-> 0, token_ |-> "", rules_ |-> "same"]

DeliveryInit ==
  /\ QueuesInit
  /\ Init
  /\ kind \in Kinds
  /\ raised = 0
  /\ source = [id \in {} |-> 0]
  /\ act = Down
  /\ token_file \in IF kind = "firebase" THEN Tokens ELSE {""}
  /\ restarts = 0
  /\ performed = [n \in Raises |-> [rule \in {"same", "other"} |-> 0]]
  /\ heard = [n \in Raises |-> <<>>]

-------------------------------------------------------------------------------
(* The event module: Module::sendEventMessage, and its receive loop.       *)

RaiseEvent ==
  /\ raised < MaxRaises
  /\ raised' = raised + 1
  /\ \/ ToCore(Msg("event", 0, raised'))
     \/ UNCHANGED queues                            \* isFlooding
  /\ UNCHANGED <<vars, source, kind, act, token_file, restarts, performed, heard>>

HearReply ==
  /\ \E msg \in {Head(b) : b \in {box["event"]} \ {<<>>}} :
       /\ Receive("event", msg)
       /\ \E what \in {msg.type, "lost"} :
            heard' = [heard EXCEPT ![msg.of] = Append(@, what)]
  /\ UNCHANGED <<vars, source, kind, raised, act, token_file, restarts, performed>>

\* Heartbeats and log messages of this and other modules; bound: one at a time.
OtherMessage ==
  /\ \A i \in DOMAIN box["core"] : box["core"][i] # Other
  /\ ToCore(Other)
  /\ UNCHANGED <<vars, source, world, act, token_file, performed, heard>>

-------------------------------------------------------------------------------
(* The core: Sentri::readMessage, the rule engine and the ack thread.      *)

SendAction(id) == Delivered("action", Msg("action", id, source'[id]))

\* left is what waits in the core queue after the step.
Reply(type, id, of, left) ==
  /\ box' = [Delivered("event", Msg(type, id, of)) EXCEPT !["core"] = left]
  /\ heard' = IF "event" \in messageQueues_ /\ Fits("event") THEN heard
              ELSE [heard EXCEPT ![of] = Append(@, "lost")]

\* MSG_EVENT: enqueueEvent.  A rule that is disabled or within its fire limit has
\* the event aborted, with the id 0 of an entry that was never enqueued; an
\* unknown rule id has it dropped.
ReadEvent(msg) ==
  LET left == Tail(box["core"]) IN
  \/ /\ Accept
     /\ source' = [id \in 0 .. accepted |->
                     IF id = accepted THEN msg.of ELSE source[id]]
     /\ box' = [SendAction(accepted) EXCEPT !["core"] = left]
     /\ UNCHANGED heard
  \/ UNCHANGED engine /\ Reply("abort", 0, msg.of, left)
  \/ UNCHANGED <<engine, heard>> /\ box' = [box EXCEPT !["core"] = left]

\* MSG_ACKAC: acceptAck.  An id that is not in ack_queue_ any more is ignored.
ReadAck_AnyId(msg) ==
  /\ UNCHANGED <<accepted, sends, source>>
  /\ outcome' = [outcome EXCEPT ![msg.id] = "acknowledged"]
  /\ Reply("acked", msg.id, source[msg.id], Tail(box["core"]))

ReadAck(msg) ==
  LET left == Tail(box["core"]) IN
  /\ UNCHANGED source
  /\ \/ Acknowledge(msg.id) /\ Reply("acked", msg.id, source[msg.id], left)
     \/ /\ outcome[msg.id] # "pending"
        /\ UNCHANGED <<vars, heard>>
        /\ box' = [box EXCEPT !["core"] = left]

\* readMessage: the types of the other messages do not concern an event.
ReadMessage ==
  /\ box["core"] # <<>>
  /\ LET msg == Head(box["core"]) IN
       \/ msg.type = "event" /\ ReadEvent(msg)
       \/ msg.type = "ack" /\ ReadAck(msg)
       \/ /\ msg.type = "other"
          /\ box' = [box EXCEPT !["core"] = Tail(@)]
          /\ UNCHANGED <<engine, heard>>
  /\ UNCHANGED <<messageQueues_, world, act, token_file, performed>>

\* The ack thread found the entry overdue: takeAction again, or give it up.
AckTimeout(id) ==
  /\ UNCHANGED source
  /\ \/ Retry(id) /\ box' = SendAction(id) /\ UNCHANGED heard
     \/ Abort(id) /\ Reply("abort", id, source[id], box["core"])
  /\ UNCHANGED <<messageQueues_, world, act, token_file, performed>>

\* Watchdog::buryModule; the process may outlive its kill.
Bury(m) ==
  /\ m \in messageQueues_
  /\ Cardinality(ModuleQueues \ messageQueues_) < MaxBuried
  /\ RemoveQueue(m)
  /\ UNCHANGED <<engine, world, act, token_file, performed, heard>>

-------------------------------------------------------------------------------
(* Firebase's requests to its server, which may forget a token at any time: *)
(* it decides at each request whether it knows the one it is sent.         *)

\* requestToken: the outcomes are the token in memory, that on disk, and whether
\* the module goes on.  token_ is cleared first, and stays so when the server is
\* faulty; an unreachable server ends the process.
RequestToken(a, file) ==
  {[act |-> [a EXCEPT !.token_ = "token"], file |-> f] : f \in {"token", file}}
    \cup {[act |-> [a EXCEPT !.token_ = ""], file |-> file],
          [act |-> Down, file |-> file]}

\* notify and what takeAction makes of it: a refused token is replaced, the
\* message is not sent again, and only a success is acknowledged.  No message is
\* sent for an empty token.
Notify(a, file) ==
  {[act |-> Idle(a), file |-> file]}                       \* faulty, unreachable
    \cup RequestToken(Idle(a), file)
    \cup IF a.token_ = "token"
         THEN {[act |-> [a EXCEPT !.pc = "acking"], file |-> file]}
         ELSE {}

-------------------------------------------------------------------------------
(* The action module: its constructor and handleMessages.                  *)

\* The constructor reads rules.conf, which may have changed since the core read it:
\* the id of the event's rule may now be that of another rule with an action of this
\* module, or of no rule of this module, or the rule's action have a key that the
\* module does not know ("gone").  Firebase has its token from the file or asks for
\* one.  An invalid configuration ends the process.
StartModule ==
  /\ act.pc = "down"
  /\ restarts <= MaxRestarts
  /\ restarts' = restarts + 1
  /\ \E rules \in {"same", "other", "gone"} :
       LET a == [act EXCEPT !.pc = "idle", !.rules_ = rules, !.token_ = token_file]
       IN IF kind = "firebase" /\ token_file = ""
          THEN \E r \in RequestToken(a, token_file) :
                 act' = r.act /\ token_file' = r.file
          ELSE /\ act' \in {a, Down}
               /\ UNCHANGED token_file
  /\ UNCHANGED <<queues, engine, kind, raised, performed, heard>>

\* Each round of the loop waits up to HEARTBEAT_INTERVAL; other types are ignored.
ReceiveAction ==
  /\ act.pc = "idle"
  /\ \E msg \in {Head(b) : b \in {box["action"]} \ {<<>>}} :
       /\ Receive("action", msg)
       /\ act' = [act EXCEPT !.pc = "taking", !.id = msg.id]
  /\ UNCHANGED <<engine, world, token_file, performed, heard>>

\* takeAction finds the rule by its id and compares nothing but the key of its
\* action, so it carries out the action of whatever rule has that id now.
Perform ==
  performed' = [performed EXCEPT ![source[act.id]][act.rules_] = @ + 1]

Mail_AcksFailure ==
  /\ UNCHANGED token_file
  /\ act' = [act EXCEPT !.pc = "acking"]
  /\ \/ act.rules_ # "gone" /\ Perform
     \/ UNCHANGED performed

\* MailModule::takeAction: 1 when quickmail says that it sent the mail, which may
\* have gone out although it says that it failed.
Mail ==
  /\ UNCHANGED token_file
  /\ \/ /\ act.rules_ # "gone"
        /\ Perform
        /\ act' \in {[act EXCEPT !.pc = "acking"], Idle(act)}
     \/ act' = Idle(act) /\ UNCHANGED performed

\* SMSModule::takeAction: one request per receiver, and 0 whatever came of them.
\* For an id that no rule has, action is NULL and is dereferenced.
SMS ==
  /\ UNCHANGED token_file
  /\ \/ /\ act.rules_ # "gone"
        /\ act' = Idle(act)
        /\ (Perform \/ UNCHANGED performed)
     \/ /\ act.rules_ = "gone"
        /\ act' \in {Down, Idle(act)}
        /\ UNCHANGED performed

\* FirebaseModule::takeAction.  The server may have sent the message although its
\* answer did not arrive.
Firebase ==
  IF act.rules_ # "gone"
  THEN \E r \in Notify(act, token_file) :
         /\ act' = r.act
         /\ token_file' = r.file
         /\ \/ Perform
            \/ r.act.pc # "acking" /\ UNCHANGED performed
  ELSE act' = Idle(act) /\ UNCHANGED <<token_file, performed>>

TakeAction ==
  /\ act.pc = "taking"
  /\ \/ kind = "mail" /\ Mail
     \/ kind = "sms" /\ SMS
     \/ kind = "firebase" /\ Firebase
  /\ UNCHANGED <<queues, engine, world, heard>>

\* Module::acknowledgeEvent: dropped when the module is flooding.
AcknowledgeEvent ==
  /\ act.pc = "acking"
  /\ ToCore(Msg("ack", act.id, 0)) \/ UNCHANGED queues
  /\ act' = Idle(act)
  /\ UNCHANGED <<engine, world, token_file, performed, heard>>

\* The process ends, or the watchdog kills it because a request took too long.
ProcessEnds ==
  /\ act.pc # "down"
  /\ act' = Down
  /\ UNCHANGED <<queues, engine, world, token_file, performed, heard>>

-------------------------------------------------------------------------------
ModuleStep == StartModule \/ ReceiveAction \/ TakeAction \/ AcknowledgeEvent

DeliveryNext ==
  \/ RaiseEvent \/ HearReply \/ OtherMessage
  \/ ReadMessage
  \/ \E id \in Accepted : AckTimeout(id)
  \/ \E m \in ModuleQueues : Bury(m)
  \/ ModuleStep \/ ProcessEnds

DeliverySpec == DeliveryInit /\ [][DeliveryNext]_dvars

-------------------------------------------------------------------------------
(* Properties                                                              *)

Waiting(q, P(_)) == Cardinality({i \in 1 .. Len(box[q]) : P(box[q][i])})

\* A queue never holds more than DEFAULT_QUEUE_SIZE messages, nor one that its
\* reader could not have been sent.
DeliveryTypeOK ==
  /\ \A q \in Queues : Len(box[q]) <= DEFAULT_QUEUE_SIZE
  /\ \A i \in 1 .. Len(box["core"]) : box["core"][i] \in
       {Other} \cup {Msg("event", 0, n) : n \in 1 .. raised}
               \cup {Msg("ack", id, 0) : id \in Accepted}
  /\ \A i \in 1 .. Len(box["action"]) : \E id \in Accepted :
       box["action"][i] = Msg("action", id, source[id])
  /\ \A i \in 1 .. Len(box["event"]) : \E id \in Accepted \cup {0}, n \in 1 .. raised :
       box["event"][i] \in {Msg("acked", id, n), Msg("abort", id, n)}
  /\ source \in [Accepted -> 1 .. raised]
  /\ act.pc \in {"down", "idle", "taking", "acking"}
  /\ act.pc \in {"taking", "acking"} => act.id \in Accepted
  /\ {act.token_, token_file} \subseteq Tokens

\* An event module is told of an acknowledgement only after a process of the action
\* module has carried an action out for that very event (mail_module.cpp:71-73,
\* firebase_module.cpp:150-156), whatever restarts, retries and late
\* acknowledgements lie between.  The action is the event's own unless rules.conf
\* was changed after the core read it; then it may be that of the rule which has
\* taken the id (OwnActionDone).
AckedTo(n) ==
  \/ Waiting("event", LAMBDA m : m.of = n /\ m.type = "acked") > 0
  \/ \E i \in 1 .. Len(heard[n]) : heard[n][i] = "acked"

AckMeansDone ==
  \A n \in Raises :
    AckedTo(n) => performed[n]["same"] > 0 \/ performed[n]["other"] > 0

\* What one would like instead: that it was the event's own action.  It fails when
\* rules.conf is changed under a running core and the action module is forked again
\* (mail_module.cpp:113-120): nothing compares the two readings.
OwnActionDone == \A n \in Raises : AckedTo(n) => performed[n]["same"] > 0

\* Nobody gets a mail more often than the core has sent the action: a queue that
\* outlives its reader (messagehandler.cpp:29) and processes that die between
\* sending and acknowledging make no more copies of it, of whichever rule.
DoneAtMostSent ==
  \A id \in Accepted :
    Carried[source[id]] + Waiting("action", LAMBDA m : m.id = id)
      + (IF act.pc = "taking" /\ act.id = id THEN 1 ELSE 0) <= sends[id]

\* Every event the core is done with has one reply, which is on its way, was heard,
\* or was lost to a full or removed queue (the result of sendMessage is ignored,
\* ruleengine.cpp:121) or a dying event module; an event it still works on has none.
OneReplyEach ==
  LET replies(n) == Waiting("event", LAMBDA m : m.of = n) + Len(heard[n])
  IN /\ \A n \in Raises : replies(n) <= 1
     /\ \A id \in Accepted :
          replies(source[id]) = IF outcome[id] = "pending" THEN 0 ELSE 1

\* What the documentation of takeAction says: it returns 1, and the module then
\* acknowledges, if the text message was sent (module_sms/sms_module.h:68).
SentSMSAcknowledged ==
  [][kind = "sms" /\ performed' # performed => act'.pc = "acking"]_dvars
===============================================================================
