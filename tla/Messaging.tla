------------------------------- MODULE Messaging -------------------------------
(***************************************************************************)
(* The message queues between the core and the processes of its modules:   *)
(* core/messenger.cpp on the core's side, lib_module/messagehandler.cpp on *)
(* both.  One queue goes from all modules to the core, one from the core   *)
(* to each module.  They are made once, when the core starts, and are      *)
(* reached by their names: a module that is forked again opens the queue   *)
(* its predecessor read from, with what is still in it.  A send never      *)
(* waits; it fails when the queue is full or the core has dropped it.      *)
(*                                                                         *)
(* This module is the state of the queues and what the two classes do to   *)
(* it; the modules that extend it say who calls them.                      *)
(*                                                                         *)
(* An operator X_Y beside an operator X is X with a plausible mistake Y; no *)
(* action uses it.  It is there to see a property of the code fail.        *)
(***************************************************************************)
EXTENDS Naturals, Sequences

CONSTANTS
  ModuleQueues,        \* the modules that have a queue
  DEFAULT_QUEUE_SIZE

ASSUME QueueAssumption ==
  /\ DEFAULT_QUEUE_SIZE \in Nat \ {0}
  /\ "core" \notin ModuleQueues

Queues == ModuleQueues \cup {"core"}

VARIABLES
  box,              \* what waits in each queue
  messageQueues_    \* modules whose queue the core still has

queues == <<box, messageQueues_>>

\* Sentri::start and the Watchdog's constructor: create removes what the name
\* referred to, so every queue is empty; then it enters the map.
QueuesInit ==
  /\ box = [q \in Queues |-> <<>>]
  /\ messageQueues_ = ModuleQueues

-------------------------------------------------------------------------------
(* MessageHandler.  try_send fails on a full queue; nobody asks whether it *)
(* did.                                                                    *)

Fits(q) == Len(box[q]) < DEFAULT_QUEUE_SIZE

Put_Unbounded(q, msg) == Append(box[q], msg)

Put(q, msg) == IF Fits(q) THEN Append(box[q], msg) ELSE box[q]

\* A module's send to the core: sendEventMessage, acknowledgeEvent, sendHeartbeat,
\* setHeartbeatInterval, log and systemMessage differ in the message they fill in.
ToCore(msg) ==
  /\ box' = [box EXCEPT !["core"] = Put("core", msg)]
  /\ UNCHANGED messageQueues_

\* receiveMessageBlocking and ...NonBlocking; a timeout changes nothing.  Only the
\* four types that carry variables have them parsed.
Receive_Peeks(q, msg) ==
  /\ box[q] # <<>>
  /\ msg = Head(box[q])
  /\ UNCHANGED queues

Receive(q, msg) ==
  /\ box[q] # <<>>
  /\ msg = Head(box[q])
  /\ box' = [box EXCEPT ![q] = Tail(@)]
  /\ UNCHANGED messageQueues_

(* Messenger *)

\* sendAction, sendEventAck and sendEventAbort build the message, sendMessage
\* finds the queue: there is none for the fake module of system messages, nor
\* for one that was buried.
Delivered(m, msg) ==
  IF m \in messageQueues_ THEN [box EXCEPT ![m] = Put(m, msg)] ELSE box

\* The handler is deleted but its queue, whose name the handler does not know,
\* stays in the system, and a process that has opened it goes on reading.
RemoveQueue(m) ==
  /\ messageQueues_' = messageQueues_ \ {m}
  /\ UNCHANGED box
================================================================================
