----------------------------- MODULE OutputHandler -----------------------------
(***************************************************************************)
(* The output of the video module (module_video/outputhandler.cpp), driven *)
(* by the two threads of its Engine (module_video/engine.cpp).  The main   *)
(* thread gives every frame to the output handler of each route, with      *)
(* whether its detector, colliders and heuristics left any motion in it.   *)
(* A handler collects frames into videos, and has a forked process write   *)
(* each image or video and raise an event for every rule that wants it as  *)
(* an attachment.  The message thread gives every reply to every handler,  *)
(* which counts down and removes the file when nothing is pending.         *)
(*                                                                         *)
(* Frames are numbered; a file is named by its kind and the number of its  *)
(* first frame, since camera and second of the name do not tell two files  *)
(* of one run apart.  The pixels, and what the detectors find, are inputs. *)
(*                                                                         *)
(* An operator X_Y beside an operator X is X with a plausible mistake Y; no *)
(* action uses it.  It is there to see a property of the code fail.        *)
(***************************************************************************)
EXTENDS Integers, Sequences, FiniteSets

CONSTANTS
  Handlers,      \* one per route: rules with the same event configuration
  Rules,
  map_,          \* the rules of each handler
  attachments,   \* which of "video" and "image" each rule wants
  SIZE, PRE, POST,           \* capacities of buf_, buf2_, buf3_
  MIN_FRAMES, MIN_MOTION,    \* the shortest video worth sending
  MaxFrames,     \* bound: frames processed
  MaxFiles       \* bound: files that writers are forked for

ASSUME HandlerAssumption ==
  /\ IsFiniteSet(Rules)
  /\ map_ \in [Handlers -> SUBSET Rules]
  /\ \A h, g \in Handlers : h # g => map_[h] \cap map_[g] = {}
  /\ attachments \in [Rules -> SUBSET {"video", "image"}]

ASSUME BufferAssumption ==
  /\ SIZE \in Nat \ {0} /\ PRE \in Nat \ {0} /\ POST \in Nat \ {0}
  /\ MIN_FRAMES \in Nat /\ MIN_MOTION \in Nat \ {0}
  /\ MaxFrames \in Nat /\ MaxFiles \in Nat

Names == {"video", "image"} \X (1 .. MaxFrames)

VARIABLES
  frame,       \* number of the frame the main thread has in hand
  turn,        \* handlers that have not had it yet
  buffers,     \* buf_, buf2_, buf3_, pre_ and post_ of each handler
  image_,      \* whether a handler writes images
  pendingAttachments_,
  writers,     \* forked processes: the file, and the rules still to raise an event
  files,       \* files on disk
  raised,      \* events raised and not yet replied to: rule and attachment
  reply        \* the attachment the message thread has a reply for, and the
               \* handlers it has still to forward it to

\* What happened, for the properties.
VARIABLES
  unsaved,     \* images that writers raise events with although saving them failed
  lost,        \* events that never were raised, or never get a reply
  made,        \* files that writers were forked for
  stale        \* those of them that an earlier process of the module forked

vars == <<frame, turn, buffers, image_, pendingAttachments_, writers, files,
          unsaved, raised, reply, lost, made, stale>>
outside == <<files, unsaved, raised, reply, lost>>

Wanting(h, kind) == {r \in map_[h] : kind \in attachments[r]}
NoReply    == [name |-> <<>>, todo |-> {}]
NoBuffers  == [buf_ |-> <<>>, buf2_ |-> <<>>, buf3_ |-> <<>>,
               pre_ |-> TRUE, post_ |-> FALSE]

\* The constructor sets image_ when a rule wants an image, and otherwise leaves it
\* as the memory was.
Images == {i \in [Handlers -> BOOLEAN] :
             \A h \in Handlers : Wanting(h, "image") # {} => i[h]}

Init ==
  /\ frame = 0
  /\ turn = {}
  /\ buffers = [h \in Handlers |-> NoBuffers]
  /\ image_ \in Images
  /\ pendingAttachments_ = [h \in Handlers |-> [n \in {} |-> 0]]
  /\ writers = {}
  /\ files = {}
  /\ unsaved = {}
  /\ raised = {}
  /\ reply = NoReply
  /\ lost = {}
  /\ made = {}
  /\ stale = {}

-------------------------------------------------------------------------------
(* OutputHandler::out, the buffers.  Each part is a function of them.      *)

\* push_back of a circular buffer drops the first element of a full one.
Push_DropsNothing(s, x, size) == Append(s, x)

Push(s, x, size) == IF Len(s) < size THEN Append(s, x) ELSE Append(Tail(s), x)

Video(b) == b.buf2_ \o b.buf_ \o b.buf3_
Worth(b) == Len(Video(b)) >= MIN_FRAMES /\ Len(b.buf_) >= MIN_MOTION

\* Motion again while the frames after the last one were being collected.
Resumed(b, n) ==
  [buf_ |-> <<n>>, buf2_ |-> <<>>, buf3_ |-> <<>>, pre_ |-> FALSE, post_ |-> FALSE]

Moving_KeepsPre(b, n) ==
  [b EXCEPT !.pre_ = FALSE,
            !.buf_ = IF Len(@) = SIZE THEN <<n>> ELSE Append(@, n)]

Moving(b, n) ==
  IF Len(b.buf_) = SIZE
  THEN [b EXCEPT !.pre_ = FALSE, !.buf_ = <<n>>, !.buf2_ = <<>>]
  ELSE [b EXCEPT !.pre_ = FALSE, !.buf_ = Append(@, n)]

Still(b, n) ==
  IF b.pre_ THEN [b EXCEPT !.buf2_ = Push(@, n, PRE)]
  ELSE IF Len(b.buf3_) < POST
       THEN [b EXCEPT !.post_ = TRUE, !.buf3_ = Append(@, n)]
       ELSE NoBuffers

\* The handler's buffers after frame n, and whether those before it are written.
NextBuffers(b, motion, n) ==
  IF motion THEN IF b.post_ THEN Resumed(b, n) ELSE Moving(b, n) ELSE Still(b, n)

Writes(b, motion) ==
  IF motion THEN IF b.post_ THEN Worth(b) ELSE Len(b.buf_) = SIZE
  ELSE ~b.pre_ /\ Len(b.buf3_) = POST /\ Worth(b)

-------------------------------------------------------------------------------
(* The main thread: Engine::start and OutputHandler::out.                  *)

\* retrieve gave an image; without one the loop only sends heartbeats.
Retrieve ==
  /\ turn = {}
  /\ frame < MaxFrames
  /\ frame' = frame + 1
  /\ turn' = Handlers
  /\ UNCHANGED <<buffers, image_, pendingAttachments_, writers, outside, made,
                 stale>>

\* pendingAttachments_[name] + d, where operator[] makes a missing entry 0.
Count(p, name) == IF name \in DOMAIN p THEN p[name] ELSE 0
Counted(p, name, d) ==
  [n \in DOMAIN p \cup {name} |-> IF n = name THEN Count(p, name) + d ELSE p[n]]

Writer(h, name) == [name |-> name, h |-> h, todo |-> Wanting(h, name[1]),
                    written |-> FALSE]

\* forkVideoWriter, forkImageWriter: count the events to come under mtx_, then
\* fork.  names are the files frame `frame` makes h write.
Fork_CountsLater(h, names) ==
  /\ writers' = writers \cup {Writer(h, name) : name \in names}
  /\ UNCHANGED pendingAttachments_

Fork(h, names) ==
  /\ writers' = writers \cup {Writer(h, name) : name \in names}
  /\ pendingAttachments_' = [pendingAttachments_ EXCEPT ![h] =
       [n \in DOMAIN @ \cup {m \in names : Wanting(h, m[1]) # {}} |->
          Count(@, n) + (IF n \in names THEN Cardinality(Wanting(h, n[1])) ELSE 0)]]

\* The video is named after buf_[0], its first frame with motion.  Plain events,
\* raised on every frame, motion or not, leave no trace here.
Made(h, motion) ==
  LET b == buffers[h] IN
  (IF Wanting(h, "video") # {} /\ Writes(b, motion)
   THEN {<<"video", b.buf_[1]>>} ELSE {})
    \cup (IF image_[h] /\ motion THEN {<<"image", frame>>} ELSE {})

Out(h, motion) ==
  /\ h \in turn
  /\ turn' = turn \ {h}
  /\ Cardinality(made \cup Made(h, motion)) <= MaxFiles
  /\ Fork(h, Made(h, motion))
  /\ made' = made \cup Made(h, motion)
  /\ buffers' = IF Wanting(h, "video") = {} THEN buffers
                ELSE [buffers EXCEPT ![h] = NextBuffers(@, motion, frame)]
  /\ UNCHANGED <<frame, image_, outside, stale>>

-------------------------------------------------------------------------------
(* A forked process: writeVideo or writeImage.                             *)

\* The result of img.save is ignored; a video without a file raises no event.
WriteFile(w) ==
  /\ ~w.written
  /\ writers' = (writers \ {w}) \cup {[w EXCEPT !.written = TRUE]}
  /\ \/ files' = files \cup {w.name} /\ UNCHANGED unsaved
     \/ w.name[1] = "image" /\ unsaved' = unsaved \cup {w.name} /\ UNCHANGED files
  /\ UNCHANGED <<frame, turn, buffers, image_, pendingAttachments_, raised, reply,
                 lost, made, stale>>

\* The second fork failed, or the VideoWriter cannot be opened: the process exits
\* and its events are never raised, although they have been counted.
WriterFails(w) ==
  /\ ~w.written
  /\ writers' = writers \ {w}
  /\ lost' = lost \cup {<<r, w.name>> : r \in w.todo}
  /\ UNCHANGED <<frame, turn, buffers, image_, pendingAttachments_, files, unsaved,
                 raised, reply, made, stale>>

\* sendEventMessage, dropped when flooding or the core queue is full; after the
\* last one the process exits.
SendEvent(w, r) ==
  /\ w.written
  /\ r \in w.todo
  /\ writers' = (writers \ {w}) \cup {[w EXCEPT !.todo = @ \ {r}]}
  /\ \/ raised' = raised \cup {<<r, w.name>>} /\ UNCHANGED lost
     \/ lost' = lost \cup {<<r, w.name>>} /\ UNCHANGED raised
  /\ UNCHANGED <<frame, turn, buffers, image_, pendingAttachments_, files, unsaved,
                 reply, made, stale>>

WriterEnds(w) ==
  /\ w.written /\ w.todo = {}
  /\ writers' = writers \ {w}
  /\ UNCHANGED <<frame, turn, buffers, image_, pendingAttachments_, outside, made,
                 stale>>

-------------------------------------------------------------------------------
(* The message thread: handleIncomingMsgAsync.                             *)

\* The core replies to each event once, in any order, with the event's variables; or
\* never, when the queue is full or the rule unknown.
Receive ==
  /\ reply = NoReply
  /\ \E e \in raised :
       /\ raised' = raised \ {e}
       /\ \/ reply' = [name |-> e[2], todo |-> Handlers] /\ UNCHANGED lost
          \/ lost' = lost \cup {e} /\ UNCHANGED reply
  /\ UNCHANGED <<frame, turn, buffers, image_, pendingAttachments_, writers, files,
                 unsaved, made, stale>>

\* handlePendingAttachments, under mtx_: every handler counts down, also one that
\* has not sent the attachment, for which operator[] makes an entry of 0 first.
HandlePending_RemovesAtOnce(h) ==
  /\ pendingAttachments_' = [pendingAttachments_ EXCEPT ![h] = Counted(@, reply.name, -1)]
  /\ files' = files \ {reply.name}

HandlePending(h) ==
  LET p == Counted(pendingAttachments_[h], reply.name, -1) IN
  IF p[reply.name] = 0
  THEN /\ files' = files \ {reply.name}
       /\ pendingAttachments_' = [pendingAttachments_ EXCEPT ![h] =
            [n \in DOMAIN p \ {reply.name} |-> p[n]]]
  ELSE /\ pendingAttachments_' = [pendingAttachments_ EXCEPT ![h] = p]
       /\ UNCHANGED files

Forward(h) ==
  /\ h \in reply.todo
  /\ HandlePending(h)
  /\ reply' = IF reply.todo = {h} THEN NoReply ELSE [reply EXCEPT !.todo = @ \ {h}]
  /\ UNCHANGED <<frame, turn, buffers, image_, writers, unsaved, raised, lost, made,
                 stale>>

\* The module ends (a fork failed, the camera did) or the watchdog kills it, which
\* kills its writers too; the next process starts afresh, with the same queue.
Restart ==
  /\ made # stale
  /\ turn' = {}
  /\ buffers' = [h \in Handlers |-> NoBuffers]
  /\ image_' \in Images
  /\ pendingAttachments_' = [h \in Handlers |-> [n \in {} |-> 0]]
  /\ writers' \in {writers, {}}
  /\ reply' = NoReply
  /\ stale' = made
  /\ UNCHANGED <<frame, files, unsaved, raised, lost, made>>

Next ==
  \/ Retrieve
  \/ \E h \in Handlers, motion \in BOOLEAN : Out(h, motion)
  \/ \E w \in writers : \/ WriteFile(w) \/ WriterFails(w) \/ WriterEnds(w)
                        \/ \E r \in w.todo : SendEvent(w, r)
  \/ Receive
  \/ \E h \in reply.todo : Forward(h)
  \/ Restart

Spec == Init /\ [][Next]_vars

-------------------------------------------------------------------------------
(* Properties                                                              *)

\* Counters exist for names only; a handler's buffers stay within their sizes and
\* its two flags are never set at once.
TypeOK ==
  /\ frame \in 0 .. MaxFrames
  /\ turn \subseteq Handlers
  /\ files \cup unsaved \subseteq Names
  /\ raised \cup lost \subseteq Rules \X Names
  /\ \A h \in Handlers :
       /\ DOMAIN pendingAttachments_[h] \subseteq Names
       /\ ~(buffers[h].pre_ /\ buffers[h].post_)
       /\ Len(buffers[h].buf_) <= SIZE
       /\ Len(buffers[h].buf2_) <= PRE
       /\ Len(buffers[h].buf3_) <= POST

\* Whatever is cut out of the stream when motion starts, stops, resumes or outlasts
\* a buffer (outputhandler.cpp:97-141), what would be written as a video is an
\* unbroken run of frames: no frame twice, none missing, none of an earlier video.
UnbrokenVideo ==
  \A h \in Handlers : LET v == Video(buffers[h]) IN
    \A i \in 1 .. Len(v) - 1 : v[i + 1] = v[i] + 1

\* "remove the video only if all event messages with the same attachment have been
\* aborted or acknowledged" (outputhandler.cpp:51): while a reply to an event is
\* due, the file it names is there, ready to be mailed, unless it is an image that
\* could not be saved (outputhandler.cpp:160).
KeptWhileDue == \A e \in raised : e[2] \in files \cup unsaved

\* The other half of that comment: once the last reply is in, the file is gone.  A
\* file of this process stays only while a writer or a reply is on its way to it,
\* or when an event with it got lost and its counter can never reach 0.
GoneWhenDone ==
  (\A h \in Handlers : image_[h] => Wanting(h, "image") # {}) =>
    \A name \in files \cap (made \ stale) :
      \/ \E w \in writers : w.name = name
      \/ \E r \in Rules : <<r, name>> \in raised \cup lost
      \/ reply.name = name
================================================================================
