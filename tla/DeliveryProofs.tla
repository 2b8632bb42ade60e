----------------------------- MODULE DeliveryProofs -----------------------------
(***************************************************************************)
(* Proofs about the way of an event through the system, for queues of any  *)
(* size, any number of events and retries, and action modules that may die *)
(* and be forked again at any moment.  Messages are counted where they     *)
(* wait: an event is in the core queue, or known to the engine, or gone;   *)
(* a reply is on its way or was heard; what an action module can still do  *)
(* with the actions it was sent is bounded by how many were sent.          *)
(***************************************************************************)
EXTENDS Delivery, FiniteSetTheorems, FunctionTheorems, SequenceTheorems, TLAPS

Msgs ==
  [type : {"event", "ack", "other", "action", "acked", "abort"}, id : Nat, of : Nat]

\* The messages of a queue, and how many of them are in X.
In(s)      == {s[i] : i \in 1 .. Len(s)}
Hits(s, X) == Cardinality({i \in 1 .. Len(s) : s[i] \in X})

-------------------------------------------------------------------------------
(* Counting *)

LEMMA HitsFinite ==
  ASSUME NEW s \in Seq(Msgs), NEW X
  PROVE  /\ IsFiniteSet({i \in 1 .. Len(s) : s[i] \in X})
         /\ Hits(s, X) \in Nat
<1>1. Len(s) \in Nat /\ IsFiniteSet(1 .. Len(s))
  BY LenProperties, FS_Interval
<1>2. IsFiniteSet({i \in 1 .. Len(s) : s[i] \in X})
  BY <1>1, FS_Subset
<1> QED BY <1>2, FS_CardinalityType DEF Hits

LEMMA HitsEmpty == ASSUME NEW X PROVE Hits(<<>>, X) = 0 /\ In(<<>>) = {}
<1>1. Len(<<>>) = 0
  BY EmptySeq
<1>2. {i \in 1 .. Len(<<>>) : <<>>[i] \in X} = {}
  BY <1>1
<1> QED BY <1>1, <1>2, FS_EmptySet DEF Hits, In

LEMMA HitsNone ==
  ASSUME NEW s \in Seq(Msgs), NEW X
  PROVE  Hits(s, X) = 0 <=> In(s) \cap X = {}
<1> DEFINE H == {i \in 1 .. Len(s) : s[i] \in X}
<1>1. IsFiniteSet(H) /\ Hits(s, X) = Cardinality(H)
  BY HitsFinite DEF Hits
<1>2. H = {} <=> In(s) \cap X = {}
  BY DEF In
<1> HIDE DEF H
<1> QED BY <1>1, <1>2, FS_EmptySet

LEMMA HitsAppend ==
  ASSUME NEW s \in Seq(Msgs), NEW x \in Msgs, NEW X
  PROVE  /\ Append(s, x) \in Seq(Msgs)
         /\ Len(Append(s, x)) = Len(s) + 1
         /\ In(Append(s, x)) = In(s) \cup {x}
         /\ Hits(Append(s, x), X) = Hits(s, X) + (IF x \in X THEN 1 ELSE 0)
<1> DEFINE t == Append(s, x)
           n == Len(s)
           H == {i \in 1 .. n : s[i] \in X}
           K == {i \in 1 .. n + 1 : t[i] \in X}
<1>1. /\ t \in Seq(Msgs) /\ Len(t) = n + 1 /\ n \in Nat
      /\ \A i \in 1 .. n : t[i] = s[i]
      /\ t[n + 1] = x
  BY AppendProperties, LenProperties
<1>2. IsFiniteSet(H) /\ Hits(s, X) = Cardinality(H) /\ Hits(t, X) = Cardinality(K)
      /\ Cardinality(H) \in Nat
  BY <1>1, HitsFinite DEF Hits
<1> HIDE DEF t, n
<1>3. n + 1 \notin H /\ 1 .. n + 1 = (1 .. n) \cup {n + 1}
  BY <1>1
<1>4. In(t) = In(s) \cup {x}
  BY <1>1, <1>3 DEF In, n
<1>5. CASE x \in X
  <2>1. K = H \cup {n + 1}
    BY <1>1, <1>3, <1>5
  <2> HIDE DEF H, K
  <2> QED BY <1>1, <1>2, <1>3, <1>4, <1>5, <2>1, FS_AddElement DEF t, n
<1>6. CASE x \notin X
  <2>1. K = H
    BY <1>1, <1>3, <1>6
  <2> HIDE DEF H, K
  <2> QED BY <1>1, <1>2, <1>4, <1>6, <2>1 DEF t, n
<1> QED BY <1>5, <1>6

LEMMA HitsTail ==
  ASSUME NEW s \in Seq(Msgs), s # <<>>, NEW X
  PROVE  /\ Tail(s) \in Seq(Msgs) /\ Head(s) \in Msgs
         /\ Len(Tail(s)) <= Len(s)
         /\ Head(s) \in In(s) /\ In(Tail(s)) \subseteq In(s)
         /\ Hits(s, X) = Hits(Tail(s), X) + (IF Head(s) \in X THEN 1 ELSE 0)
<1> DEFINE t == Tail(s)
           n == Len(t)
           H == {i \in 1 .. n + 1 : s[i] \in X}
           K == {i \in 1 .. n : t[i] \in X}
           L == {i \in 2 .. n + 1 : s[i] \in X}
<1>1. /\ t \in Seq(Msgs) /\ Len(s) = n + 1 /\ n \in Nat
      /\ Head(s) \in Msgs /\ Head(s) = s[1]
      /\ \A i \in 1 .. n : t[i] = s[i + 1]
  <2>1. Len(s) \in Nat /\ Len(s) # 0
    BY LenProperties, EmptySeq
  <2> QED BY <2>1, HeadTailProperties, LenProperties
<1>2. IsFiniteSet(K) /\ Hits(s, X) = Cardinality(H) /\ Hits(t, X) = Cardinality(K)
  BY <1>1, HitsFinite DEF Hits
<1> HIDE DEF t, n
<1>3. Head(s) \in In(s) /\ In(t) \subseteq In(s)
  BY <1>1 DEF In, n
<1>4. IsFiniteSet(L) /\ Cardinality(L) = Cardinality(K)
  <2> DEFINE f == [i \in K |-> i + 1]
  <2>1. f \in [K -> L]
    BY <1>1
  <2>2. \A i, j \in K : f[i] = f[j] => i = j
    BY <1>1
  <2>3. \A j \in L : \E i \in K : f[i] = j
    <3> SUFFICES ASSUME NEW j \in L PROVE \E i \in K : f[i] = j
      OBVIOUS
    <3>1. j - 1 \in 1 .. n /\ (j - 1) + 1 = j
      BY <1>1
    <3>2. j - 1 \in K
      BY <1>1, <3>1
    <3> QED BY <3>1, <3>2
  <2> HIDE DEF K, L, f
  <2>4. f \in Bijection(K, L)
    BY <2>1, <2>2, <2>3, Fun_IsBij
  <2>5. ExistsBijection(K, L)
    BY <2>4 DEF ExistsBijection
  <2> QED BY <1>2, <2>5, FS_Bijection
<1>5. 1 \notin L /\ 1 .. n + 1 = {1} \cup (2 .. n + 1)
  BY <1>1
<1>6. Cardinality(K) \in Nat
  BY <1>2, FS_CardinalityType
<1>7. Hits(s, X) = Hits(t, X) + (IF Head(s) \in X THEN 1 ELSE 0)
  <2>1. CASE Head(s) \in X
    <3>1. H = L \cup {1}
      BY <1>1, <1>5, <2>1
    <3> HIDE DEF H, L, K
    <3> QED BY <1>2, <1>4, <1>5, <1>6, <2>1, <3>1, FS_AddElement
  <2>2. CASE Head(s) \notin X
    <3>1. H = L
      BY <1>1, <1>5, <2>2
    <3> HIDE DEF H, L, K
    <3> QED BY <1>2, <1>4, <1>6, <2>2, <3>1
  <2> QED BY <2>1, <2>2
<1> HIDE DEF H, K, L
<1> QED BY <1>1, <1>3, <1>7 DEF t, n

\* Put appends or, when the queue is full, loses the message.
LEMMA PutOrLost ==
  ASSUME NEW q \in Queues, NEW msg \in Msgs, box[q] \in Seq(Msgs),
         Len(box[q]) <= DEFAULT_QUEUE_SIZE
  PROVE  /\ Put(q, msg) \in Seq(Msgs) /\ Len(Put(q, msg)) <= DEFAULT_QUEUE_SIZE
         /\ In(Put(q, msg)) \subseteq In(box[q]) \cup {msg}
         /\ \A X : /\ Hits(Put(q, msg), X) <= Hits(box[q], X) + (IF msg \in X THEN 1 ELSE 0)
                   /\ Hits(Put(q, msg), X) =
                        Hits(box[q], X) + (IF Fits(q) /\ msg \in X THEN 1 ELSE 0)
<1>1. Len(box[q]) \in Nat /\ DEFAULT_QUEUE_SIZE \in Nat
  BY LenProperties, QueueAssumption
<1>2. CASE Fits(q)
  <2>1. Put(q, msg) = Append(box[q], msg)
    BY <1>2 DEF Put
  <2>2. Len(Append(box[q], msg)) <= DEFAULT_QUEUE_SIZE
    <3>1. Len(Append(box[q], msg)) = Len(box[q]) + 1
      BY HitsAppend
    <3> QED BY <1>1, <1>2, <3>1 DEF Fits
  <2>3. ASSUME NEW X PROVE Hits(box[q], X) \in Nat
    BY HitsFinite
  <2> QED BY <1>2, <2>1, <2>2, <2>3, HitsAppend
<1>3. CASE ~Fits(q)
  <2>1. Put(q, msg) = box[q]
    BY <1>3 DEF Put
  <2>2. ASSUME NEW X PROVE Hits(box[q], X) \in Nat
    BY HitsFinite
  <2> QED BY <1>3, <2>1, <2>2
<1> QED BY <1>2, <1>3

-------------------------------------------------------------------------------
(* The invariant *)

Pcs      == {"down", "idle", "taking", "acking"}
Hearings == {"acked", "abort", "lost"}
Counts   == [{"same", "other"} -> Nat]

\* Every queue is a queue of messages, and within its size.
Boxes ==
  /\ box \in [Queues -> Seq(Msgs)]
  /\ \A q \in Queues : Len(box[q]) <= DEFAULT_QUEUE_SIZE
  /\ messageQueues_ \subseteq ModuleQueues

\* The engine, and which event each of its ids stands for: no two for the same.
Engine ==
  /\ accepted \in Nat
  /\ raised \in 0 .. MaxRaises
  /\ sends \in [Accepted -> Nat]
  /\ outcome \in [Accepted -> {"pending", "acknowledged", "aborted"}]
  /\ source \in [Accepted -> 1 .. raised]
  /\ \A i, j \in Accepted : source[i] = source[j] => i = j

Acting ==
  /\ act \in [pc : Pcs, id : Nat, token_ : Tokens, rules_ : {"same", "other", "gone"}]
  /\ act.pc \in {"taking", "acking"} => act.id \in Accepted
  /\ token_file \in Tokens
  /\ performed \in [Raises -> Counts]
  /\ Carried \in [Raises -> Nat]
  /\ heard \in [Raises -> Seq(Hearings)]

EventOf(n) == Msg("event", 0, n)

\* What can wait in each queue.
Contents ==
  /\ In(box["core"]) \subseteq
       {Other} \cup {EventOf(n) : n \in 1 .. raised} \cup {Msg("ack", id, 0) : id \in Accepted}
  /\ In(box["action"]) \subseteq {Msg("action", id, source[id]) : id \in Accepted}
  /\ \A m \in In(box["event"]) : \E id \in Accepted \cup {0}, n \in 1 .. raised :
       m \in {Msg("acked", id, n), Msg("abort", id, n)}

Taken(n) == \E id \in Accepted : source[id] = n

\* An event waits in the core queue once, or the engine has it, or neither; only in
\* the engine's hands is its action carried out.
Once ==
  \A n \in Raises :
    /\ Hits(box["core"], {EventOf(n)}) <= 1
    /\ Taken(n) => Hits(box["core"], {EventOf(n)}) = 0
    /\ ~Taken(n) => Carried[n] = 0

For(id)    == {m \in Msgs : m.id = id}
InHand(id) == IF act.pc = "taking" /\ act.id = id THEN 1 ELSE 0

\* Actions that were carried out, are in hand or wait were sent.
Done ==
  \A id \in Accepted :
    Carried[source[id]] + Hits(box["action"], For(id)) + InHand(id) <= sends[id]

Of(n)      == {m \in Msgs : m.of = n}
Replies(n) == Hits(box["event"], Of(n)) + Len(heard[n])

\* One reply for each event the core has done with, none for the others.
Replied ==
  \A n \in Raises :
    /\ Replies(n) <= 1
    /\ ~Taken(n) /\ (n > raised \/ EventOf(n) \in In(box["core"])) => Replies(n) = 0
    /\ \A id \in Accepted :
         source[id] = n => Replies(n) = IF outcome[id] = "pending" THEN 0 ELSE 1

\* Acknowledgements, on whatever part of their way, are of actions carried out.
Relied ==
  /\ act.pc = "acking" => Carried[source[act.id]] > 0
  /\ \A id \in Accepted : Msg("ack", id, 0) \in In(box["core"]) => Carried[source[id]] > 0
  /\ \A m \in In(box["event"]) : m.type = "acked" => Carried[m.of] > 0
  /\ \A n \in Raises : "acked" \in In(heard[n]) => Carried[n] > 0

IInv == Boxes /\ Engine /\ Acting /\ Contents /\ Once /\ Done /\ Replied /\ Relied

LEMMA Constants ==
  /\ DEFAULT_QUEUE_SIZE \in Nat \ {0} /\ MaxRaises \in Nat
  /\ "core" \in Queues /\ "action" \in Queues /\ "event" \in Queues
  /\ ModuleQueues \subseteq Queues
  /\ "core" \notin ModuleQueues
  BY QueueAssumption, DeliveryAssumption DEF Queues

LEMMA Messages ==
  /\ \A type, id, of : /\ Msg(type, id, of).type = type /\ Msg(type, id, of).id = id
                       /\ Msg(type, id, of).of = of
  /\ \A type \in {"event", "ack", "other", "action", "acked", "abort"}, id \in Nat, of \in Nat :
       Msg(type, id, of) \in Msgs
  /\ Other \in Msgs /\ Other.type = "other"
  BY DEF Msg, Other, Msgs

\* The same for all queues and events, as SMT needs it.
LEMMA BoxTypes ==
  ASSUME Boxes
  PROVE  \A q \in Queues :
           /\ box[q] \in Seq(Msgs) /\ Len(box[q]) <= DEFAULT_QUEUE_SIZE
           /\ \A X : Hits(box[q], X) \in Nat
  BY HitsFinite DEF Boxes

LEMMA Events ==
  ASSUME Engine
  PROVE  /\ raised \in Nat /\ 1 .. raised \subseteq Raises
         /\ \A id \in Accepted : source[id] \in 1 .. raised /\ source[id] \in Raises
<1>1. raised \in Nat /\ 1 .. raised \subseteq Raises
  BY Constants DEF Engine, Raises
<1> QED BY <1>1 DEF Engine

LEMMA CarriedSame == performed' = performed => Carried' = Carried
BY DEF Carried

LEMMA CarriedSum ==
  ASSUME performed \in [Raises -> Counts]
  PROVE  /\ Carried \in [Raises -> Nat]
         /\ \A n \in Raises :
              /\ performed[n]["same"] \in Nat /\ performed[n]["other"] \in Nat
              /\ Carried[n] = performed[n]["same"] + performed[n]["other"]
<1>1. \A n \in Raises : performed[n] \in Counts
  OBVIOUS
<1>2. \A c \in Counts : c["same"] \in Nat /\ c["other"] \in Nat
  BY DEF Counts
<1> QED BY <1>1, <1>2 DEF Carried

LEMMA InitGood == DeliveryInit => IInv
<1> SUFFICES ASSUME DeliveryInit PROVE IInv
  OBVIOUS
<1>1. \A q \in Queues : box[q] = <<>>
  BY DEF DeliveryInit, QueuesInit
<1>2. /\ accepted = 0 /\ raised = 0 /\ act.pc = "down"
      /\ \A n \in Raises : heard[n] = <<>>
  BY DEF DeliveryInit, Init, Down
<1>3. Accepted = {} /\ 1 .. raised = {}
  BY <1>2 DEF Accepted
<1>4. /\ <<>> \in Seq(Msgs) /\ Len(<<>>) = 0 /\ In(<<>>) = {} /\ <<>> \in Seq(Hearings)
      /\ \A X : Hits(<<>>, X) = 0
  BY EmptySeq, HitsEmpty
<1>12. performed \in [Raises -> Counts] /\ \A n \in Raises : Carried[n] = 0
  <2>1. [rule \in {"same", "other"} |-> 0] \in Counts
    BY DEF Counts
  <2>2. performed = [n \in Raises |-> [rule \in {"same", "other"} |-> 0]]
    BY DEF DeliveryInit
  <2>3. \A n \in Raises : performed[n]["same"] = 0 /\ performed[n]["other"] = 0
    BY <2>2
  <2> QED BY <2>1, <2>2, <2>3, CarriedSum
<1>5. Boxes
  <2>1. box \in [Queues -> Seq(Msgs)] /\ messageQueues_ \subseteq ModuleQueues
    BY <1>4 DEF DeliveryInit, QueuesInit
  <2>2. \A q \in Queues : Len(box[q]) <= DEFAULT_QUEUE_SIZE
    BY <1>1, <1>4, Constants
  <2> QED BY <2>1, <2>2 DEF Boxes
<1>6. Engine
  <2>1. sends \in [{} -> Nat] /\ outcome \in [{} -> {"pending", "acknowledged", "aborted"}]
        /\ source \in [{} -> {}]
    BY DEF DeliveryInit, Init
  <2> QED BY <1>2, <1>3, <2>1, Constants DEF Engine
<1>7. Acting
  <2>1. act \in [pc : Pcs, id : Nat, token_ : Tokens, rules_ : {"same", "other", "gone"}]
    BY DEF DeliveryInit, Down, Pcs, Tokens
  <2>2. token_file \in Tokens
    BY DEF DeliveryInit, Tokens
  <2>3. heard \in [Raises -> Seq(Hearings)]
    BY <1>4 DEF DeliveryInit
  <2> QED BY <1>2, <1>12, <2>1, <2>2, <2>3, CarriedSum DEF Acting
<1>8. Contents
  BY <1>1, <1>4, Constants DEF Contents
<1>9. Once /\ Done
  BY <1>1, <1>2, <1>3, <1>4, <1>12, Constants DEF Once, Done, Taken
<1>10. Replied
  BY <1>1, <1>2, <1>3, <1>4, Constants DEF Replied, Replies, Taken
<1>11. Relied
  BY <1>1, <1>2, <1>3, <1>4, Constants DEF Relied
<1> QED BY <1>5, <1>6, <1>7, <1>8, <1>9, <1>10, <1>11 DEF IInv

-------------------------------------------------------------------------------
(* What a step does to a queue *)

Same(q) == box'[q] = box[q]

\* msg was put at the end of it, or lost.
Grown(q, msg) ==
  /\ In(box'[q]) \subseteq In(box[q]) \cup {msg}
  /\ \A X : Hits(box'[q], X) <= Hits(box[q], X) + (IF msg \in X THEN 1 ELSE 0)

\* msg was taken from it.
Shrunk(q, msg) ==
  /\ msg \in In(box[q])
  /\ In(box'[q]) \subseteq In(box[q])
  /\ \A X : Hits(box[q], X) = Hits(box'[q], X) + (IF msg \in X THEN 1 ELSE 0)

LEMMA SendsToCore ==
  ASSUME Boxes, NEW msg \in Msgs, ToCore(msg) \/ UNCHANGED queues
  PROVE  Boxes' /\ Same("action") /\ Same("event") /\ Grown("core", msg)
<1>1. CASE UNCHANGED queues
  <2>1. box' = box /\ messageQueues_' = messageQueues_
    BY <1>1 DEF queues
  <2>2. \A X : Hits(box["core"], X) \in Nat
    BY BoxTypes, Constants
  <2> QED BY <2>1, <2>2 DEF Boxes, Same, Grown
<1>2. CASE ToCore(msg)
  <2>1. box["core"] \in Seq(Msgs) /\ Len(box["core"]) <= DEFAULT_QUEUE_SIZE
    BY BoxTypes, Constants
  <2>2. box' = [box EXCEPT !["core"] = Put("core", msg)] /\ messageQueues_' = messageQueues_
    BY <1>2 DEF ToCore
  <2>3. Boxes'
    BY <2>1, <2>2, PutOrLost, Constants DEF Boxes
  <2>4. /\ box'["core"] = Put("core", msg)
        /\ box'["action"] = box["action"] /\ box'["event"] = box["event"]
    BY <2>2, Constants, DeliveryAssumption DEF Boxes
  <2> QED BY <2>1, <2>3, <2>4, PutOrLost, Constants DEF Same, Grown
<1> QED BY <1>1, <1>2

LEMMA Receives ==
  ASSUME Boxes, NEW q \in Queues, NEW msg, Receive(q, msg)
  PROVE  Boxes' /\ Shrunk(q, msg) /\ \A p \in Queues \ {q} : Same(p)
<1>1. box[q] \in Seq(Msgs) /\ box[q] # <<>> /\ Len(box[q]) <= DEFAULT_QUEUE_SIZE
  BY BoxTypes DEF Receive
<1>2. box' = [box EXCEPT ![q] = Tail(box[q])] /\ messageQueues_' = messageQueues_
      /\ msg = Head(box[q])
  BY DEF Receive
<1>3. Tail(box[q]) \in Seq(Msgs) /\ Len(Tail(box[q])) <= DEFAULT_QUEUE_SIZE
  <2>1. Len(box[q]) \in Nat /\ Len(Tail(box[q])) \in Nat /\ Len(Tail(box[q])) <= Len(box[q])
    BY <1>1, HitsTail, LenProperties
  <2> QED BY <1>1, <2>1, HitsTail, Constants
<1>4. Boxes'
  BY <1>2, <1>3 DEF Boxes
<1>5. box'[q] = Tail(box[q]) /\ \A p \in Queues \ {q} : box'[p] = box[p]
  BY <1>2 DEF Boxes
<1> QED BY <1>1, <1>2, <1>4, <1>5, HitsTail DEF Same, Shrunk

LEMMA HearsOne ==
  ASSUME NEW s \in Seq(Hearings), NEW what \in Hearings
  PROVE  /\ Append(s, what) \in Seq(Hearings)
         /\ Len(s) \in Nat /\ Len(Append(s, what)) = Len(s) + 1
         /\ In(Append(s, what)) = In(s) \cup {what}
<1> DEFINE t == Append(s, what)
           n == Len(s)
<1>1. /\ t \in Seq(Hearings) /\ Len(t) = n + 1 /\ n \in Nat
      /\ \A i \in 1 .. n : t[i] = s[i]
      /\ t[n + 1] = what
  BY AppendProperties, LenProperties
<1> HIDE DEF t, n
<1>2. 1 .. n + 1 = (1 .. n) \cup {n + 1}
  BY <1>1
<1>3. In(t) = In(s) \cup {what}
  BY <1>1, <1>2 DEF In, n
<1> QED BY <1>1, <1>3 DEF t, n

\* Messenger::sendMessage from the core, which goes on with left in its own queue.
LEMMA Deliveries ==
  ASSUME Boxes, NEW m \in ModuleQueues, NEW msg \in Msgs,
         NEW left \in Seq(Msgs), Len(left) <= DEFAULT_QUEUE_SIZE,
         box' = [Delivered(m, msg) EXCEPT !["core"] = left], UNCHANGED messageQueues_
  PROVE  /\ Boxes' /\ box'["core"] = left /\ Grown(m, msg)
         /\ \A p \in ModuleQueues \ {m} : Same(p)
         /\ \A X : Hits(box'[m], X) = Hits(box[m], X) +
              (IF m \in messageQueues_ /\ Fits(m) /\ msg \in X THEN 1 ELSE 0)
<1>1. /\ box \in [Queues -> Seq(Msgs)] /\ m \in Queues /\ m # "core" /\ "core" \in Queues
      /\ box[m] \in Seq(Msgs) /\ Len(box[m]) <= DEFAULT_QUEUE_SIZE
      /\ \A X : Hits(box[m], X) \in Nat
  BY BoxTypes, Constants DEF Boxes
<1>2. CASE m \in messageQueues_
  <2>1. box' = [box EXCEPT ![m] = Put(m, msg), !["core"] = left]
    BY <1>2 DEF Delivered
  <2>2. box'["core"] = left /\ box'[m] = Put(m, msg) /\ \A p \in ModuleQueues \ {m} : Same(p)
    BY <1>1, <2>1, Constants DEF Same
  <2>3. Put(m, msg) \in Seq(Msgs) /\ Len(Put(m, msg)) <= DEFAULT_QUEUE_SIZE
    BY <1>1, PutOrLost
  <2>4. Boxes'
    BY <1>1, <2>1, <2>3 DEF Boxes
  <2>5. Grown(m, msg)
    BY <1>1, <2>2, PutOrLost DEF Grown
  <2>6. \A X : Hits(box'[m], X) = Hits(box[m], X) + (IF Fits(m) /\ msg \in X THEN 1 ELSE 0)
    BY <1>1, <2>2, PutOrLost
  <2> QED BY <1>2, <2>2, <2>4, <2>5, <2>6
<1>3. CASE m \notin messageQueues_
  <2>1. box' = [box EXCEPT !["core"] = left]
    BY <1>3 DEF Delivered
  <2>2. box'["core"] = left /\ box'[m] = box[m] /\ \A p \in ModuleQueues \ {m} : Same(p)
    BY <1>1, <2>1, Constants DEF Same
  <2>3. Boxes'
    BY <1>1, <2>1 DEF Boxes
  <2> QED BY <1>1, <1>3, <2>2, <2>3 DEF Grown
<1> QED BY <1>2, <1>3

LEMMA Answers ==
  ASSUME Boxes, heard \in [Raises -> Seq(Hearings)],
         NEW type \in {"acked", "abort"}, NEW id \in Nat, NEW of \in Raises,
         NEW left \in Seq(Msgs), Len(left) <= DEFAULT_QUEUE_SIZE,
         Reply(type, id, of, left), UNCHANGED messageQueues_
  PROVE  /\ Boxes' /\ box'["core"] = left /\ Same("action")
         /\ In(box'["event"]) \subseteq In(box["event"]) \cup {Msg(type, id, of)}
         /\ heard' \in [Raises -> Seq(Hearings)]
         /\ \A n \in Raises : /\ Replies(n)' = Replies(n) + (IF n = of THEN 1 ELSE 0)
                              /\ In(heard'[n]) \subseteq In(heard[n]) \cup {"lost"}
<1> DEFINE msg == Msg(type, id, of)
           kept == "event" \in messageQueues_ /\ Fits("event")
<1>1. of \in Nat /\ msg \in Msgs /\ \A n \in Raises : msg \in Of(n) <=> n = of
  <2>1. of \in Nat
    BY Constants DEF Raises
  <2>2. msg \in Msgs /\ msg.of = of
    BY <2>1, Messages
  <2> HIDE DEF msg
  <2> QED BY <2>1, <2>2 DEF Of
<1>2. /\ box' = [Delivered("event", msg) EXCEPT !["core"] = left]
      /\ heard' = IF kept THEN heard ELSE [heard EXCEPT ![of] = Append(heard[of], "lost")]
  BY DEF Reply
<1>3. "event" \in ModuleQueues /\ "action" \in ModuleQueues \ {"event"} /\ "lost" \in Hearings
  BY DeliveryAssumption DEF Hearings
<1> HIDE DEF msg
<1>4. /\ Boxes' /\ box'["core"] = left /\ Same("action") /\ Grown("event", msg)
      /\ \A X : Hits(box'["event"], X) = Hits(box["event"], X) +
           (IF kept /\ msg \in X THEN 1 ELSE 0)
  BY <1>1, <1>2, <1>3, Deliveries
<1>5. \A X : Hits(box["event"], X) \in Nat
  BY BoxTypes, Constants
<1>6. \A n \in Raises : Len(heard[n]) \in Nat
  BY LenProperties
<1> HIDE DEF kept
<1>7. CASE kept
  <2>1. heard' = heard
    BY <1>2, <1>7
  <2>2. \A n \in Raises :
          Hits(box'["event"], Of(n)) = Hits(box["event"], Of(n)) + (IF n = of THEN 1 ELSE 0)
    BY <1>1, <1>4, <1>7
  <2>3. \A n \in Raises : Replies(n)' = Replies(n) + (IF n = of THEN 1 ELSE 0)
    BY <1>5, <1>6, <2>1, <2>2 DEF Replies
  <2> QED BY <1>4, <2>1, <2>3 DEF Grown, msg
<1>8. CASE ~kept
  <2>1. heard' = [heard EXCEPT ![of] = Append(heard[of], "lost")]
    BY <1>2, <1>8
  <2>2. /\ Append(heard[of], "lost") \in Seq(Hearings)
        /\ Len(Append(heard[of], "lost")) = Len(heard[of]) + 1
        /\ In(Append(heard[of], "lost")) = In(heard[of]) \cup {"lost"}
    BY <1>3, HearsOne
  <2>3. heard' \in [Raises -> Seq(Hearings)]
    BY <2>1, <2>2
  <2>4. \A n \in Raises : /\ Len(heard'[n]) = Len(heard[n]) + (IF n = of THEN 1 ELSE 0)
                          /\ In(heard'[n]) \subseteq In(heard[n]) \cup {"lost"}
    BY <1>6, <2>1, <2>2
  <2>5. \A n \in Raises : Hits(box'["event"], Of(n)) = Hits(box["event"], Of(n))
    BY <1>4, <1>5, <1>8
  <2>6. \A n \in Raises : Replies(n)' = Replies(n) + (IF n = of THEN 1 ELSE 0)
    BY <1>5, <1>6, <2>4, <2>5 DEF Replies
  <2> QED BY <1>4, <2>3, <2>4, <2>6 DEF Grown, msg
<1> QED BY <1>7, <1>8

-------------------------------------------------------------------------------
(* One lemma for each action *)

LEMMA RaiseGood == IInv /\ RaiseEvent => IInv'
<1> SUFFICES ASSUME IInv, RaiseEvent PROVE IInv'
  OBVIOUS
<1> DEFINE msg == Msg("event", 0, raised')
<1>1. /\ raised \in Nat /\ raised' = raised + 1 /\ raised' \in Raises
      /\ UNCHANGED <<accepted, sends, outcome, source, act, token_file, performed, Carried, heard>>
  BY Constants, CarriedSame DEF IInv, Engine, RaiseEvent, vars, Raises
<1>2. Accepted' = Accepted /\ \A n : Taken(n)' <=> Taken(n)
  BY <1>1 DEF Accepted, Taken
<1>3. msg \in Msgs /\ (ToCore(msg) \/ UNCHANGED queues)
  BY <1>1, Messages DEF RaiseEvent
<1>4. Boxes' /\ Same("action") /\ Same("event") /\ Grown("core", msg)
  BY <1>3, SendsToCore DEF IInv
<1>5. \A X : Hits(box["core"], X) \in Nat /\ Hits(box'["core"], X) \in Nat
  <2>1. box["core"] \in Seq(Msgs) /\ box'["core"] \in Seq(Msgs)
    BY <1>4, Constants DEF IInv, Boxes
  <2> QED BY <2>1, HitsFinite
<1>6. Engine'
  BY <1>1, <1>2 DEF IInv, Engine, RaiseEvent, Raises
<1>7. Acting'
  BY <1>1, <1>2 DEF IInv, Acting
<1>8. Contents'
  BY <1>1, <1>2, <1>4 DEF IInv, Contents, Same, Grown, EventOf
<1>9. ~Taken(raised')
  BY <1>1 DEF IInv, Engine, Taken
<1>10. EventOf(raised') \notin In(box["core"])
  BY <1>1, Messages DEF IInv, Contents, EventOf
<1>11. Hits(box["core"], {EventOf(raised')}) = 0
  BY <1>10, HitsNone, BoxTypes, Constants DEF IInv
<1>12. Once'
  <2> SUFFICES ASSUME NEW n \in Raises
               PROVE  /\ Hits(box'["core"], {EventOf(n)}) <= 1
                      /\ Taken(n) => Hits(box'["core"], {EventOf(n)}) = 0
                      /\ ~Taken(n) => Carried[n] = 0
    BY <1>1, <1>2 DEF Once, EventOf
  <2>1. msg \in {EventOf(n)} <=> n = raised'
    <3>1. msg.of = raised' /\ EventOf(n).of = n /\ msg = EventOf(raised')
      BY Messages DEF EventOf
    <3> QED BY <3>1
  <2>2. Hits(box'["core"], {EventOf(n)}) <=
          Hits(box["core"], {EventOf(n)}) + (IF n = raised' THEN 1 ELSE 0)
    BY <1>4, <2>1 DEF Grown
  <2> QED BY <1>5, <1>9, <1>11, <2>2 DEF IInv, Once
<1>13. Done'
  BY <1>1, <1>2, <1>4 DEF IInv, Done, Same, InHand
<1>14. Replied'
  BY <1>1, <1>2, <1>4, <1>9, Messages DEF IInv, Replied, Replies, Same, Grown, EventOf, Raises
<1>15. Relied'
  BY <1>1, <1>2, <1>4, Messages DEF IInv, Relied, Same, Grown
<1> QED BY <1>4, <1>6, <1>7, <1>8, <1>12, <1>13, <1>14, <1>15 DEF IInv

LEMMA HearGood == IInv /\ HearReply => IInv'
<1> SUFFICES ASSUME IInv, HearReply PROVE IInv'
  OBVIOUS
<1>1. PICK msg, what :
        /\ Receive("event", msg) /\ what \in {msg.type, "lost"}
        /\ heard' = [heard EXCEPT ![msg.of] = Append(heard[msg.of], what)]
  BY DEF HearReply
<1>2. UNCHANGED <<accepted, sends, outcome, source, raised, act, token_file, performed, Carried>>
  BY CarriedSame DEF HearReply, vars
<1>3. Accepted' = Accepted /\ \A n : Taken(n)' <=> Taken(n)
  BY <1>2 DEF Accepted, Taken
<1>4. Boxes' /\ Shrunk("event", msg) /\ Same("core") /\ Same("action")
  BY <1>1, Receives, Constants, DeliveryAssumption DEF IInv
<1>5. msg.of \in 1 .. raised /\ msg.type \in {"acked", "abort"}
  <2>1. PICK id \in Accepted \cup {0}, n \in 1 .. raised :
          msg \in {Msg("acked", id, n), Msg("abort", id, n)}
    BY <1>4 DEF IInv, Contents, Shrunk
  <2> QED BY <2>1, Messages
<1>6. msg.of \in Raises /\ what \in Hearings /\ heard \in [Raises -> Seq(Hearings)]
  BY <1>1, <1>5, Constants DEF IInv, Engine, Acting, Raises, Hearings
<1>7. /\ heard' \in [Raises -> Seq(Hearings)]
      /\ \A n \in Raises :
           /\ Len(heard'[n]) = Len(heard[n]) + (IF n = msg.of THEN 1 ELSE 0)
           /\ In(heard'[n]) \subseteq In(heard[n]) \cup (IF n = msg.of THEN {what} ELSE {})
           /\ Len(heard[n]) \in Nat
  BY <1>1, <1>6, HearsOne
<1>8. \A n \in Raises : Replies(n)' = Replies(n)
  <2> SUFFICES ASSUME NEW n \in Raises PROVE Replies(n)' = Replies(n)
    OBVIOUS
  <2>1. box["event"] \in Seq(Msgs) /\ box'["event"] \in Seq(Msgs) /\ msg \in Msgs
    BY <1>4, Constants DEF IInv, Boxes, Shrunk, In
  <2>2. Hits(box["event"], Of(n)) \in Nat /\ Hits(box'["event"], Of(n)) \in Nat
    BY <2>1, HitsFinite
  <2>3. msg \in Of(n) <=> n = msg.of
    BY <2>1 DEF Of
  <2>4. Hits(box["event"], Of(n)) = Hits(box'["event"], Of(n)) + (IF n = msg.of THEN 1 ELSE 0)
    BY <1>4, <2>3 DEF Shrunk
  <2>5. Len(heard[n]) \in Nat /\ Len(heard'[n]) = Len(heard[n]) + (IF n = msg.of THEN 1 ELSE 0)
    BY <1>7
  <2>6. Replies(n) = Hits(box["event"], Of(n)) + Len(heard[n])
        /\ Replies(n)' = Hits(box'["event"], Of(n)) + Len(heard'[n])
    BY DEF Replies
  <2>7. CASE n = msg.of
    BY <2>2, <2>4, <2>5, <2>6, <2>7
  <2>8. CASE n # msg.of
    BY <2>2, <2>4, <2>5, <2>6, <2>8
  <2> QED BY <2>7, <2>8
<1>9. Engine'
  BY <1>2, <1>3 DEF IInv, Engine
<1>10. Acting'
  BY <1>2, <1>3, <1>7 DEF IInv, Acting
<1>11. Contents'
  BY <1>2, <1>3, <1>4 DEF IInv, Contents, Same, Shrunk
<1>12. Once' /\ Done'
  BY <1>2, <1>3, <1>4 DEF IInv, Once, Done, Same, InHand
<1>13. Replied'
  BY <1>2, <1>3, <1>4, <1>8 DEF IInv, Replied, Same
<1>14. Relied'
  <2>1. \A n \in Raises : "acked" \in In(heard'[n]) => Carried[n] > 0
    BY <1>1, <1>4, <1>7 DEF IInv, Relied, Shrunk
  <2> QED BY <1>2, <1>3, <1>4, <2>1 DEF IInv, Relied, Same, Shrunk
<1> QED BY <1>4, <1>9, <1>10, <1>11, <1>12, <1>13, <1>14 DEF IInv

\* A message that is no event waits for the core.
LEMMA CoreGrows ==
  ASSUME IInv, NEW msg \in Msgs, msg.type # "event",
         ToCore(msg) \/ UNCHANGED queues,
         UNCHANGED <<accepted, sends, outcome, source, raised, performed, Carried, heard>>
  PROVE  /\ Boxes' /\ Same("action") /\ Same("event") /\ Grown("core", msg)
         /\ Accepted' = Accepted /\ Engine' /\ Once' /\ Replied'
<1>1. Boxes' /\ Same("action") /\ Same("event") /\ Grown("core", msg)
  BY SendsToCore DEF IInv
<1>2. Accepted' = Accepted /\ \A n : Taken(n)' <=> Taken(n)
  BY DEF Accepted, Taken
<1>3. box["core"] \in Seq(Msgs) /\ box'["core"] \in Seq(Msgs)
  BY <1>1, Constants DEF IInv, Boxes
<1>4. \A n : msg # EventOf(n)
  BY Messages DEF EventOf
<1>5. \A n : Hits(box'["core"], {EventOf(n)}) <= Hits(box["core"], {EventOf(n)})
  <2> SUFFICES ASSUME NEW n
               PROVE  Hits(box'["core"], {EventOf(n)}) <= Hits(box["core"], {EventOf(n)})
    OBVIOUS
  <2>1. Hits(box["core"], {EventOf(n)}) \in Nat /\ Hits(box'["core"], {EventOf(n)}) \in Nat
    BY <1>3, HitsFinite
  <2> QED BY <1>1, <1>4, <2>1 DEF Grown
<1>6. \A n : Hits(box["core"], {EventOf(n)}) \in Nat /\ Hits(box'["core"], {EventOf(n)}) \in Nat
  BY <1>3, HitsFinite
<1>7. Engine'
  BY <1>2 DEF IInv, Engine
<1>8. Once'
  BY <1>2, <1>5, <1>6 DEF IInv, Once, EventOf
<1>9. Replied'
  BY <1>1, <1>2, <1>4 DEF IInv, Replied, Replies, Same, Grown, EventOf
<1> QED BY <1>1, <1>2, <1>7, <1>8, <1>9

LEMMA OtherGood == IInv /\ OtherMessage => IInv'
<1> SUFFICES ASSUME IInv, OtherMessage PROVE IInv'
  OBVIOUS
<1>1. /\ ToCore(Other) /\ Other \in Msgs /\ Other.type # "event"
      /\ UNCHANGED <<accepted, sends, outcome, source, raised, act, token_file, performed, Carried, heard>>
  BY Messages, CarriedSame DEF OtherMessage, vars, world
<1>2. /\ Boxes' /\ Same("action") /\ Same("event") /\ Grown("core", Other)
      /\ Accepted' = Accepted /\ Engine' /\ Once' /\ Replied'
  BY <1>1, CoreGrows
<1>3. Acting' /\ Done'
  BY <1>1, <1>2 DEF IInv, Acting, Done, Same, InHand
<1>4. Contents'
  BY <1>1, <1>2 DEF IInv, Contents, Same, Grown, EventOf
<1>5. \A id : Msg("ack", id, 0) # Other
  BY Messages
<1>6. Relied'
  BY <1>1, <1>2, <1>5 DEF IInv, Relied, Same, Grown
<1> QED BY <1>2, <1>3, <1>4, <1>6 DEF IInv

LEMMA AcknowledgeGood == IInv /\ AcknowledgeEvent => IInv'
<1> SUFFICES ASSUME IInv, AcknowledgeEvent PROVE IInv'
  OBVIOUS
<1> DEFINE msg == Msg("ack", act.id, 0)
<1>1. /\ act.pc = "acking" /\ act.id \in Accepted /\ act' = Idle(act)
      /\ Carried[source[act.id]] > 0
      /\ UNCHANGED <<accepted, sends, outcome, source, raised, token_file, performed, Carried, heard>>
  BY CarriedSame DEF AcknowledgeEvent, engine, world, IInv, Acting, Relied
<1>2. msg \in Msgs /\ msg.type # "event" /\ (ToCore(msg) \/ UNCHANGED queues)
  <2>1. act.id \in Nat
    BY DEF IInv, Acting
  <2> QED BY <2>1, Messages DEF AcknowledgeEvent
<1>3. /\ Boxes' /\ Same("action") /\ Same("event") /\ Grown("core", msg)
      /\ Accepted' = Accepted /\ Engine' /\ Once' /\ Replied'
  BY <1>1, <1>2, CoreGrows
<1>4. act'.pc = "idle" /\ Acting'
  BY <1>1, <1>3 DEF IInv, Acting, Idle, Pcs
<1>5. Done'
  BY <1>1, <1>3, <1>4 DEF IInv, Done, Same, InHand
<1>6. Contents'
  BY <1>1, <1>3 DEF IInv, Contents, Same, Grown, EventOf
<1>7. \A id : Msg("ack", id, 0) = msg => id = act.id
  BY Messages
<1>8. Relied'
  BY <1>1, <1>3, <1>4, <1>7 DEF IInv, Relied, Same, Grown
<1> QED BY <1>3, <1>4, <1>5, <1>6, <1>8 DEF IInv

LEMMA BuryGood == ASSUME IInv, NEW m \in ModuleQueues, Bury(m) PROVE IInv'
<1>1. /\ messageQueues_' \subseteq messageQueues_
      /\ UNCHANGED <<box, accepted, sends, outcome, source, raised, act, token_file,
                     performed, Carried, heard>>
  BY CarriedSame DEF Bury, RemoveQueue, engine, world
<1>2. Accepted' = Accepted /\ \A n : Taken(n)' <=> Taken(n)
  BY <1>1 DEF Accepted, Taken
<1>3. Boxes' /\ Engine' /\ Acting'
  BY <1>1, <1>2 DEF IInv, Boxes, Engine, Acting
<1>4. Contents' /\ Once'
  BY <1>1, <1>2 DEF IInv, Contents, Once
<1>5. Done' /\ Replied' /\ Relied'
  BY <1>1, <1>2 DEF IInv, Done, Replied, Replies, Relied, InHand
<1> QED BY <1>3, <1>4, <1>5 DEF IInv

\* The action module does something else, without finishing what it has in hand.
LEMMA ActMoves ==
  ASSUME IInv,
         UNCHANGED <<box, messageQueues_, accepted, sends, outcome, source, raised,
                     performed, Carried, heard>>,
         act' \in [pc : Pcs, id : Nat, token_ : Tokens, rules_ : {"same", "other", "gone"}],
         token_file' \in Tokens,
         act'.pc \in {"taking", "acking"} => act'.pc = act.pc /\ act'.id = act.id
  PROVE  IInv'
<1>1. Accepted' = Accepted /\ \A n : Taken(n)' <=> Taken(n)
  BY DEF Accepted, Taken
<1>2. Boxes' /\ Engine' /\ Acting'
  BY <1>1 DEF IInv, Boxes, Engine, Acting
<1>3. Contents' /\ Once' /\ Replied'
  BY <1>1 DEF IInv, Contents, Once, Replied, Replies
<1>4. Relied'
  BY <1>1 DEF IInv, Relied
<1>5. \A id \in Accepted : InHand(id)' \in {0, InHand(id)}
  BY DEF InHand
<1>6. Done'
  <2> SUFFICES ASSUME NEW id \in Accepted
               PROVE  Carried[source[id]] + Hits(box["action"], For(id)) + InHand(id)'
                        <= sends[id]
    BY <1>1 DEF Done
  <2>1. Carried[source[id]] \in Nat /\ sends[id] \in Nat /\ source[id] \in Raises
    BY Events DEF IInv, Engine, Acting
  <2>2. Hits(box["action"], For(id)) \in Nat /\ InHand(id) \in {0, 1}
    BY BoxTypes, Constants DEF IInv, InHand
  <2>3. Carried[source[id]] + Hits(box["action"], For(id)) + InHand(id) <= sends[id]
    BY DEF IInv, Done
  <2> QED BY <1>5, <2>1, <2>2, <2>3
<1> QED BY <1>2, <1>3, <1>4, <1>6 DEF IInv

\* It has carried out the action it had in hand.
LEMMA ActPerforms ==
  ASSUME IInv, act.pc = "taking", act.rules_ # "gone", Perform,
         UNCHANGED <<box, messageQueues_, accepted, sends, outcome, source, raised, heard>>,
         act' \in [pc : Pcs, id : Nat, token_ : Tokens, rules_ : {"same", "other", "gone"}],
         token_file' \in Tokens,
         act'.pc # "taking", act'.pc = "acking" => act'.id = act.id
  PROVE  IInv'
<1>1. Accepted' = Accepted /\ \A n : Taken(n)' <=> Taken(n)
  BY DEF Accepted, Taken
<1>2. act.id \in Accepted /\ source[act.id] \in Raises
  BY Events DEF IInv, Acting
<1>3. /\ performed' \in [Raises -> Counts] /\ Carried \in [Raises -> Nat]
      /\ Carried' \in [Raises -> Nat]
      /\ \A n \in Raises :
           Carried'[n] = Carried[n] + (IF n = source[act.id] THEN 1 ELSE 0)
  <2> DEFINE m   == source[act.id]
             new == [performed[m] EXCEPT ![act.rules_] = performed[m][act.rules_] + 1]
  <2>1. performed \in [Raises -> Counts] /\ act.rules_ \in {"same", "other"}
    BY DEF IInv, Acting
  <2>2. performed[m] \in Counts
    BY <1>2, <2>1
  <2>3. /\ new \in Counts
        /\ new["same"] + new["other"] = performed[m]["same"] + performed[m]["other"] + 1
    BY <2>1, <2>2 DEF Counts
  <2>4. performed' = [performed EXCEPT ![m] = new]
    BY DEF Perform
  <2> HIDE DEF new
  <2>5. performed' \in [Raises -> Counts]
    BY <2>1, <2>3, <2>4
  <2>6. \A n \in Raises : performed'[n] = IF n = m THEN new ELSE performed[n]
    BY <1>2, <2>1, <2>4
  <2>7. \A n \in Raises :
          /\ Carried[n] = performed[n]["same"] + performed[n]["other"]
          /\ Carried'[n] = performed'[n]["same"] + performed'[n]["other"]
    BY DEF Carried
  <2>8. ASSUME NEW n \in Raises
        PROVE  Carried'[n] = Carried[n] + (IF n = m THEN 1 ELSE 0) /\ Carried'[n] \in Nat
    <3>1. Carried[n] \in Nat
      BY <2>1, CarriedSum
    <3>2. CASE n = m
      BY <2>3, <2>6, <2>7, <3>1, <3>2
    <3>3. CASE n # m
      BY <2>6, <2>7, <3>1, <3>3
    <3> QED BY <3>2, <3>3
  <2>9. Carried' \in [Raises -> Nat]
    BY <2>8 DEF Carried
  <2> QED BY <2>1, <2>5, <2>8, <2>9, CarriedSum
<1>4. Boxes' /\ Engine' /\ Acting'
  BY <1>1, <1>2, <1>3 DEF IInv, Boxes, Engine, Acting
<1>5. Contents' /\ Replied'
  BY <1>1 DEF IInv, Contents, Replied, Replies
<1>6. Once'
  <2>1. \A n \in Raises : ~Taken(n) => n # source[act.id]
    BY <1>2 DEF Taken
  <2>2. ASSUME NEW n \in Raises, ~Taken(n) PROVE Carried'[n] = 0
    <3>1. Carried[n] = 0
      BY <2>2 DEF IInv, Once
    <3> QED BY <1>3, <2>1, <2>2, <3>1
  <2> QED BY <1>1, <2>2 DEF IInv, Once
<1>7. \A n \in Raises : Carried[n] > 0 => Carried'[n] > 0
  BY <1>3
<1>8. Carried'[source[act.id]] > 0
  BY <1>2, <1>3
<1>9. \A id \in Accepted : source[id] \in Raises
  BY Events DEF IInv
<1>10. \A m \in In(box["event"]) : m.of \in Raises
  <2> SUFFICES ASSUME NEW m \in In(box["event"]) PROVE m.of \in Raises
    OBVIOUS
  <2>1. PICK id \in Accepted \cup {0}, n \in 1 .. raised :
          m \in {Msg("acked", id, n), Msg("abort", id, n)}
    BY DEF IInv, Contents
  <2> QED BY <2>1, Messages, Events DEF IInv
<1>11. Relied'
  BY <1>1, <1>7, <1>8, <1>9, <1>10 DEF IInv, Relied
<1>12. Done'
  <2> SUFFICES ASSUME NEW id \in Accepted
               PROVE  Carried'[source[id]] + Hits(box["action"], For(id)) + InHand(id)'
                        <= sends[id]
    BY <1>1 DEF Done
  <2>1. Carried[source[id]] \in Nat /\ sends[id] \in Nat
    BY <1>3, <1>9 DEF IInv, Engine
  <2>2. Hits(box["action"], For(id)) \in Nat
    BY BoxTypes, Constants DEF IInv
  <2>3. Carried[source[id]] + Hits(box["action"], For(id)) + InHand(id) <= sends[id]
    BY DEF IInv, Done
  <2>4. InHand(id)' = 0 /\ InHand(id) = IF id = act.id THEN 1 ELSE 0
    BY DEF InHand
  <2>5. source[id] = source[act.id] => id = act.id
    BY <1>2 DEF IInv, Engine
  <2> QED BY <1>3, <1>9, <2>1, <2>2, <2>3, <2>4, <2>5
<1> QED BY <1>4, <1>5, <1>6, <1>11, <1>12 DEF IInv

LEMMA ReceiveGood == IInv /\ ReceiveAction => IInv'
<1> SUFFICES ASSUME IInv, ReceiveAction PROVE IInv'
  OBVIOUS
<1>1. PICK msg :
        Receive("action", msg) /\ act' = [act EXCEPT !.pc = "taking", !.id = msg.id]
  BY DEF ReceiveAction
<1>2. /\ act.pc = "idle"
      /\ UNCHANGED <<accepted, sends, outcome, source, raised, token_file, performed, Carried, heard>>
  BY CarriedSame DEF ReceiveAction, engine, world
<1>3. Accepted' = Accepted /\ \A n : Taken(n)' <=> Taken(n)
  BY <1>2 DEF Accepted, Taken
<1>4. Boxes' /\ Shrunk("action", msg) /\ Same("core") /\ Same("event")
  BY <1>1, Receives, Constants, DeliveryAssumption DEF IInv
<1>5. PICK id \in Accepted : msg = Msg("action", id, source[id])
  BY <1>4 DEF IInv, Contents, Shrunk
<1>6. msg.id = id /\ id \in Nat
  BY <1>5, Messages DEF Accepted, IInv, Engine
<1>7. act'.pc = "taking" /\ act'.id = id /\ Acting'
  BY <1>1, <1>2, <1>3, <1>6 DEF IInv, Acting, Pcs
<1>8. Engine' /\ Once' /\ Replied'
  BY <1>2, <1>3, <1>4 DEF IInv, Engine, Once, Replied, Replies, Same
<1>9. Contents'
  BY <1>2, <1>3, <1>4 DEF IInv, Contents, Same, Shrunk
<1>10. Relied'
  BY <1>2, <1>3, <1>4, <1>7 DEF IInv, Relied, Same
<1>11. Done'
  <2> SUFFICES ASSUME NEW i \in Accepted
               PROVE  Carried[source[i]] + Hits(box'["action"], For(i)) + InHand(i)'
                        <= sends[i]
    BY <1>2, <1>3 DEF Done
  <2>1. Carried[source[i]] \in Nat /\ sends[i] \in Nat
    BY Events DEF IInv, Engine, Acting
  <2>2. box["action"] \in Seq(Msgs) /\ box'["action"] \in Seq(Msgs)
    BY <1>4, Constants DEF IInv, Boxes
  <2>3. Hits(box["action"], For(i)) \in Nat /\ Hits(box'["action"], For(i)) \in Nat
    BY <2>2, HitsFinite
  <2>4. msg \in For(i) <=> i = id
    BY <1>4, <1>6, <2>2 DEF For, Shrunk, In
  <2>5. Hits(box["action"], For(i)) = Hits(box'["action"], For(i)) + (IF i = id THEN 1 ELSE 0)
    BY <1>4, <2>4 DEF Shrunk
  <2>6. InHand(i) = 0 /\ InHand(i)' = IF i = id THEN 1 ELSE 0
    BY <1>2, <1>7 DEF InHand
  <2>7. Carried[source[i]] + Hits(box["action"], For(i)) + InHand(i) <= sends[i]
    BY DEF IInv, Done
  <2> QED BY <2>1, <2>3, <2>5, <2>6, <2>7
<1> QED BY <1>4, <1>7, <1>8, <1>9, <1>10, <1>11 DEF IInv

-------------------------------------------------------------------------------
(* The action module's own steps are one of the last two. *)

Acts == [pc : Pcs, id : Nat, token_ : Tokens, rules_ : {"same", "other", "gone"}]

LEMMA Requests ==
  ASSUME NEW b \in Acts, NEW file \in Tokens, NEW r \in RequestToken(b, file)
  PROVE  r.act \in Acts /\ r.file \in Tokens /\ r.act.pc \in {b.pc, "down"}
<1> DEFINE good == [b EXCEPT !.token_ = "token"]
           none == [b EXCEPT !.token_ = ""]
<1>1. \/ \E f \in {"token", file} : r = [act |-> good, file |-> f]
      \/ r = [act |-> none, file |-> file]
      \/ r = [act |-> Down, file |-> file]
  BY DEF RequestToken
<1>2. Down \in Acts /\ Down.pc = "down"
  BY DEF Down, Acts, Pcs, Tokens
<1>3. good \in Acts /\ good.pc = b.pc /\ none \in Acts /\ none.pc = b.pc
  BY DEF Acts, Tokens
<1>4. "token" \in Tokens
  BY DEF Tokens
<1> HIDE DEF good, none
<1> QED BY <1>1, <1>2, <1>3, <1>4

LEMMA Notifications ==
  ASSUME NEW a \in Acts, NEW file \in Tokens, NEW r \in Notify(a, file)
  PROVE  /\ r.act \in Acts /\ r.file \in Tokens /\ r.act.pc \in {"idle", "down", "acking"}
         /\ (r.act.pc = "acking" => r.act.id = a.id)
<1> DEFINE sent == [a EXCEPT !.pc = "acking"]
<1>1. Idle(a) \in Acts /\ Idle(a).pc = "idle"
  BY DEF Idle, Acts, Pcs
<1>2. sent \in Acts /\ sent.pc = "acking" /\ sent.id = a.id
  BY DEF Acts, Pcs
<1>3. \/ r = [act |-> Idle(a), file |-> file]
      \/ r = [act |-> sent, file |-> file]
      \/ r \in RequestToken(Idle(a), file)
  BY DEF Notify
<1> HIDE DEF sent
<1>4. CASE r = [act |-> Idle(a), file |-> file]
  BY <1>1, <1>4
<1>5. CASE r = [act |-> sent, file |-> file]
  BY <1>2, <1>5
<1>6. CASE r \in RequestToken(Idle(a), file)
  <2>1. r.act \in Acts /\ r.file \in Tokens /\ r.act.pc \in {"idle", "down"}
    BY <1>1, <1>6, Requests
  <2> QED BY <2>1
<1> QED BY <1>3, <1>4, <1>5, <1>6

LEMMA StartGood == IInv /\ StartModule => IInv'
<1> SUFFICES ASSUME IInv, StartModule PROVE IInv'
  OBVIOUS
<1>1. PICK rules \in {"same", "other", "gone"} :
        LET a == [act EXCEPT !.pc = "idle", !.rules_ = rules, !.token_ = token_file]
        IN IF kind = "firebase" /\ token_file = ""
           THEN \E r \in RequestToken(a, token_file) :
                  act' = r.act /\ token_file' = r.file
           ELSE /\ act' \in {a, Down}
                /\ UNCHANGED token_file
  BY DEF StartModule
<1> DEFINE a == [act EXCEPT !.pc = "idle", !.rules_ = rules, !.token_ = token_file]
<1>2. a \in Acts /\ a.pc = "idle" /\ token_file \in Tokens
  BY DEF IInv, Acting, Acts, Pcs
<1>3. Down \in Acts /\ Down.pc = "down"
  BY DEF Down, Acts, Pcs, Tokens
<1>4. \/ \E r \in RequestToken(a, token_file) : act' = r.act /\ token_file' = r.file
      \/ act' \in {a, Down} /\ token_file' = token_file
  BY <1>1
<1> HIDE DEF a
<1>5. act' \in Acts /\ token_file' \in Tokens /\ act'.pc \in {"idle", "down"}
  BY <1>2, <1>3, <1>4, Requests
<1>6. UNCHANGED <<box, messageQueues_, accepted, sends, outcome, source, raised,
                  performed, Carried, heard>>
  BY CarriedSame DEF StartModule, queues, engine
<1> QED BY <1>5, <1>6, ActMoves DEF Acts

LEMMA TakeGood == IInv /\ TakeAction => IInv'
<1> SUFFICES ASSUME IInv, TakeAction PROVE IInv'
  OBVIOUS
<1>1. /\ act.pc = "taking" /\ act \in Acts /\ token_file \in Tokens
      /\ UNCHANGED <<box, messageQueues_, accepted, sends, outcome, source, raised, heard>>
  BY DEF TakeAction, queues, engine, world, IInv, Acting, Acts
<1>2. /\ Idle(act) \in Acts /\ Idle(act).pc = "idle"
      /\ Down \in Acts /\ Down.pc = "down"
      /\ [act EXCEPT !.pc = "acking"] \in Acts
      /\ [act EXCEPT !.pc = "acking"].pc = "acking"
      /\ [act EXCEPT !.pc = "acking"].id = act.id
  BY <1>1 DEF Idle, Down, Acts, Pcs, Tokens
<1>3. /\ act' \in Acts /\ token_file' \in Tokens
      /\ act'.pc # "taking" /\ (act'.pc = "acking" => act'.id = act.id)
      /\ \/ act.rules_ # "gone" /\ Perform
         \/ act'.pc # "acking" /\ performed' = performed
  <2>1. CASE Mail
    BY <1>1, <1>2, <2>1 DEF Mail
  <2>2. CASE SMS
    BY <1>1, <1>2, <2>2 DEF SMS
  <2>3. CASE Firebase
    <3>1. CASE act.rules_ # "gone"
      <4>1. PICK r \in Notify(act, token_file) :
              /\ act' = r.act /\ token_file' = r.file
              /\ Perform \/ (r.act.pc # "acking" /\ performed' = performed)
        BY <2>3, <3>1 DEF Firebase
      <4>2. /\ r.act \in Acts /\ r.file \in Tokens /\ r.act.pc \in {"idle", "down", "acking"}
            /\ (r.act.pc = "acking" => r.act.id = act.id)
        BY <1>1, Notifications
      <4>3. Perform \/ (act'.pc # "acking" /\ performed' = performed)
        BY <4>1
      <4> QED BY <3>1, <4>1, <4>2, <4>3
    <3>2. CASE act.rules_ = "gone"
      BY <1>1, <1>2, <2>3, <3>2 DEF Firebase
    <3> QED BY <3>1, <3>2
  <2> QED BY <2>1, <2>2, <2>3 DEF TakeAction
<1>4. CASE act.rules_ # "gone" /\ Perform
  BY <1>1, <1>3, <1>4, ActPerforms DEF Acts
<1>5. CASE act'.pc # "acking" /\ performed' = performed
  BY <1>1, <1>3, <1>5, ActMoves, CarriedSame DEF Acts
<1> QED BY <1>3, <1>4, <1>5

LEMMA EndsGood == IInv /\ ProcessEnds => IInv'
<1> SUFFICES ASSUME IInv, ProcessEnds PROVE IInv'
  OBVIOUS
<1>1. act' \in Acts /\ act'.pc = "down"
  BY DEF ProcessEnds, Down, Acts, Pcs, Tokens
<1>2. token_file' \in Tokens
      /\ UNCHANGED <<box, messageQueues_, accepted, sends, outcome, source, raised,
                     performed, Carried, heard>>
  BY CarriedSame DEF ProcessEnds, queues, engine, world, IInv, Acting
<1> QED BY <1>1, <1>2, ActMoves DEF Acts

-------------------------------------------------------------------------------
(* The core *)

\* What the core takes from its queue and what it knows of that.
LEMMA CoreReads ==
  ASSUME IInv, NEW left, box["core"] # <<>>, left = Tail(box["core"]), box'["core"] = left
  PROVE  /\ left \in Seq(Msgs) /\ Len(left) <= DEFAULT_QUEUE_SIZE
         /\ Head(box["core"]) \in Msgs /\ Shrunk("core", Head(box["core"]))
<1>1. box["core"] \in Seq(Msgs) /\ Len(box["core"]) <= DEFAULT_QUEUE_SIZE
  BY BoxTypes, Constants DEF IInv
<1>2. Len(box["core"]) \in Nat /\ Len(left) \in Nat /\ Len(left) <= Len(box["core"])
      /\ left \in Seq(Msgs)
  BY <1>1, HitsTail, LenProperties
<1> QED BY <1>1, <1>2, Constants, HitsTail DEF Shrunk

\* The message of an event is gone with the one the core took.
LEMMA CoreShrinks ==
  ASSUME IInv, Boxes', NEW msg, Shrunk("core", msg),
         UNCHANGED <<accepted, outcome, source, raised, performed, Carried>>
  PROVE  /\ Accepted' = Accepted /\ (\A n : Taken(n)' <=> Taken(n))
         /\ Once'
         /\ \A n \in Raises : EventOf(n) \in In(box'["core"]) =>
              EventOf(n) \in In(box["core"]) /\ EventOf(n) # msg
<1>1. Accepted' = Accepted /\ \A n : Taken(n)' <=> Taken(n)
  BY DEF Accepted, Taken
<1>2. box["core"] \in Seq(Msgs) /\ box'["core"] \in Seq(Msgs)
  BY Constants DEF IInv, Boxes
<1>3. \A X : Hits(box["core"], X) \in Nat /\ Hits(box'["core"], X) \in Nat
  BY <1>2, HitsFinite
<1>4. \A X : Hits(box'["core"], X) = 0 <=> In(box'["core"]) \cap X = {}
  BY <1>2, HitsNone
<1>5. \A n \in Raises : Hits(box["core"], {EventOf(n)}) =
        Hits(box'["core"], {EventOf(n)}) + (IF msg = EventOf(n) THEN 1 ELSE 0)
  BY DEF Shrunk
<1>6. Once'
  <2>1. \A n \in Raises : Hits(box'["core"], {EventOf(n)}) <= Hits(box["core"], {EventOf(n)})
    BY <1>3, <1>5
  <2>2. \A n \in Raises :
          /\ Hits(box["core"], {EventOf(n)}) <= 1
          /\ Taken(n) => Hits(box["core"], {EventOf(n)}) = 0
          /\ ~Taken(n) => Carried[n] = 0
    BY DEF IInv, Once
  <2>3. \A n \in Raises :
          /\ Hits(box'["core"], {EventOf(n)}) <= 1
          /\ Taken(n) => Hits(box'["core"], {EventOf(n)}) = 0
          /\ ~Taken(n) => Carried[n] = 0
    BY <1>3, <2>1, <2>2
  <2>4. \A n : EventOf(n)' = EventOf(n)
    BY DEF EventOf
  <2> QED BY <1>1, <2>3, <2>4 DEF Once
<1>7. ASSUME NEW n \in Raises, EventOf(n) \in In(box'["core"])
      PROVE  EventOf(n) \in In(box["core"]) /\ EventOf(n) # msg
  <2>1. Hits(box'["core"], {EventOf(n)}) # 0
    BY <1>4, <1>7
  <2>2. Hits(box["core"], {EventOf(n)}) <= 1
    BY DEF IInv, Once
  <2>3. EventOf(n) # msg
    BY <1>3, <1>5, <2>1, <2>2
  <2> QED BY <1>7, <2>3 DEF Shrunk
<1> QED BY <1>1, <1>6, <1>7

\* A reply that is sent or lost, whatever it is for.
LEMMA ReplySound ==
  ASSUME IInv, NEW type \in {"acked", "abort"}, NEW id \in Accepted \cup {0},
         NEW of \in 1 .. raised, type = "acked" => Carried[of] > 0,
         NEW left \in Seq(Msgs), Len(left) <= DEFAULT_QUEUE_SIZE,
         In(left) \subseteq In(box["core"]),
         Reply(type, id, of, left),
         UNCHANGED <<messageQueues_, accepted, sends, source, raised, act, token_file,
                     performed, Carried>>
  PROVE  /\ Boxes' /\ box'["core"] = left
         /\ Acting' /\ Contents' /\ Done' /\ Relied'
         /\ Accepted' = Accepted /\ (\A n : Taken(n)' <=> Taken(n))
         /\ \A n \in Raises : Replies(n)' = Replies(n) + (IF n = of THEN 1 ELSE 0)
<1>1. id \in Nat /\ of \in Nat /\ of \in Raises
  <2>1. Accepted \subseteq Nat
    BY DEF IInv, Engine, Accepted
  <2> QED BY <2>1, Events DEF IInv
<1>2. Accepted' = Accepted /\ \A n : Taken(n)' <=> Taken(n)
  BY DEF Accepted, Taken
<1>3. /\ Boxes' /\ box'["core"] = left /\ Same("action")
      /\ In(box'["event"]) \subseteq In(box["event"]) \cup {Msg(type, id, of)}
      /\ heard' \in [Raises -> Seq(Hearings)]
      /\ \A n \in Raises : /\ Replies(n)' = Replies(n) + (IF n = of THEN 1 ELSE 0)
                           /\ In(heard'[n]) \subseteq In(heard[n]) \cup {"lost"}
  BY <1>1, Answers DEF IInv, Acting
<1>4. Acting' /\ Done'
  BY <1>2, <1>3 DEF IInv, Acting, Done, Same, InHand
<1>5. Contents'
  <2>1. \A m \in In(box'["event"]) : \E i \in Accepted \cup {0}, n \in 1 .. raised :
          m \in {Msg("acked", i, n), Msg("abort", i, n)}
    BY <1>3 DEF IInv, Contents
  <2>2. In(box'["action"]) \subseteq {Msg("action", i, source[i]) : i \in Accepted}
    BY <1>3 DEF IInv, Contents, Same
  <2>3. In(box'["core"]) \subseteq
          {Other} \cup {EventOf(n) : n \in 1 .. raised} \cup {Msg("ack", i, 0) : i \in Accepted}
    BY <1>3 DEF IInv, Contents
  <2> QED BY <1>2, <2>1, <2>2, <2>3 DEF Contents, EventOf
<1>6. Relied'
  <2>1. \A m \in In(box'["event"]) : m.type = "acked" => Carried[m.of] > 0
    <3>1. Msg(type, id, of).type = type /\ Msg(type, id, of).of = of
      BY Messages
    <3> QED BY <1>3, <3>1 DEF IInv, Relied
  <2>2. \A n \in Raises : "acked" \in In(heard'[n]) => Carried[n] > 0
    BY <1>3 DEF IInv, Relied
  <2>3. \A i \in Accepted : Msg("ack", i, 0) \in In(box'["core"]) => Carried[source[i]] > 0
    BY <1>3 DEF IInv, Relied
  <2> QED BY <1>2, <2>1, <2>2, <2>3 DEF IInv, Relied
<1> QED BY <1>2, <1>3, <1>4, <1>5, <1>6

\* A reply to an event that one of the engine's entries stands for, which it has done
\* with in the same step.
LEMMA OutcomeGood ==
  ASSUME IInv, NEW id \in Accepted, NEW what \in {"acknowledged", "aborted"},
         outcome[id] = "pending", outcome' = [outcome EXCEPT ![id] = what],
         UNCHANGED <<accepted, sends, source, raised, performed, Carried>>,
         Boxes', Acting', Contents', Done', Relied', Once',
         In(box'["core"]) \subseteq In(box["core"]),
         \A n \in Raises : Replies(n)' = Replies(n) + (IF n = source[id] THEN 1 ELSE 0)
  PROVE  IInv'
<1>1. Accepted' = Accepted /\ \A n : Taken(n)' <=> Taken(n)
  BY DEF Accepted, Taken
<1>2. Engine'
  BY <1>1 DEF IInv, Engine
<1>3. \A i \in Accepted : outcome'[i] = IF i = id THEN what ELSE outcome[i]
  BY DEF IInv, Engine
<1>4. \A i \in Accepted : source[i] = source[id] => i = id
  BY DEF IInv, Engine
<1>5. source[id] \in Raises /\ Taken(source[id]) /\ Replies(source[id]) = 0
  BY Events DEF IInv, Taken, Replied
<1>6. Replied'
  <2> SUFFICES ASSUME NEW n \in Raises
               PROVE  /\ Replies(n)' <= 1
                      /\ (~Taken(n) /\ (n > raised \/ EventOf(n) \in In(box'["core"]))
                            => Replies(n)' = 0)
                      /\ \A i \in Accepted : source[i] = n =>
                           Replies(n)' = IF outcome'[i] = "pending" THEN 0 ELSE 1
    BY <1>1 DEF Replied, EventOf
  <2>1. CASE n = source[id]
    BY <1>3, <1>4, <1>5, <2>1
  <2>2. CASE n # source[id]
    <3>1. Replies(n) <= 1 /\ Replies(n)' = Replies(n) + 0
      BY <2>2 DEF IInv, Replied
    <3>2. Replies(n) \in Nat
      <4>1. Len(heard[n]) \in Nat
        BY LenProperties DEF IInv, Acting
      <4>2. Hits(box["event"], Of(n)) \in Nat
        BY BoxTypes, Constants DEF IInv
      <4> QED BY <4>1, <4>2 DEF Replies
    <3>3. Replies(n)' = Replies(n)
      BY <3>1, <3>2
    <3> QED BY <1>3, <2>2, <3>1, <3>3 DEF IInv, Replied
  <2> QED BY <2>1, <2>2
<1> QED BY <1>2, <1>6 DEF IInv

\* The core takes a message and nobody hears of it.
LEMMA ReadInVain ==
  ASSUME IInv, box["core"] # <<>>, box' = [box EXCEPT !["core"] = Tail(box["core"])],
         UNCHANGED <<messageQueues_, accepted, sends, outcome, source, raised, act,
                     token_file, performed, Carried, heard>>
  PROVE  IInv'
<1> DEFINE msg == Head(box["core"])
<1>1. box'["core"] = Tail(box["core"]) /\ Same("action") /\ Same("event")
  BY Constants DEF IInv, Boxes, Same
<1>2. /\ Tail(box["core"]) \in Seq(Msgs) /\ Len(Tail(box["core"])) <= DEFAULT_QUEUE_SIZE
      /\ Shrunk("core", msg)
  BY <1>1, CoreReads
<1>3. Boxes'
  BY <1>2 DEF IInv, Boxes
<1>4. /\ Accepted' = Accepted /\ (\A n : Taken(n)' <=> Taken(n)) /\ Once'
      /\ \A n \in Raises : EventOf(n) \in In(box'["core"]) => EventOf(n) \in In(box["core"])
  BY <1>2, <1>3, CoreShrinks
<1>5. Engine' /\ Acting' /\ Done'
  BY <1>1, <1>4 DEF IInv, Engine, Acting, Done, Same, InHand
<1>6. Contents'
  BY <1>1, <1>2, <1>4 DEF IInv, Contents, Same, Shrunk
<1>7. Replied'
  BY <1>1, <1>4 DEF IInv, Replied, Replies, Same, EventOf
<1>8. Relied'
  BY <1>1, <1>2, <1>4 DEF IInv, Relied, Same, Shrunk
<1> QED BY <1>3, <1>4, <1>5, <1>6, <1>7, <1>8 DEF IInv

LEMMA TimeoutGood == ASSUME IInv, NEW id \in Accepted, AckTimeout(id) PROVE IInv'
<1>1. UNCHANGED <<messageQueues_, accepted, source, raised, act, token_file, performed, Carried>>
  BY CarriedSame DEF AckTimeout, Retry, Abort, world
<1>2. box["core"] \in Seq(Msgs) /\ Len(box["core"]) <= DEFAULT_QUEUE_SIZE
  BY BoxTypes, Constants DEF IInv
<1>3. CASE Retry(id) /\ box' = SendAction(id) /\ UNCHANGED heard
  <2> DEFINE msg == Msg("action", id, source[id])
  <2>1. /\ outcome' = outcome /\ heard' = heard /\ sends' = [sends EXCEPT ![id] = sends[id] + 1]
    BY <1>3 DEF Retry
  <2>2. Accepted' = Accepted /\ \A n : Taken(n)' <=> Taken(n)
    BY <1>1 DEF Accepted, Taken
  <2>3. msg \in Msgs /\ id \in Nat
    <3>1. id \in Nat
      BY DEF IInv, Engine, Accepted
    <3>2. source[id] \in Nat
      BY Events DEF IInv
    <3> QED BY <3>1, <3>2, Messages
  <2>4. box' = [Delivered("action", msg) EXCEPT !["core"] = box["core"]]
    <3>1. box' = Delivered("action", msg)
      BY <1>1, <1>3 DEF SendAction
    <3>2. Delivered("action", msg) \in [Queues -> Seq(Msgs)]
          /\ Delivered("action", msg)["core"] = box["core"]
      <4>1. Put("action", msg) \in Seq(Msgs)
        BY <2>3, PutOrLost, BoxTypes, Constants DEF IInv
      <4> QED BY <4>1, Constants DEF IInv, Boxes, Delivered
    <3> QED BY <3>1, <3>2
  <2>5. Boxes' /\ box'["core"] = box["core"] /\ Grown("action", msg) /\ Same("event")
    BY <1>1, <1>2, <2>3, <2>4, Deliveries, DeliveryAssumption DEF IInv
  <2>6. Engine'
    BY <1>1, <2>1, <2>2 DEF IInv, Engine
  <2>7. Acting'
    BY <1>1, <2>1, <2>2 DEF IInv, Acting
  <2>8. Contents'
    BY <1>1, <2>2, <2>5 DEF IInv, Contents, Same, Grown, EventOf
  <2>9. Once' /\ Replied'
    BY <1>1, <2>1, <2>2, <2>5 DEF IInv, Once, Replied, Replies, Same
  <2>10. Relied'
    BY <1>1, <2>1, <2>2, <2>5 DEF IInv, Relied, Same
  <2>11. Done'
    <3> SUFFICES ASSUME NEW i \in Accepted
                 PROVE  Carried[source[i]] + Hits(box'["action"], For(i)) + InHand(i)
                          <= sends'[i]
      BY <1>1, <2>2 DEF Done, InHand
    <3>1. Carried[source[i]] \in Nat /\ sends[i] \in Nat
          /\ sends'[i] = sends[i] + (IF i = id THEN 1 ELSE 0)
      BY <2>1, Events DEF IInv, Engine, Acting
    <3>2. box["action"] \in Seq(Msgs) /\ box'["action"] \in Seq(Msgs)
      BY <2>5, Constants DEF IInv, Boxes
    <3>3. Hits(box["action"], For(i)) \in Nat /\ Hits(box'["action"], For(i)) \in Nat
      BY <3>2, HitsFinite
    <3>4. msg \in For(i) <=> i = id
      <4>1. msg.id = id
        BY Messages
      <4> QED BY <2>3, <4>1 DEF For
    <3>5. Hits(box'["action"], For(i)) <= Hits(box["action"], For(i)) + (IF i = id THEN 1 ELSE 0)
      BY <2>5, <3>4 DEF Grown
    <3>6. Carried[source[i]] + Hits(box["action"], For(i)) + InHand(i) <= sends[i]
      BY DEF IInv, Done
    <3>7. InHand(i) \in Nat
      BY DEF InHand
    <3> QED BY <3>1, <3>3, <3>5, <3>6, <3>7
  <2> QED BY <2>5, <2>6, <2>7, <2>8, <2>9, <2>10, <2>11 DEF IInv
<1>4. CASE Abort(id) /\ Reply("abort", id, source[id], box["core"])
  <2>1. /\ outcome[id] = "pending" /\ outcome' = [outcome EXCEPT ![id] = "aborted"]
        /\ sends' = sends /\ source[id] \in 1 .. raised
    BY <1>4, Events DEF Abort, IInv
  <2>2. /\ Boxes' /\ box'["core"] = box["core"]
        /\ Acting' /\ Contents' /\ Done' /\ Relied'
        /\ Accepted' = Accepted /\ (\A n : Taken(n)' <=> Taken(n))
        /\ \A n \in Raises : Replies(n)' = Replies(n) + (IF n = source[id] THEN 1 ELSE 0)
    BY <1>1, <1>2, <1>4, <2>1, ReplySound
  <2>3. Once'
    BY <1>1, <2>2 DEF IInv, Once
  <2> QED BY <1>1, <2>1, <2>2, <2>3, OutcomeGood
<1> QED BY <1>3, <1>4 DEF AckTimeout

LEMMA ReadAckGood ==
  ASSUME IInv, ReadMessage, NEW msg, msg = Head(box["core"]), msg.type = "ack", ReadAck(msg)
  PROVE  IInv'
<1> DEFINE left == Tail(box["core"])
<1>1. box["core"] # <<>>
      /\ UNCHANGED <<messageQueues_, source, raised, act, token_file, performed, Carried>>
  BY CarriedSame DEF ReadMessage, ReadAck, world
<1>2. CASE Acknowledge(msg.id) /\ Reply("acked", msg.id, source[msg.id], left)
  <2>1. left \in Seq(Msgs) /\ Len(left) <= DEFAULT_QUEUE_SIZE
        /\ In(left) \subseteq In(box["core"]) /\ msg \in In(box["core"])
    <3>1. box["core"] \in Seq(Msgs) /\ Len(box["core"]) <= DEFAULT_QUEUE_SIZE
      BY BoxTypes, Constants DEF IInv
    <3>2. Len(box["core"]) \in Nat /\ Len(left) \in Nat /\ Len(left) <= Len(box["core"])
      BY <1>1, <3>1, HitsTail, LenProperties
    <3> QED BY <1>1, <3>1, <3>2, HitsTail, Constants
  <2>2. PICK id \in Accepted : msg = Msg("ack", id, 0)
    BY <2>1, Messages DEF IInv, Contents, EventOf
  <2>3. msg.id = id /\ Carried[source[id]] > 0 /\ source[id] \in 1 .. raised
    BY <2>1, <2>2, Messages, Events DEF IInv, Relied
  <2>4. /\ outcome[id] = "pending" /\ outcome' = [outcome EXCEPT ![id] = "acknowledged"]
        /\ UNCHANGED <<accepted, sends>>
    BY <1>2, <2>3 DEF Acknowledge
  <2>5. Reply("acked", id, source[id], left)
    BY <1>2, <2>3
  <2> HIDE DEF left
  <2>6. /\ Boxes' /\ box'["core"] = left
        /\ Acting' /\ Contents' /\ Done' /\ Relied'
        /\ Accepted' = Accepted /\ (\A n : Taken(n)' <=> Taken(n))
        /\ \A n \in Raises : Replies(n)' = Replies(n) + (IF n = source[id] THEN 1 ELSE 0)
    BY <1>1, <2>1, <2>3, <2>4, <2>5, ReplySound
  <2>7. box["core"] \in Seq(Msgs) /\ left \in Seq(Msgs)
    BY <2>1, Constants DEF IInv, Boxes
  <2>8. \A X : /\ Hits(box["core"], X) \in Nat /\ Hits(left, X) \in Nat
               /\ Hits(left, X) <= Hits(box["core"], X)
    <3> SUFFICES ASSUME NEW X
                 PROVE  /\ Hits(box["core"], X) \in Nat /\ Hits(left, X) \in Nat
                        /\ Hits(left, X) <= Hits(box["core"], X)
      OBVIOUS
    <3>1. Hits(box["core"], X) = Hits(left, X) + (IF Head(box["core"]) \in X THEN 1 ELSE 0)
      BY <1>1, <2>7, HitsTail DEF left
    <3>2. Hits(box["core"], X) \in Nat /\ Hits(left, X) \in Nat
      BY <2>7, HitsFinite
    <3> QED BY <3>1, <3>2
  <2>9. Once'
    BY <1>1, <2>6, <2>8 DEF IInv, Once, EventOf
  <2> QED BY <1>1, <2>1, <2>3, <2>4, <2>6, <2>9, OutcomeGood
<1>3. CASE UNCHANGED <<vars, heard>> /\ box' = [box EXCEPT !["core"] = left]
  BY <1>1, <1>3, ReadInVain DEF vars
<1> QED BY <1>2, <1>3 DEF ReadAck

LEMMA ReadEventGood ==
  ASSUME IInv, ReadMessage, NEW msg, msg = Head(box["core"]), msg.type = "event",
         ReadEvent(msg)
  PROVE  IInv'
<1> DEFINE left == Tail(box["core"])
<1>1. box["core"] # <<>>
      /\ UNCHANGED <<messageQueues_, raised, act, token_file, performed, Carried>>
  BY CarriedSame DEF ReadMessage, world
<1>2. left \in Seq(Msgs) /\ Len(left) <= DEFAULT_QUEUE_SIZE
      /\ In(left) \subseteq In(box["core"]) /\ msg \in In(box["core"])
  <2>1. box["core"] \in Seq(Msgs) /\ Len(box["core"]) <= DEFAULT_QUEUE_SIZE
    BY BoxTypes, Constants DEF IInv
  <2>2. Len(box["core"]) \in Nat /\ Len(left) \in Nat /\ Len(left) <= Len(box["core"])
    BY <1>1, <2>1, HitsTail, LenProperties
  <2> QED BY <1>1, <2>1, <2>2, HitsTail, Constants
<1>3. PICK n \in 1 .. raised : msg = EventOf(n)
  BY <1>2, Messages DEF IInv, Contents
<1>4. msg.of = n /\ n \in Raises /\ n \in Nat
  BY <1>3, Messages, Events DEF IInv, EventOf
\* No entry of the engine is of this event, and its action was never carried out.
<1>5. ~Taken(n) /\ Replies(n) = 0 /\ Carried[n] = 0
  <2>1. box["core"] \in Seq(Msgs)
    BY Constants DEF IInv, Boxes
  <2>2. Hits(box["core"], {EventOf(n)}) # 0
    BY <1>2, <1>3, <2>1, HitsNone
  <2>3. ~Taken(n)
    BY <1>4, <2>2 DEF IInv, Once
  <2> QED BY <1>2, <1>3, <1>4, <2>3 DEF IInv, Once, Replied
<1>6. CASE /\ Accept
           /\ source' = [id \in 0 .. accepted |-> IF id = accepted THEN msg.of ELSE source[id]]
           /\ box' = [SendAction(accepted) EXCEPT !["core"] = left]
           /\ UNCHANGED heard
  <2> DEFINE sent == Msg("action", accepted, n)
  <2>1. /\ accepted \in Nat /\ accepted' = accepted + 1 /\ accepted \notin Accepted
        /\ Accepted' = Accepted \cup {accepted} /\ Accepted' = 0 .. accepted
    BY <1>6 DEF IInv, Engine, Accept, Accepted
  <2>2. /\ source' \in [Accepted' -> 1 .. raised] /\ source'[accepted] = n
        /\ sends' \in [Accepted' -> Nat] /\ sends'[accepted] = 1
        /\ outcome' \in [Accepted' -> {"pending", "acknowledged", "aborted"}]
        /\ outcome'[accepted] = "pending"
        /\ \A id \in Accepted : source'[id] = source[id] /\ sends'[id] = sends[id]
                                  /\ outcome'[id] = outcome[id]
    BY <1>4, <1>6, <2>1 DEF IInv, Engine, Accept
  <2>3. \A k : Taken(k)' <=> Taken(k) \/ k = n
    BY <2>1, <2>2 DEF Taken
  <2>4. Engine'
    BY <1>1, <1>5, <2>1, <2>2 DEF IInv, Engine, Taken
  <2>5. sent \in Msgs /\ box' = [Delivered("action", sent) EXCEPT !["core"] = left]
    BY <1>4, <1>6, <2>1, <2>2, Messages DEF SendAction
  <2> HIDE DEF left, sent
  <2>6. Boxes' /\ box'["core"] = left /\ Grown("action", sent) /\ Same("event")
    BY <1>1, <1>2, <2>5, Deliveries, DeliveryAssumption DEF IInv
  <2>7. Shrunk("core", msg)
    BY <1>1, <2>6, CoreReads DEF left
  <2>8. box["core"] \in Seq(Msgs) /\ box'["core"] \in Seq(Msgs)
        /\ box["action"] \in Seq(Msgs) /\ box'["action"] \in Seq(Msgs)
    BY <2>6, Constants DEF IInv, Boxes
  <2>9. Acting'
    BY <1>1, <1>6, <2>1 DEF IInv, Acting
  <2>10. Contents'
    <3>1. In(box'["action"]) \subseteq {Msg("action", id, source'[id]) : id \in Accepted'}
      <4> SUFFICES ASSUME NEW m \in In(box'["action"])
                   PROVE  \E id \in Accepted' : m = Msg("action", id, source'[id])
        OBVIOUS
      <4>1. CASE m \in In(box["action"])
        <5>1. PICK id \in Accepted : m = Msg("action", id, source[id])
          BY <4>1 DEF IInv, Contents
        <5> QED BY <2>1, <2>2, <5>1
      <4>2. CASE m = sent
        BY <2>1, <2>2, <4>2 DEF sent
      <4> QED BY <2>6, <4>1, <4>2 DEF Grown
    <3>2. In(box'["core"]) \subseteq
            {Other} \cup {EventOf(k) : k \in 1 .. raised}
                    \cup {Msg("ack", id, 0) : id \in Accepted'}
      BY <1>2, <2>1, <2>6 DEF IInv, Contents
    <3>3. \A m \in In(box'["event"]) : \E id \in Accepted' \cup {0}, k \in 1 .. raised :
            m \in {Msg("acked", id, k), Msg("abort", id, k)}
      BY <2>1, <2>6 DEF IInv, Contents, Same
    <3> QED BY <1>1, <3>1, <3>2, <3>3 DEF Contents, EventOf
  <2>11. \A k \in Raises : /\ Hits(box["core"], {EventOf(k)}) \in Nat
                           /\ Hits(box'["core"], {EventOf(k)}) \in Nat
                           /\ Hits(box["core"], {EventOf(k)}) =
                                Hits(box'["core"], {EventOf(k)}) + (IF k = n THEN 1 ELSE 0)
    <3> SUFFICES ASSUME NEW k \in Raises
                 PROVE  /\ Hits(box["core"], {EventOf(k)}) \in Nat
                        /\ Hits(box'["core"], {EventOf(k)}) \in Nat
                        /\ Hits(box["core"], {EventOf(k)}) =
                             Hits(box'["core"], {EventOf(k)}) + (IF k = n THEN 1 ELSE 0)
      OBVIOUS
    <3>1. msg \in {EventOf(k)} <=> k = n
      <4>1. EventOf(k).of = k
        BY Messages DEF EventOf
      <4> QED BY <1>3, <1>4, <4>1
    <3> QED BY <2>7, <2>8, <3>1, HitsFinite DEF Shrunk
  <2>12. Once'
    <3> SUFFICES ASSUME NEW k \in Raises
                 PROVE  /\ Hits(box'["core"], {EventOf(k)}) <= 1
                        /\ (Taken(k)' => Hits(box'["core"], {EventOf(k)}) = 0)
                        /\ (~Taken(k)' => Carried[k] = 0)
      BY <1>1 DEF Once, EventOf
    <3>1. /\ Hits(box["core"], {EventOf(k)}) <= 1
          /\ (Taken(k) => Hits(box["core"], {EventOf(k)}) = 0)
          /\ (~Taken(k) => Carried[k] = 0)
      BY DEF IInv, Once
    <3>2. CASE k = n
      BY <2>3, <2>11, <3>1, <3>2
    <3>3. CASE k # n
      BY <2>3, <2>11, <3>1, <3>3
    <3> QED BY <3>2, <3>3
  <2>13. Done'
    <3> SUFFICES ASSUME NEW id \in Accepted'
                 PROVE  Carried[source'[id]] + Hits(box'["action"], For(id)) + InHand(id)
                          <= sends'[id]
      BY <1>1 DEF Done, InHand
    <3>1. Hits(box["action"], For(id)) \in Nat /\ Hits(box'["action"], For(id)) \in Nat
      BY <2>8, HitsFinite
    <3>2. sent \in For(id) <=> id = accepted
      <4>1. sent.id = accepted
        BY Messages DEF sent
      <4> QED BY <2>5, <4>1 DEF For
    <3>3. Hits(box'["action"], For(id)) <=
            Hits(box["action"], For(id)) + (IF id = accepted THEN 1 ELSE 0)
      BY <2>6, <3>2 DEF Grown
    <3>4. InHand(id) \in Nat
      BY DEF InHand
    <3>5. CASE id \in Accepted
      <4>1. Carried[source[id]] + Hits(box["action"], For(id)) + InHand(id) <= sends[id]
        BY <3>5 DEF IInv, Done
      <4>2. Carried[source[id]] \in Nat /\ sends[id] \in Nat
        BY <3>5, Events DEF IInv, Engine, Acting
      <4>3. source'[id] = source[id] /\ sends'[id] = sends[id] /\ id # accepted
        BY <2>1, <2>2, <3>5
      <4>4. Hits(box'["action"], For(id)) <= Hits(box["action"], For(id))
        BY <3>1, <3>3, <4>3
      <4> QED BY <3>1, <3>4, <4>1, <4>2, <4>3, <4>4
    <3>6. CASE id = accepted
      <4>1. In(box["action"]) \cap For(id) = {}
        <5> SUFFICES ASSUME NEW m \in In(box["action"]) PROVE m.id # id
          BY DEF For
        <5>1. PICK i \in Accepted : m = Msg("action", i, source[i])
          BY DEF IInv, Contents
        <5> QED BY <2>1, <3>6, <5>1, Messages
      <4>2. Hits(box["action"], For(id)) = 0
        BY <2>8, <4>1, HitsNone
      <4>3. InHand(id) = 0
        BY <2>1, <3>6 DEF InHand, IInv, Acting
      <4> QED BY <1>5, <2>2, <3>1, <3>3, <3>6, <4>2, <4>3
    <3> QED BY <2>1, <3>5, <3>6
  <2>14. \A k \in Raises : Replies(k)' = Replies(k)
    BY <1>6, <2>6 DEF Replies, Same
  <2>15. Replied'
    <3> SUFFICES ASSUME NEW k \in Raises
                 PROVE  /\ Replies(k)' <= 1
                        /\ (~Taken(k)' /\ (k > raised \/ EventOf(k) \in In(box'["core"]))
                              => Replies(k)' = 0)
                        /\ \A id \in Accepted' : source'[id] = k =>
                             Replies(k)' = IF outcome'[id] = "pending" THEN 0 ELSE 1
      BY <1>1 DEF Replied, EventOf
    <3>1. /\ Replies(k) <= 1
          /\ (~Taken(k) /\ (k > raised \/ EventOf(k) \in In(box["core"])) => Replies(k) = 0)
          /\ \A id \in Accepted : source[id] = k =>
               Replies(k) = IF outcome[id] = "pending" THEN 0 ELSE 1
      BY DEF IInv, Replied
    <3>2. ASSUME NEW id \in Accepted', source'[id] = k
          PROVE  Replies(k)' = IF outcome'[id] = "pending" THEN 0 ELSE 1
      BY <1>5, <2>1, <2>2, <2>14, <3>1, <3>2
    <3> QED BY <1>2, <2>3, <2>6, <2>14, <3>1, <3>2
  <2>16. Relied'
    <3>1. \A id \in Accepted' : Msg("ack", id, 0) \in In(box'["core"]) =>
            Carried[source'[id]] > 0
      <4> SUFFICES ASSUME NEW id \in Accepted', Msg("ack", id, 0) \in In(box'["core"])
                   PROVE  Carried[source'[id]] > 0
        OBVIOUS
      <4>1. Msg("ack", id, 0) \in In(box["core"])
        BY <1>2, <2>6
      <4>2. PICK i \in Accepted : Msg("ack", id, 0) = Msg("ack", i, 0)
        BY <4>1, Messages DEF IInv, Contents, EventOf
      <4>3. id \in Accepted
        BY <4>2, Messages
      <4> QED BY <2>2, <4>1, <4>3 DEF IInv, Relied
    <3>2. act'.pc = "acking" => Carried'[source'[act'.id]] > 0
      BY <1>1, <2>2 DEF IInv, Acting, Relied
    <3>3. /\ \A m \in In(box'["event"]) : m.type = "acked" => Carried'[m.of] > 0
          /\ \A k \in Raises : "acked" \in In(heard'[k]) => Carried'[k] > 0
      BY <1>1, <1>6, <2>6 DEF IInv, Relied, Same
    <3> QED BY <1>1, <3>1, <3>2, <3>3 DEF Relied
  <2> QED BY <2>4, <2>6, <2>9, <2>10, <2>12, <2>13, <2>15, <2>16 DEF IInv
<1>7. CASE UNCHANGED engine /\ Reply("abort", 0, msg.of, left)
  <2>1. UNCHANGED <<accepted, sends, outcome, source>> /\ Reply("abort", 0, n, left)
    BY <1>4, <1>7 DEF engine
  <2> HIDE DEF left
  <2>2. /\ Boxes' /\ box'["core"] = left
        /\ Acting' /\ Contents' /\ Done' /\ Relied'
        /\ Accepted' = Accepted /\ (\A k : Taken(k)' <=> Taken(k))
        /\ \A k \in Raises : Replies(k)' = Replies(k) + (IF k = n THEN 1 ELSE 0)
    BY <1>1, <1>2, <2>1, ReplySound
  <2>3. Shrunk("core", msg)
    BY <1>1, <2>2, CoreReads DEF left
  <2>4. Once' /\ \A k \in Raises : EventOf(k) \in In(box'["core"]) =>
                   EventOf(k) \in In(box["core"]) /\ EventOf(k) # msg
    BY <1>1, <2>1, <2>2, <2>3, CoreShrinks
  <2>5. Engine'
    BY <1>1, <2>1, <2>2 DEF IInv, Engine
  <2>6. Replied'
    <3> SUFFICES ASSUME NEW k \in Raises
                 PROVE  /\ Replies(k)' <= 1
                        /\ (~Taken(k) /\ (k > raised \/ EventOf(k) \in In(box'["core"]))
                              => Replies(k)' = 0)
                        /\ \A id \in Accepted : source[id] = k =>
                             Replies(k)' = IF outcome[id] = "pending" THEN 0 ELSE 1
      BY <1>1, <2>1, <2>2 DEF Replied, EventOf
    <3>1. CASE k = n
      <4>1. ~(k > raised)
        BY <3>1 DEF IInv, Engine
      <4>2. \A id \in Accepted : source[id] # k
        BY <1>5, <3>1 DEF Taken
      <4> QED BY <1>3, <1>5, <2>2, <2>4, <3>1, <4>1, <4>2
    <3>2. CASE k # n
      <4>1. Replies(k) \in Nat
        <5>1. Len(heard[k]) \in Nat
          BY LenProperties DEF IInv, Acting
        <5>2. Hits(box["event"], Of(k)) \in Nat
          BY BoxTypes, Constants DEF IInv
        <5> QED BY <5>1, <5>2 DEF Replies
      <4>2. Replies(k)' = Replies(k)
        BY <2>2, <3>2, <4>1
      <4> QED BY <2>4, <4>2 DEF IInv, Replied
    <3> QED BY <3>1, <3>2
  <2> QED BY <2>2, <2>4, <2>5, <2>6 DEF IInv
<1>8. CASE UNCHANGED <<engine, heard>> /\ box' = [box EXCEPT !["core"] = left]
  BY <1>1, <1>8, ReadInVain DEF engine
<1> QED BY <1>6, <1>7, <1>8 DEF ReadEvent

LEMMA ReadGood == IInv /\ ReadMessage => IInv'
<1> SUFFICES ASSUME IInv, ReadMessage PROVE IInv'
  OBVIOUS
<1> DEFINE msg == Head(box["core"])
<1>1. \/ msg.type = "event" /\ ReadEvent(msg)
      \/ msg.type = "ack" /\ ReadAck(msg)
      \/ /\ box' = [box EXCEPT !["core"] = Tail(box["core"])]
         /\ UNCHANGED <<engine, heard>>
  BY DEF ReadMessage
<1>2. box["core"] # <<>> /\ UNCHANGED <<messageQueues_, raised, act, token_file, performed, Carried>>
  BY CarriedSame DEF ReadMessage, world
<1> HIDE DEF msg
<1>3. CASE msg.type = "event" /\ ReadEvent(msg)
  BY <1>3, ReadEventGood DEF msg
<1>4. CASE msg.type = "ack" /\ ReadAck(msg)
  BY <1>4, ReadAckGood DEF msg
<1>5. CASE /\ box' = [box EXCEPT !["core"] = Tail(box["core"])]
           /\ UNCHANGED <<engine, heard>>
  BY <1>2, <1>5, ReadInVain DEF engine
<1> QED BY <1>1, <1>3, <1>4, <1>5

LEMMA NextGood == IInv /\ [DeliveryNext]_dvars => IInv'
<1> SUFFICES ASSUME IInv, [DeliveryNext]_dvars PROVE IInv'
  OBVIOUS
<1>1. CASE UNCHANGED dvars
  <2>1. UNCHANGED <<box, messageQueues_, accepted, sends, outcome, source, raised, act,
                    token_file, performed, Carried, heard>>
    BY <1>1, CarriedSame DEF dvars, queues, vars
  <2>2. act' \in Acts /\ token_file' \in Tokens
    BY <2>1 DEF IInv, Acting, Acts
  <2> QED BY <2>1, <2>2, ActMoves DEF Acts
<1>2. CASE RaiseEvent
  BY <1>2, RaiseGood
<1>3. CASE HearReply
  BY <1>3, HearGood
<1>4. CASE OtherMessage
  BY <1>4, OtherGood
<1>5. CASE ReadMessage
  BY <1>5, ReadGood
<1>6. CASE \E id \in Accepted : AckTimeout(id)
  BY <1>6, TimeoutGood
<1>7. CASE \E m \in ModuleQueues : Bury(m)
  BY <1>7, BuryGood
<1>8. CASE StartModule
  BY <1>8, StartGood
<1>9. CASE ReceiveAction
  BY <1>9, ReceiveGood
<1>10. CASE TakeAction
  BY <1>10, TakeGood
<1>11. CASE AcknowledgeEvent
  BY <1>11, AcknowledgeGood
<1>12. CASE ProcessEnds
  BY <1>12, EndsGood
<1> QED BY <1>1, <1>2, <1>3, <1>4, <1>5, <1>6, <1>7, <1>8, <1>9, <1>10, <1>11, <1>12
    DEF DeliveryNext, ModuleStep

-------------------------------------------------------------------------------
(* The properties *)

LEMMA Invariance == DeliverySpec => []IInv
BY InitGood, NextGood, PTL DEF DeliverySpec

\* What waits in a queue and is in X, as the properties count it.
LEMMA Counted ==
  ASSUME Boxes, NEW q \in Queues
  PROVE  /\ \A n : {i \in 1 .. Len(box[q]) : box[q][i].of = n} =
                     {i \in 1 .. Len(box[q]) : box[q][i] \in Of(n)}
         /\ \A id : {i \in 1 .. Len(box[q]) : box[q][i].id = id} =
                      {i \in 1 .. Len(box[q]) : box[q][i] \in For(id)}
<1>1. \A i \in 1 .. Len(box[q]) : box[q][i] \in Msgs
  <2>1. box[q] \in Seq(Msgs)
    BY DEF Boxes
  <2> QED BY <2>1
<1> QED BY <1>1 DEF Of, For

\* A queue never holds more messages than it was made for, nor one that its reader
\* could not have been sent (messenger.cpp, messagehandler.cpp).
THEOREM TypeCorrect == DeliverySpec => []DeliveryTypeOK
<1>1. IInv => DeliveryTypeOK
  <2> SUFFICES ASSUME IInv PROVE DeliveryTypeOK
    OBVIOUS
  <2>1. \A q \in Queues : Len(box[q]) <= DEFAULT_QUEUE_SIZE
    BY DEF IInv, Boxes
  <2>2. \A q : \A i \in 1 .. Len(box[q]) : box[q][i] \in In(box[q])
    BY DEF In
  <2>3. /\ \A i \in 1 .. Len(box["core"]) : box["core"][i] \in
             {Other} \cup {Msg("event", 0, n) : n \in 1 .. raised}
                     \cup {Msg("ack", id, 0) : id \in Accepted}
        /\ \A i \in 1 .. Len(box["action"]) : \E id \in Accepted :
             box["action"][i] = Msg("action", id, source[id])
        /\ \A i \in 1 .. Len(box["event"]) : \E id \in Accepted \cup {0}, n \in 1 .. raised :
             box["event"][i] \in {Msg("acked", id, n), Msg("abort", id, n)}
    BY <2>2 DEF IInv, Contents, EventOf
  <2>4. /\ act.pc \in {"down", "idle", "taking", "acking"}
        /\ act.pc \in {"taking", "acking"} => act.id \in Accepted
        /\ {act.token_, token_file} \subseteq Tokens
    BY DEF IInv, Acting, Pcs
  <2> QED BY <2>1, <2>3, <2>4 DEF DeliveryTypeOK, IInv, Engine
<1> QED BY <1>1, Invariance, PTL

LEMMA AckedIsCarried == ASSUME IInv, NEW n \in Raises, AckedTo(n) PROVE Carried[n] > 0
<1>1. CASE \E i \in 1 .. Len(heard[n]) : heard[n][i] = "acked"
  <2>1. "acked" \in In(heard[n])
    BY <1>1 DEF In
  <2> QED BY <2>1 DEF IInv, Relied
<1>2. CASE Waiting("event", LAMBDA m : m.of = n /\ m.type = "acked") > 0
  <2> DEFINE W == {i \in 1 .. Len(box["event"]) :
                     box["event"][i].of = n /\ box["event"][i].type = "acked"}
  <2>1. Cardinality(W) > 0
    BY <1>2 DEF Waiting
  <2>2. W # {}
    <3> HIDE DEF W
    <3> QED BY <2>1, FS_EmptySet
  <2>3. PICK i \in 1 .. Len(box["event"]) :
          box["event"][i].of = n /\ box["event"][i].type = "acked"
    BY <2>2
  <2>4. box["event"][i] \in In(box["event"])
    BY DEF In
  <2> QED BY <2>3, <2>4 DEF IInv, Relied
<1> QED BY <1>1, <1>2 DEF AckedTo

\* For an event that is acknowledged, an action module has carried an action out
\* (mail_module.cpp:71-73, firebase_module.cpp:150-156), however often processes die
\* and queues overflow: the event's own action, or, where rules.conf was changed
\* after the core had read it, that of the rule which has taken the id.
THEOREM AcksAreHonest == DeliverySpec => []AckMeansDone
<1>1. IInv => AckMeansDone
  <2> SUFFICES ASSUME IInv, NEW n \in Raises, AckedTo(n)
               PROVE  performed[n]["same"] > 0 \/ performed[n]["other"] > 0
    BY DEF AckMeansDone
  <2>1. Carried[n] > 0
    BY AckedIsCarried
  <2> QED BY <2>1, CarriedSum DEF IInv, Acting
<1> QED BY <1>1, Invariance, PTL

\* As long as no process of the action module is started with a rules.conf in which
\* another rule has taken the id (mail_module.cpp:113-120 compares only the key), the
\* action of every acknowledged event was its own.
THEOREM AcksAreOfTheirOwn ==
  DeliverySpec /\ [](act.rules_ # "other") => []OwnActionDone
<1> DEFINE Own == \A n \in Raises : performed[n]["other"] = 0
<1>1. DeliveryInit => Own
  <2> SUFFICES ASSUME DeliveryInit, NEW n \in Raises PROVE performed[n]["other"] = 0
    OBVIOUS
  <2>1. performed[n] = [rule \in {"same", "other"} |-> 0]
    BY DEF DeliveryInit
  <2> QED BY <2>1
<1>2. IInv /\ Own /\ act.rules_ # "other" /\ [DeliveryNext]_dvars => Own'
  <2> SUFFICES ASSUME IInv, Own, act.rules_ # "other", [DeliveryNext]_dvars PROVE Own'
    OBVIOUS
  <2>1. CASE performed' = performed
    BY <2>1
  <2>2. CASE TakeAction
    <3>1. Perform \/ performed' = performed
      BY <2>2 DEF TakeAction, Mail, SMS, Firebase
    <3>2. CASE Perform
      <4>1. performed \in [Raises -> Counts]
        BY DEF IInv, Acting
      <4>2. \A n \in Raises : performed[n] \in Counts
        BY <4>1
      <4>3. \A c \in Counts : \A k : [c EXCEPT ![act.rules_] = k]["other"] = c["other"]
        BY DEF Counts
      <4>4. performed' = [performed EXCEPT ![source[act.id]] =
                            [performed[source[act.id]] EXCEPT ![act.rules_] =
                               performed[source[act.id]][act.rules_] + 1]]
        BY <3>2 DEF Perform
      <4> QED BY <4>1, <4>2, <4>3, <4>4
    <3> QED BY <2>1, <3>1, <3>2
  <2>3. performed' = performed \/ TakeAction
    BY DEF DeliveryNext, ModuleStep, dvars, world, RaiseEvent, HearReply, OtherMessage,
           ReadMessage, AckTimeout, Bury, StartModule, ReceiveAction, AcknowledgeEvent,
           ProcessEnds
  <2> QED BY <2>1, <2>2, <2>3
<1>3. IInv /\ Own => OwnActionDone
  <2> SUFFICES ASSUME IInv, Own, NEW n \in Raises, AckedTo(n)
               PROVE  performed[n]["same"] > 0
    BY DEF OwnActionDone
  <2>1. Carried[n] > 0 /\ performed[n]["other"] = 0
    BY AckedIsCarried
  <2> QED BY <2>1, CarriedSum DEF IInv, Acting
<1> QED BY <1>1, <1>2, <1>3, Invariance, PTL DEF DeliverySpec

\* An action is carried out at most as often as the core has sent it
\* (ruleengine.cpp:takeAction), although the queue outlives the processes that read it.
THEOREM NoExtraCopies == DeliverySpec => []DoneAtMostSent
<1>1. IInv => DoneAtMostSent
  <2> SUFFICES ASSUME IInv, NEW id \in Accepted
               PROVE  Carried[source[id]] + Waiting("action", LAMBDA m : m.id = id)
                        + InHand(id) <= sends[id]
    BY DEF DoneAtMostSent, InHand
  <2>1. Waiting("action", LAMBDA m : m.id = id) = Hits(box["action"], For(id))
    BY Counted, Constants DEF IInv, Waiting, Hits
  <2> QED BY <2>1 DEF IInv, Done
<1> QED BY <1>1, Invariance, PTL

\* Every event the engine is done with has one reply, sent, heard or lost, and no
\* other event has one (ruleengine.cpp:acceptAck and ackThreadFunction).
THEOREM RepliesAreUnique == DeliverySpec => []OneReplyEach
<1>1. IInv => OneReplyEach
  <2> SUFFICES ASSUME IInv PROVE OneReplyEach
    OBVIOUS
  <2>1. \A n : Waiting("event", LAMBDA m : m.of = n) + Len(heard[n]) = Replies(n)
    BY Counted, Constants DEF IInv, Waiting, Hits, Replies
  <2>2. \A n \in Raises : Replies(n) <= 1
    BY DEF IInv, Replied
  <2>3. \A id \in Accepted :
          Replies(source[id]) = IF outcome[id] = "pending" THEN 0 ELSE 1
    BY Events DEF IInv, Replied
  <2> QED BY <2>1, <2>2, <2>3 DEF OneReplyEach
<1> QED BY <1>1, Invariance, PTL
===============================================================================
