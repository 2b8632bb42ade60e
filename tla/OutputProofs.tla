------------------------------ MODULE OutputProofs ------------------------------
(***************************************************************************)
(* Proofs about the output of the video module, for any routes and rules,  *)
(* any sizes of the buffers and any length of the stream.  The invariant   *)
(* says where in the stream each buffer ends: buf2_, buf_ and buf3_ follow *)
(* on each other and the last of them that holds anything ends with the    *)
(* last frame the handler was given.                                       *)
(*                                                                         *)
(* A second invariant is about the files, for rules whose videos are made  *)
(* by one route and whose images are made by one: the counter of a file is *)
(* the number of rules whose event with it is still to be raised, waits    *)
(* for its reply or got lost, and one more while the reply is on its way.  *)
(***************************************************************************)
EXTENDS OutputHandler, SequenceTheorems, FiniteSetTheorems, TLAPS

Run == Seq(Int)

\* The frames of s are the last ones up to frame k.
EndsAt(s, k) ==
  /\ s \in Run
  /\ \A i \in 1 .. Len(s) : s[i] = k - Len(s) + i

Buffers ==
  [buf_ : Run, buf2_ : Run, buf3_ : Run, pre_ : BOOLEAN, post_ : BOOLEAN]

\* Buffers of a handler that was given frame k last.
Good(b, k) ==
  /\ b \in Buffers
  /\ EndsAt(b.buf3_, k)
  /\ EndsAt(b.buf_, k - Len(b.buf3_))
  /\ EndsAt(b.buf2_, k - Len(b.buf3_) - Len(b.buf_))
  /\ Len(b.buf3_) + Len(b.buf_) + Len(b.buf2_) <= k
  /\ Len(b.buf_) <= SIZE /\ Len(b.buf2_) <= PRE /\ Len(b.buf3_) <= POST
  /\ ~(b.pre_ /\ b.post_)
  /\ b.pre_ => b.buf_ = <<>>
  /\ ~b.post_ => b.buf3_ = <<>>

LEMMA Constants ==
  /\ SIZE \in Nat \ {0} /\ PRE \in Nat \ {0} /\ POST \in Nat \ {0}
  /\ MIN_FRAMES \in Nat /\ MIN_MOTION \in Nat \ {0}
  /\ MaxFrames \in Nat
  /\ \A h \in Handlers : map_[h] \subseteq Rules
  BY HandlerAssumption, BufferAssumption

-------------------------------------------------------------------------------
(* Runs of frames *)

LEMMA NothingEnds == ASSUME NEW k \in Int PROVE EndsAt(<<>>, k) /\ Len(<<>>) = 0
  BY EmptySeq DEF EndsAt, Run

LEMMA OneEnds == ASSUME NEW n \in Int PROVE EndsAt(<<n>>, n) /\ Len(<<n>>) = 1
  BY DEF EndsAt, Run

LEMMA AppendEnds ==
  ASSUME NEW k \in Int, NEW s, EndsAt(s, k)
  PROVE  EndsAt(Append(s, k + 1), k + 1) /\ Len(Append(s, k + 1)) = Len(s) + 1
<1>1. s \in Seq(Int) /\ k + 1 \in Int /\ Len(s) \in Nat
  BY LenProperties DEF EndsAt, Run
<1>2. /\ Append(s, k + 1) \in Seq(Int)
      /\ Len(Append(s, k + 1)) = Len(s) + 1
      /\ \A i \in 1 .. Len(s) : Append(s, k + 1)[i] = s[i]
      /\ Append(s, k + 1)[Len(s) + 1] = k + 1
  BY <1>1, AppendProperties
<1> QED BY <1>1, <1>2 DEF EndsAt, Run

LEMMA TailEnds ==
  ASSUME NEW k \in Int, NEW s, EndsAt(s, k), Len(s) > 0
  PROVE  EndsAt(Tail(s), k) /\ Len(Tail(s)) = Len(s) - 1
<1>1. s \in Seq(Int) /\ s # <<>> /\ Len(s) \in Nat
  BY LenProperties, EmptySeq DEF EndsAt, Run
<1>2. /\ Tail(s) \in Seq(Int)
      /\ Len(Tail(s)) = Len(s) - 1
      /\ \A i \in 1 .. Len(Tail(s)) : Tail(s)[i] = s[i + 1]
  BY <1>1, HeadTailProperties
<1> QED BY <1>1, <1>2 DEF EndsAt, Run

LEMMA ConcatEnds ==
  ASSUME NEW k \in Int, NEW s, NEW t, EndsAt(t, k), EndsAt(s, k - Len(t))
  PROVE  EndsAt(s \o t, k) /\ Len(s \o t) = Len(s) + Len(t)
<1>1. s \in Seq(Int) /\ t \in Seq(Int) /\ Len(s) \in Nat /\ Len(t) \in Nat
  BY LenProperties DEF EndsAt, Run
<1>2. /\ s \o t \in Seq(Int)
      /\ Len(s \o t) = Len(s) + Len(t)
      /\ \A i \in 1 .. Len(s) + Len(t) :
           (s \o t)[i] = IF i <= Len(s) THEN s[i] ELSE t[i - Len(s)]
  BY <1>1, ConcatProperties
<1> QED BY <1>1, <1>2 DEF EndsAt, Run

\* A circular buffer drops its oldest frame: what is left still ends where it did.
LEMMA PushEnds ==
  ASSUME NEW k \in Int, NEW s, EndsAt(s, k), NEW size \in Nat \ {0}, Len(s) <= size
  PROVE  /\ EndsAt(Push(s, k + 1, size), k + 1)
         /\ Len(Push(s, k + 1, size)) \in Nat
         /\ Len(Push(s, k + 1, size)) <= size
         /\ Len(Push(s, k + 1, size)) <= Len(s) + 1
<1>1. Len(s) \in Nat
  BY LenProperties DEF EndsAt, Run
<1>2. CASE Len(s) < size
  BY <1>1, <1>2, AppendEnds DEF Push
<1>3. CASE ~(Len(s) < size)
  <2>1. EndsAt(Tail(s), k) /\ Len(Tail(s)) = Len(s) - 1
    BY <1>1, <1>3, TailEnds
  <2> QED BY <1>1, <1>3, <2>1, AppendEnds DEF Push
<1> QED BY <1>2, <1>3

-------------------------------------------------------------------------------
(* The buffers of a handler *)

LEMMA EmptyGood == ASSUME NEW k \in Nat PROVE Good(NoBuffers, k)
<1>1. k - Len(<<>>) \in Int /\ k - Len(<<>>) - Len(<<>>) \in Int
  BY EmptySeq
<1> QED BY <1>1, NothingEnds, EmptySeq, Constants DEF Good, NoBuffers, Buffers, Run

\* Good, with names for the lengths: arithmetic is easier without Len.
LEMMA MakeGood ==
  ASSUME NEW k \in Nat, NEW b \in Buffers, NEW n \in Nat, NEW n2 \in Nat, NEW n3 \in Nat,
         Len(b.buf_) = n, Len(b.buf2_) = n2, Len(b.buf3_) = n3,
         EndsAt(b.buf3_, k), EndsAt(b.buf_, k - n3), EndsAt(b.buf2_, k - n3 - n),
         n3 + n + n2 <= k, n <= SIZE, n2 <= PRE, n3 <= POST,
         ~(b.pre_ /\ b.post_), b.pre_ => b.buf_ = <<>>, ~b.post_ => b.buf3_ = <<>>
  PROVE  Good(b, k)
  BY DEF Good

\* Buffers that hold the frame just given and nothing else.
LEMMA FreshGood ==
  ASSUME NEW k \in Nat, NEW b \in Buffers,
         b.buf_ = <<k + 1>>, b.buf2_ = <<>>, b.buf3_ = <<>>, b.pre_ = FALSE
  PROVE  Good(b, k + 1)
<1>1. /\ EndsAt(<<k + 1>>, k + 1) /\ Len(<<k + 1>>) = 1 /\ Len(<<>>) = 0
      /\ EndsAt(<<>>, k + 1) /\ EndsAt(<<>>, k + 1 - 0 - 1) /\ k + 1 - 0 = k + 1
  BY NothingEnds, OneEnds
<1> QED BY <1>1, Constants DEF Good

\* out(): whichever buffer the next frame goes to, the frames stay in a row.
LEMMA NextGoodBuffers ==
  ASSUME NEW k \in Nat, NEW b, Good(b, k), NEW motion \in BOOLEAN
  PROVE  Good(NextBuffers(b, motion, k + 1), k + 1)
<1> DEFINE n  == Len(b.buf_)
           n2 == Len(b.buf2_)
           n3 == Len(b.buf3_)
<1>1. /\ b \in Buffers
      /\ n \in Nat /\ n2 \in Nat /\ n3 \in Nat
  BY LenProperties DEF Good, Buffers, Run
<1>2. k + 1 \in Nat /\ k + 1 \in Int /\ <<k + 1>> \in Run /\ <<>> \in Run /\ Len(<<>>) = 0
  BY EmptySeq DEF Run
<1>3. /\ EndsAt(b.buf3_, k) /\ EndsAt(b.buf_, k - n3) /\ EndsAt(b.buf2_, k - n3 - n)
      /\ n3 + n + n2 <= k /\ n <= SIZE /\ n2 <= PRE /\ n3 <= POST
      /\ b.pre_ => ~b.post_ /\ b.buf_ = <<>> /\ n = 0
      /\ ~b.post_ => b.buf3_ = <<>> /\ n3 = 0
  BY <1>2 DEF Good
<1>4. CASE motion /\ b.post_
  <2>1. Resumed(b, k + 1) \in Buffers
    BY <1>2 DEF Resumed, Buffers
  <2> QED BY <1>4, <2>1, FreshGood DEF NextBuffers, Resumed
<1>5. CASE motion /\ ~b.post_ /\ n = SIZE
  <2> DEFINE x == [b EXCEPT !.pre_ = FALSE, !.buf_ = <<k + 1>>, !.buf2_ = <<>>]
  <2>1. /\ x \in Buffers /\ x.buf_ = <<k + 1>> /\ x.buf2_ = <<>> /\ x.buf3_ = b.buf3_
        /\ x.pre_ = FALSE
    BY <1>1, <1>2 DEF Buffers
  <2>2. NextBuffers(b, motion, k + 1) = x
    BY <1>5 DEF NextBuffers, Moving
  <2> HIDE DEF x
  <2> QED BY <1>3, <1>5, <2>1, <2>2, FreshGood
<1>6. CASE motion /\ ~b.post_ /\ n # SIZE
  <2> DEFINE s == Append(b.buf_, k + 1)
             x == [b EXCEPT !.pre_ = FALSE, !.buf_ = s]
  <2>1. NextBuffers(b, motion, k + 1) = x
    BY <1>6 DEF NextBuffers, Moving
  <2>2. n3 = 0 /\ k - n3 = k /\ b.buf3_ = <<>>
    BY <1>3, <1>6
  <2>3. EndsAt(s, k + 1) /\ Len(s) = n + 1
    BY <1>3, <2>2, AppendEnds
  <2>4. s \in Run
    BY <2>3 DEF EndsAt
  <2> HIDE DEF s
  <2>5. /\ x \in Buffers /\ x.buf_ = s /\ x.buf2_ = b.buf2_ /\ x.buf3_ = <<>>
        /\ x.pre_ = FALSE
    BY <1>1, <2>2, <2>4 DEF Buffers
  <2> HIDE DEF x
  <2>6. Len(x.buf_) = n + 1 /\ Len(x.buf2_) = n2 /\ Len(x.buf3_) = 0
    <3>1. x.buf_ = s /\ x.buf2_ = b.buf2_ /\ x.buf3_ = <<>>
      BY <2>5
    <3>2. Len(s) = n + 1
      BY <2>3
    <3> QED BY <1>2, <3>1, <3>2
  <2> HIDE DEF n, n2, n3
  <2>7. /\ k + 1 - 0 = k + 1 /\ k + 1 - 0 - (n + 1) = k - n3 - n
        /\ n + 1 \in Nat /\ 0 + (n + 1) + n2 <= k + 1 /\ n + 1 <= SIZE /\ 0 <= POST
    BY <1>1, <1>3, <1>6, <2>2, Constants
  <2>8. EndsAt(x.buf3_, k + 1)
    BY <1>2, <2>5, NothingEnds
  <2>9. EndsAt(x.buf_, k + 1 - 0) /\ EndsAt(x.buf2_, k + 1 - 0 - (n + 1))
    BY <1>3, <2>3, <2>5, <2>7
  <2> QED BY <1>1, <1>2, <1>3, <2>1, <2>5, <2>6, <2>7, <2>8, <2>9, MakeGood
<1>7. CASE ~motion /\ b.pre_
  <2> DEFINE s == Push(b.buf2_, k + 1, PRE)
             x == [b EXCEPT !.buf2_ = s]
             m == Len(s)
  <2>1. NextBuffers(b, motion, k + 1) = x
    BY <1>7 DEF NextBuffers, Still
  <2>2. n3 = 0 /\ n = 0 /\ b.buf3_ = <<>> /\ b.buf_ = <<>> /\ ~b.post_
    BY <1>3, <1>7
  <2>3. EndsAt(b.buf2_, k)
    <3>1. k - n3 - n = k
      BY <2>2
    <3> QED BY <1>3, <3>1
  <2>4. EndsAt(s, k + 1) /\ m \in Nat /\ m <= PRE /\ m <= n2 + 1
    <3>1. k \in Int /\ PRE \in Nat \ {0} /\ Len(b.buf2_) <= PRE
      BY <1>3, Constants
    <3> QED BY <2>3, <3>1, PushEnds
  <2>5. s \in Run
    BY <2>4 DEF EndsAt
  <2> HIDE DEF s
  <2>6. /\ x \in Buffers /\ x.buf_ = <<>> /\ x.buf2_ = s /\ x.buf3_ = <<>>
        /\ ~x.post_
    BY <1>1, <2>2, <2>5 DEF Buffers
  <2>7. Len(x.buf_) = 0 /\ Len(x.buf2_) = m /\ Len(x.buf3_) = 0
    BY <1>2, <2>6
  <2> HIDE DEF x, m, n, n2, n3
  <2>8. /\ k + 1 - 0 = k + 1 /\ k + 1 - 0 - 0 = k + 1
        /\ 0 + 0 + m <= k + 1 /\ 0 <= SIZE /\ 0 <= POST
    BY <1>1, <1>3, <2>2, <2>4, Constants
  <2>9. EndsAt(x.buf3_, k + 1) /\ EndsAt(x.buf_, k + 1 - 0) /\ EndsAt(x.buf2_, k + 1 - 0 - 0)
    BY <1>2, <2>4, <2>6, <2>8, NothingEnds
  <2> QED BY <1>2, <2>1, <2>4, <2>6, <2>7, <2>8, <2>9, MakeGood
<1>8. CASE ~motion /\ ~b.pre_ /\ n3 < POST
  <2> DEFINE s == Append(b.buf3_, k + 1)
             x == [b EXCEPT !.post_ = TRUE, !.buf3_ = s]
  <2>1. NextBuffers(b, motion, k + 1) = x
    BY <1>8 DEF NextBuffers, Still
  <2>2. EndsAt(s, k + 1) /\ Len(s) = n3 + 1
    BY <1>3, AppendEnds
  <2>3. s \in Run
    BY <2>2 DEF EndsAt
  <2> HIDE DEF s
  <2>4. /\ x \in Buffers /\ x.buf_ = b.buf_ /\ x.buf2_ = b.buf2_ /\ x.buf3_ = s
        /\ ~x.pre_ /\ x.post_
    BY <1>1, <1>8, <2>3 DEF Buffers
  <2>5. Len(x.buf_) = n /\ Len(x.buf2_) = n2 /\ Len(x.buf3_) = n3 + 1
    BY <2>2, <2>4
  <2> HIDE DEF x, n, n2, n3
  <2>6. /\ k + 1 - (n3 + 1) = k - n3 /\ k + 1 - (n3 + 1) - n = k - n3 - n
        /\ n3 + 1 \in Nat /\ (n3 + 1) + n + n2 <= k + 1 /\ n3 + 1 <= POST
    BY <1>1, <1>3, <1>8, Constants
  <2>7. /\ EndsAt(x.buf3_, k + 1) /\ EndsAt(x.buf_, k + 1 - (n3 + 1))
        /\ EndsAt(x.buf2_, k + 1 - (n3 + 1) - n)
    BY <1>3, <2>2, <2>4, <2>6
  <2> QED BY <1>1, <1>2, <1>3, <2>1, <2>4, <2>5, <2>6, <2>7, MakeGood
<1>9. CASE ~motion /\ ~b.pre_ /\ ~(n3 < POST)
  <2>1. NextBuffers(b, motion, k + 1) = NoBuffers
    BY <1>9 DEF NextBuffers, Still
  <2> QED BY <1>2, <2>1, EmptyGood
<1> QED BY <1>4, <1>5, <1>6, <1>7, <1>8, <1>9

\* What would be written is a run of frames, and starts with one of the stream.
LEMMA VideoRun ==
  ASSUME NEW k \in Nat, NEW b, Good(b, k)
  PROVE  /\ EndsAt(Video(b), k)
         /\ Len(b.buf_) \in Nat
         /\ Len(b.buf_) > 0 => b.buf_[1] \in 1 .. k
<1> DEFINE n  == Len(b.buf_)
           n2 == Len(b.buf2_)
           n3 == Len(b.buf3_)
<1>1. n \in Nat /\ n2 \in Nat /\ n3 \in Nat
  BY LenProperties DEF Good, Buffers, Run
<1>2. /\ EndsAt(b.buf3_, k) /\ EndsAt(b.buf_, k - n3) /\ EndsAt(b.buf2_, k - n3 - n)
      /\ n3 + n + n2 <= k
  BY DEF Good
<1>3. k \in Int /\ k - n3 \in Int
  <2> HIDE DEF n3
  <2> QED BY <1>1
<1>4. EndsAt(b.buf2_ \o b.buf_, k - n3)
  BY <1>2, <1>3, ConcatEnds
<1>5. EndsAt((b.buf2_ \o b.buf_) \o b.buf3_, k)
  BY <1>2, <1>3, <1>4, ConcatEnds
<1>6. ASSUME n > 0 PROVE b.buf_[1] \in 1 .. k
  <2>1. \A i \in 1 .. n : b.buf_[i] = k - n3 - n + i
    BY <1>2 DEF EndsAt
  <2> HIDE DEF n, n2, n3
  <2>2. 1 \in 1 .. n /\ k - n3 - n + 1 \in 1 .. k
    BY <1>1, <1>2, <1>6
  <2> QED BY <2>1, <2>2
<1> QED BY <1>1, <1>5, <1>6 DEF Video

-------------------------------------------------------------------------------
(* The handlers in the stream *)

\* The frame handler h was given last.
Given(h) == IF h \in turn THEN frame - 1 ELSE frame

WriterState ==
  [name : Names, h : Handlers, todo : SUBSET Rules, written : BOOLEAN]

Stream ==
  /\ frame \in 0 .. MaxFrames
  /\ turn \subseteq Handlers
  /\ turn # {} => frame > 0
  /\ \A h \in Handlers : Good(buffers[h], Given(h))
  /\ \A h \in Handlers : Wanting(h, "video") = {} => buffers[h] = NoBuffers

\* Whatever names a file is a name.
Named ==
  /\ writers \subseteq WriterState
  /\ files \subseteq Names /\ unsaved \subseteq Names
  /\ raised \subseteq Rules \X Names
  /\ lost \subseteq Rules \X Names
  /\ reply.todo \subseteq Handlers
  /\ reply.todo # {} => reply.name \in Names
  /\ \A h \in Handlers : DOMAIN pendingAttachments_[h] \subseteq Names

\* Both are functions on the handlers.
Shapes ==
  /\ buffers = [h \in Handlers |-> buffers[h]]
  /\ pendingAttachments_ = [h \in Handlers |-> pendingAttachments_[h]]
  /\ reply = [name |-> reply.name, todo |-> reply.todo]

IInv == Stream /\ Named /\ Shapes

LEMMA InitGood == Init => IInv
<1> SUFFICES ASSUME Init PROVE IInv
  OBVIOUS
<1>1. Stream
  <2>1. ASSUME NEW h \in Handlers PROVE Good(buffers[h], Given(h))
    BY EmptyGood DEF Init, Given
  <2> QED BY <2>1, Constants DEF Init, Stream
<1>2. Named
  BY DEF Init, Named, NoReply
<1>3. Shapes
  BY DEF Init, Shapes, NoReply
<1> QED BY <1>1, <1>2, <1>3 DEF IInv

LEMMA RetrieveGood == IInv /\ Retrieve => IInv'
<1> SUFFICES ASSUME IInv, Retrieve PROVE IInv'
  OBVIOUS
<1>1. frame \in Nat /\ frame' = frame + 1 /\ frame' \in 0 .. MaxFrames /\ turn = {}
  BY Constants DEF IInv, Stream, Retrieve
<1>2. ASSUME NEW h \in Handlers PROVE Good(buffers'[h], Given(h)')
  <2>1. Given(h) = frame /\ Given(h)' = frame
    BY <1>1 DEF Given, Retrieve
  <2> QED BY <2>1 DEF IInv, Stream, Retrieve
<1>3. Stream'
  BY <1>1, <1>2 DEF IInv, Stream, Retrieve, Wanting
<1>4. Named' /\ Shapes'
  BY DEF IInv, Named, Shapes, Retrieve, outside
<1> QED BY <1>3, <1>4 DEF IInv

\* The files a handler has made are named after a frame of the stream.
LEMMA MadeNames ==
  ASSUME IInv, NEW h \in turn, NEW motion \in BOOLEAN
  PROVE  Made(h, motion) \subseteq Names
<1>1. h \in Handlers /\ frame \in 1 .. MaxFrames /\ frame - 1 \in Nat /\ Given(h) = frame - 1
  BY Constants DEF IInv, Stream, Given
<1> DEFINE b == buffers[h]
<1>2. Good(b, frame - 1)
  BY <1>1 DEF IInv, Stream
<1>3. Len(b.buf_) \in Nat /\ (Len(b.buf_) > 0 => b.buf_[1] \in 1 .. frame - 1)
  BY <1>1, <1>2, VideoRun
<1>4. ASSUME Writes(b, motion) PROVE b.buf_[1] \in 1 .. MaxFrames
  <2>1. Len(b.buf_) > 0
    <3> DEFINE n == Len(b.buf_)
    <3>1. n >= MIN_MOTION \/ n = SIZE
      BY <1>4 DEF Writes, Worth
    <3> HIDE DEF n
    <3> QED BY <3>1, Constants DEF n
  <2> DEFINE first == b.buf_[1]
  <2>2. first \in 1 .. frame - 1
    BY <1>3, <2>1
  <2> HIDE DEF first
  <2>3. first \in 1 .. MaxFrames
    BY <1>1, <2>2, Constants
  <2> QED BY <2>3 DEF first
<1> QED BY <1>1, <1>4 DEF Made, Names

LEMMA OutGood ==
  ASSUME IInv, NEW h \in Handlers, NEW motion \in BOOLEAN, Out(h, motion)
  PROVE  IInv'
<1> DEFINE names == Made(h, motion)
<1>1. h \in turn /\ turn' = turn \ {h} /\ UNCHANGED <<frame, files, unsaved, raised, reply, lost>>
  BY DEF Out, outside
<1>2. names \subseteq Names
  BY <1>1, MadeNames
<1>3. frame \in 1 .. MaxFrames /\ frame - 1 \in Nat /\ (frame - 1) + 1 = frame
  BY <1>1, Constants DEF IInv, Stream
<1>4. ASSUME NEW g \in Handlers PROVE Good(buffers'[g], Given(g)')
  <2>1. CASE g # h
    <3>1. Given(g)' = Given(g)
      BY <1>1, <2>1 DEF Given
    <3>2. buffers'[g] = buffers[g]
      BY <2>1 DEF Out, IInv, Shapes
    <3> QED BY <3>1, <3>2 DEF IInv, Stream
  <2>2. CASE g = h
    <3>1. Good(buffers[h], frame - 1) /\ Given(h)' = frame
      BY <1>1 DEF IInv, Stream, Given
    <3>2. CASE Wanting(h, "video") = {}
      <4>1. buffers'[h] = NoBuffers
        BY <3>2 DEF Out, IInv, Stream
      <4> QED BY <1>3, <2>2, <3>1, <4>1, EmptyGood
    <3>3. CASE Wanting(h, "video") # {}
      <4>1. buffers'[h] = NextBuffers(buffers[h], motion, frame)
        BY <3>3 DEF Out, IInv, Shapes
      <4> QED BY <1>3, <2>2, <3>1, <4>1, NextGoodBuffers
    <3> QED BY <3>2, <3>3
  <2> QED BY <2>1, <2>2
<1>5. \A g \in Handlers : Wanting(g, "video") = {} => buffers'[g] = NoBuffers
  BY DEF Out, IInv, Stream, Shapes
<1>6. Stream'
  <2>1. frame' \in 0 .. MaxFrames /\ turn' \subseteq Handlers /\ frame' > 0
    BY <1>1, <1>3 DEF IInv, Stream
  <2> QED BY <1>4, <1>5, <2>1 DEF Stream, Wanting
<1>7. writers' \subseteq WriterState
  <2>1. ASSUME NEW name \in names PROVE Writer(h, name) \in WriterState
    BY <1>2, <2>1, Constants DEF Writer, WriterState, Wanting
  <2>2. writers' = writers \cup {Writer(h, name) : name \in names}
    BY DEF Out, Fork
  <2> QED BY <2>1, <2>2 DEF IInv, Named
<1>8. /\ pendingAttachments_' = [g \in Handlers |-> pendingAttachments_'[g]]
      /\ \A g \in Handlers : DOMAIN pendingAttachments_'[g] \subseteq Names
  <2> DEFINE p == pendingAttachments_[h]
             D == DOMAIN p \cup {m \in names : Wanting(h, m[1]) # {}}
             q == [n \in D |->
                     Count(p, n) + (IF n \in names THEN Cardinality(Wanting(h, n[1])) ELSE 0)]
  <2>1. pendingAttachments_' = [pendingAttachments_ EXCEPT ![h] = q]
    BY DEF Out, Fork, IInv, Shapes
  <2>2. DOMAIN q \subseteq Names
    BY <1>2 DEF IInv, Named
  <2> HIDE DEF q
  <2> QED BY <2>1, <2>2 DEF IInv, Named, Shapes
<1>9. Named'
  BY <1>1, <1>7, <1>8 DEF IInv, Named
<1>10. Shapes'
  BY <1>1, <1>8 DEF IInv, Shapes, Out
<1> QED BY <1>6, <1>9, <1>10 DEF IInv

\* A step that leaves the frames alone.
LEMMA SameStream ==
  ASSUME Stream, UNCHANGED <<frame, turn, buffers>>
  PROVE  Stream'
  BY DEF Stream, Given, Wanting

LEMMA WriterGood ==
  ASSUME IInv, NEW w \in writers,
         \/ WriteFile(w) \/ WriterFails(w) \/ WriterEnds(w)
         \/ \E r \in w.todo : SendEvent(w, r)
  PROVE  IInv'
<1>1. w \in WriterState
  BY DEF IInv, Named
<1>2. Stream' /\ Shapes'
  BY SameStream DEF IInv, Shapes, WriteFile, WriterFails, WriterEnds, SendEvent, outside
<1>3. CASE WriteFile(w)
  <2>1. [w EXCEPT !.written = TRUE] \in WriterState /\ w.name \in Names
    BY <1>1 DEF WriterState
  <2>2. writers' \subseteq WriterState /\ files' \subseteq Names /\ unsaved' \subseteq Names
    BY <1>3, <2>1 DEF WriteFile, IInv, Named
  <2> QED BY <1>2, <1>3, <2>2 DEF WriteFile, IInv, Named
<1>4. CASE WriterEnds(w)
  BY <1>2, <1>4 DEF WriterEnds, outside, IInv, Named
<1>6. CASE WriterFails(w)
  <2>1. w.todo \subseteq Rules /\ w.name \in Names
    BY <1>1 DEF WriterState
  <2>2. lost' \subseteq Rules \X Names
    BY <1>6, <2>1 DEF WriterFails, IInv, Named
  <2> QED BY <1>2, <1>6, <2>2 DEF WriterFails, IInv, Named
<1>5. ASSUME NEW r \in w.todo, SendEvent(w, r) PROVE IInv'
  <2> DEFINE todo == w.todo \ {r}
  <2>1. todo \subseteq Rules /\ r \in Rules /\ w.name \in Names
    BY <1>1 DEF WriterState
  <2>2. writers' = (writers \ {w}) \cup {[w EXCEPT !.todo = todo]}
    BY <1>1, <1>5 DEF SendEvent, WriterState
  <2> HIDE DEF todo
  <2>3. [w EXCEPT !.todo = todo] \in WriterState
    BY <1>1, <2>1 DEF WriterState
  <2>4. writers' \subseteq WriterState
    BY <2>2, <2>3 DEF IInv, Named
  <2>5. <<r, w.name>> \in Rules \X Names
    BY <2>1
  <2>6. raised' \subseteq Rules \X Names /\ lost' \subseteq Rules \X Names
    BY <1>5, <2>5 DEF SendEvent, IInv, Named
  <2> QED BY <1>2, <1>5, <2>4, <2>6 DEF SendEvent, IInv, Named
<1> QED BY <1>3, <1>4, <1>5, <1>6

LEMMA ReceiveGood == IInv /\ Receive => IInv'
<1> SUFFICES ASSUME IInv, Receive PROVE IInv'
  OBVIOUS
<1>1. PICK e \in raised :
        /\ raised' = raised \ {e}
        /\ \/ reply' = [name |-> e[2], todo |-> Handlers] /\ UNCHANGED lost
           \/ lost' = lost \cup {e} /\ UNCHANGED reply
  BY DEF Receive
<1>2. e \in Rules \X Names /\ e[2] \in Names
  BY DEF IInv, Named
<1>3. /\ raised' \subseteq Rules \X Names /\ lost' \subseteq Rules \X Names
      /\ reply'.todo \subseteq Handlers /\ (reply'.todo # {} => reply'.name \in Names)
      /\ reply' = [name |-> reply'.name, todo |-> reply'.todo]
  BY <1>1, <1>2 DEF IInv, Named, Shapes
<1>4. Stream'
  BY SameStream DEF IInv, Receive
<1>5. Named' /\ Shapes'
  BY <1>3 DEF IInv, Named, Shapes, Receive
<1> QED BY <1>4, <1>5 DEF IInv

LEMMA ForwardGood == ASSUME IInv, NEW h \in reply.todo, Forward(h) PROVE IInv'
<1>1. h \in Handlers /\ reply.name \in Names
  BY DEF IInv, Named
<1> DEFINE p == Counted(pendingAttachments_[h], reply.name, -1)
<1>2. DOMAIN p \subseteq Names
  BY <1>1 DEF Counted, IInv, Named
<1>3. PICK q : DOMAIN q \subseteq Names /\ pendingAttachments_' = [pendingAttachments_ EXCEPT ![h] = q]
  <2>1. CASE p[reply.name] = 0
    <3> DEFINE q == [n \in DOMAIN p \ {reply.name} |-> p[n]]
    <3>1. DOMAIN q \subseteq Names
      BY <1>2
    <3>2. pendingAttachments_' = [pendingAttachments_ EXCEPT ![h] = q]
      BY <2>1 DEF Forward, HandlePending
    <3> HIDE DEF q
    <3> QED BY <3>1, <3>2
  <2>2. CASE p[reply.name] # 0
    <3>1. pendingAttachments_' = [pendingAttachments_ EXCEPT ![h] = p]
      BY <2>2 DEF Forward, HandlePending
    <3> HIDE DEF p
    <3> QED BY <1>2, <3>1
  <2> QED BY <2>1, <2>2
<1>4. files' \subseteq Names
  BY DEF Forward, HandlePending, IInv, Named
<1>5. /\ reply'.todo \subseteq Handlers /\ (reply'.todo # {} => reply'.name \in Names)
      /\ reply' = [name |-> reply'.name, todo |-> reply'.todo]
  BY <1>1 DEF Forward, NoReply, IInv, Named, Shapes
<1>6. /\ pendingAttachments_' = [g \in Handlers |-> pendingAttachments_'[g]]
      /\ \A g \in Handlers : DOMAIN pendingAttachments_'[g] \subseteq Names
  BY <1>1, <1>3 DEF IInv, Named, Shapes
<1>7. Stream'
  BY SameStream DEF IInv, Forward
<1> HIDE DEF p
<1>8. Named'
  <2>1. /\ writers' = writers /\ raised' = raised /\ lost' = lost
        /\ writers \subseteq WriterState
        /\ unsaved' = unsaved /\ unsaved \subseteq Names
        /\ raised \subseteq Rules \X Names /\ lost \subseteq Rules \X Names
    BY DEF IInv, Named, Forward
  <2> QED BY <1>4, <1>5, <1>6, <2>1 DEF Named
<1>9. Shapes'
  <2>1. buffers' = buffers /\ buffers = [g \in Handlers |-> buffers[g]]
    BY DEF IInv, Shapes, Forward
  <2> QED BY <1>5, <1>6, <2>1 DEF Shapes
<1> QED BY <1>7, <1>8, <1>9 DEF IInv

\* The next process starts with empty buffers, wherever the stream is.
LEMMA RestartGood == IInv /\ Restart => IInv'
<1> SUFFICES ASSUME IInv, Restart PROVE IInv'
  OBVIOUS
<1>1. Stream'
  <2>1. frame \in Nat /\ frame' = frame /\ turn' = {}
    BY Constants DEF IInv, Stream, Restart
  <2>2. ASSUME NEW h \in Handlers PROVE Good(buffers'[h], Given(h)') /\ buffers'[h] = NoBuffers
    BY <2>1, EmptyGood DEF Restart, Given
  <2> QED BY <2>1, <2>2 DEF IInv, Stream
<1>2. Named'
  BY DEF IInv, Named, Restart, NoReply
<1>3. Shapes'
  BY DEF Shapes, Restart, NoReply
<1> QED BY <1>1, <1>2, <1>3 DEF IInv

LEMMA NextGood == IInv /\ [Next]_vars => IInv'
<1> SUFFICES ASSUME IInv, [Next]_vars PROVE IInv'
  OBVIOUS
<1>1. CASE UNCHANGED vars
  <2>1. Stream'
    BY <1>1, SameStream DEF IInv, vars
  <2> QED BY <1>1, <2>1 DEF IInv, Named, Shapes, vars
<1>2. ASSUME NEW h \in Handlers, NEW motion \in BOOLEAN, Out(h, motion) PROVE IInv'
  BY <1>2, OutGood
<1>3. ASSUME NEW w \in writers,
             \/ WriteFile(w) \/ WriterFails(w) \/ WriterEnds(w)
             \/ \E r \in w.todo : SendEvent(w, r)
      PROVE  IInv'
  BY <1>3, WriterGood
<1>4. ASSUME NEW h \in reply.todo, Forward(h) PROVE IInv'
  BY <1>4, ForwardGood
<1> QED BY <1>1, <1>2, <1>3, <1>4, RetrieveGood, ReceiveGood, RestartGood DEF Next

LEMMA Always == Spec => []IInv
  BY InitGood, NextGood, PTL DEF Spec

-------------------------------------------------------------------------------
(* The theorems *)

\* The buffers stay within their capacities, and every file and every counter has
\* the name of a frame of the stream.
THEOREM TypeCorrect == Spec => []TypeOK
<1>1. ASSUME IInv PROVE TypeOK
  <2>1. ASSUME NEW h \in Handlers
        PROVE  /\ ~(buffers[h].pre_ /\ buffers[h].post_)
               /\ Len(buffers[h].buf_) <= SIZE
               /\ Len(buffers[h].buf2_) <= PRE
               /\ Len(buffers[h].buf3_) <= POST
    BY <1>1 DEF IInv, Stream, Good
  <2> QED BY <1>1, <2>1 DEF IInv, Stream, Named, TypeOK
<1> QED BY <1>1, Always, PTL

\* However motion starts, stops, resumes and outlasts the buffers, out() puts an
\* unbroken run of frames together.
THEOREM VideosAreUnbroken == Spec => []UnbrokenVideo
<1>1. ASSUME IInv, NEW h \in Handlers,
             NEW i \in 1 .. Len(Video(buffers[h])) - 1
      PROVE  Video(buffers[h])[i + 1] = Video(buffers[h])[i] + 1
  <2> DEFINE v == Video(buffers[h])
             k == Given(h)
             n == Len(v)
  <2>1. k \in Nat /\ Good(buffers[h], k)
    BY <1>1 DEF IInv, Stream, Given
  <2>2. EndsAt(v, k)
    BY <2>1, VideoRun
  <2>3. n \in Nat /\ \A j \in 1 .. n : v[j] = k - n + j
    BY <2>2, LenProperties DEF EndsAt, Run
  <2> HIDE DEF v, k, n
  <2>4. i \in 1 .. n - 1
    BY <1>1 DEF v, n
  <2>5. i \in 1 .. n /\ i + 1 \in 1 .. n /\ k - n + (i + 1) = (k - n + i) + 1
    BY <2>1, <2>3, <2>4
  <2>6. v[i + 1] = v[i] + 1
    BY <2>3, <2>5
  <2> QED BY <2>6 DEF v
<1>2. IInv => UnbrokenVideo
  BY <1>1 DEF UnbrokenVideo
<1> QED BY <1>2, Always, PTL

-------------------------------------------------------------------------------
(* The files: who still counts on them                                     *)

\* No two routes have rules that want attachments of the same kind.
OneRoute ==
  \A h, g \in Handlers, kind \in {"video", "image"} :
    Wanting(h, kind) # {} /\ Wanting(g, kind) # {} => h = g

Owns(h, name) == Wanting(h, name[1]) # {}

\* Rules with an event for the file that is yet to be raised or has no reply.
Due(name) ==
  {r \in Rules : \/ <<r, name>> \in raised \cup lost
                 \/ \E w \in writers : w.name = name /\ r \in w.todo}

\* 1 while the reply for the file has not come to handler h.
Coming(h, name) == IF reply.name = name /\ h \in reply.todo THEN 1 ELSE 0

Counter(h, name) == Count(pendingAttachments_[h], name)

\* A handler counts up for what it forks and down for every reply, also for those to
\* the events of others or of an earlier process: for these it is never above 0.
Counting ==
  \A h \in Handlers, name \in Names :
    /\ Counter(h, name) \in Int
    /\ IF Owns(h, name) /\ name \notin stale
       THEN Counter(h, name) = Cardinality(Due(name)) + Coming(h, name)
       ELSE Counter(h, name) <= 0

\* Nobody has heard of the file.
Fresh(name) ==
  /\ Due(name) = {}
  /\ reply.todo = {} \/ reply.name # name
  /\ name \notin stale

\* So it is with the files that are yet to be made.
Ahead ==
  /\ made \subseteq Names
  /\ \A name \in made : name[2] <= frame
  /\ \A h \in Handlers, name \in Names :
       Owns(h, name) /\ (name[2] > frame \/ (name[2] = frame /\ h \in turn))
         => Fresh(name)
  /\ \A h \in Handlers :
       Wanting(h, "video") # {} /\ Len(buffers[h].buf_) > 0
         => Fresh(<<"video", buffers[h].buf_[1]>>)

\* What one forked process says of another: at most one has an event to raise.
Apart(w, v) == v.name = w.name /\ v.todo \cap w.todo # {} => v = w

WriterGoes(w) ==
  /\ w.name \in made
  /\ w.todo \subseteq Wanting(w.h, w.name[1])
  /\ ~w.written => w.todo = Wanting(w.h, w.name[1])
  /\ w.written /\ w.todo # {} => w.name \in files \cup unsaved
  /\ \A r \in w.todo : <<r, w.name>> \notin raised \cup lost
  /\ w.name[1] = "video" => Wanting(w.h, "video") # {}
  /\ w.name[1] = "image" /\ w.name \notin stale => image_[w.h]

Writing ==
  /\ \A w \in writers : WriterGoes(w)
  /\ \A w, v \in writers : Apart(w, v)

Events ==
  /\ raised \cap lost = {}
  /\ \A e \in raised : e[2] \in files \cup unsaved
  /\ \A e \in raised \cup lost : e[2] \in made
  /\ reply # NoReply => reply.name \in made

\* image_ is set only where a rule wants an image.
Meant == \A h \in Handlers : image_[h] => Wanting(h, "image") # {}

Present ==
  Meant => \A name \in files \cap (made \ stale) :
             \E h \in Handlers : Owns(h, name) /\ Counter(h, name) >= 1

KInv == IInv /\ Counting /\ Ahead /\ Writing /\ Events /\ Present

-------------------------------------------------------------------------------
(* Sets of rules and counters *)

LEMMA DueFinite ==
  ASSUME NEW name
  PROVE  /\ IsFiniteSet(Due(name)) /\ Cardinality(Due(name)) \in Nat
         /\ Cardinality(Due(name)) = 0 <=> Due(name) = {}
<1>1. Due(name) \subseteq Rules /\ IsFiniteSet(Rules)
  BY HandlerAssumption DEF Due
<1>2. IsFiniteSet(Due(name))
  BY <1>1, FS_Subset
<1> QED BY <1>2, FS_CardinalityType, FS_EmptySet

LEMMA WantingFinite ==
  ASSUME NEW h \in Handlers, NEW kind
  PROVE  /\ Wanting(h, kind) \subseteq Rules /\ IsFiniteSet(Wanting(h, kind))
         /\ Cardinality(Wanting(h, kind)) \in Nat
         /\ Cardinality(Wanting(h, kind)) = 0 <=> Wanting(h, kind) = {}
<1>1. Wanting(h, kind) \subseteq Rules /\ IsFiniteSet(Rules)
  BY HandlerAssumption DEF Wanting
<1>2. IsFiniteSet(Wanting(h, kind))
  BY <1>1, FS_Subset
<1> QED BY <1>1, <1>2, FS_CardinalityType, FS_EmptySet

LEMMA CountCounted ==
  ASSUME NEW p, NEW name, NEW d, NEW n
  PROVE  Count(Counted(p, name, d), n) = IF n = name THEN Count(p, name) + d ELSE Count(p, n)
  BY DEF Count, Counted

\* Removing an entry of 0 changes no count.
LEMMA CountRemoved ==
  ASSUME NEW p, NEW name, p[name] = 0, NEW n, name \in DOMAIN p
  PROVE  Count([m \in DOMAIN p \ {name} |-> p[m]], n) = Count(p, n)
  BY DEF Count

LEMMA NameTypes ==
  ASSUME NEW name \in Names
  PROVE  /\ name[1] \in {"video", "image"} /\ name[2] \in 1 .. MaxFrames
         /\ name[2] \in Int /\ name = <<name[1], name[2]>>
<1>1. name \in {"video", "image"} \X (1 .. MaxFrames)
  BY DEF Names
<1>2. name = <<name[1], name[2]>> /\ name[1] \in {"video", "image"} /\ name[2] \in 1 .. MaxFrames
  BY <1>1
<1> QED BY <1>2, Constants

\* What no step but Out, Forward and Restart does to a counter.
LEMMA CountersStay ==
  ASSUME Counting, Ahead,
         \A name : Due(name)' = Due(name),
         UNCHANGED <<frame, turn, buffers, pendingAttachments_, reply, made, stale>>
  PROVE  Counting' /\ Ahead'
<1>1. \A h, name : Counter(h, name)' = Counter(h, name) /\ Coming(h, name)' = Coming(h, name)
  BY DEF Counter, Coming
<1>2. Counting'
  BY <1>1 DEF Counting, Owns
<1>3. ASSUME NEW name, Fresh(name) PROVE Fresh(name)'
  BY <1>3 DEF Fresh
<1> QED BY <1>2, <1>3 DEF Ahead, Owns

LEMMA CountingInit == Init => Counting /\ Ahead /\ Writing /\ Events /\ Present
<1> SUFFICES ASSUME Init PROVE Counting /\ Ahead /\ Writing /\ Events /\ Present
  OBVIOUS
<1>1. ASSUME NEW name PROVE Due(name) = {} /\ Cardinality(Due(name)) = 0
  <2>1. Due(name) = {}
    BY DEF Due, Init
  <2> QED BY <2>1, FS_EmptySet
<1>2. \A name : Fresh(name)
  BY <1>1 DEF Init, Fresh, NoReply
<1>3. Counting
  <2>1. ASSUME NEW h \in Handlers, NEW name PROVE Counter(h, name) = 0 /\ Coming(h, name) = 0
    BY DEF Init, Counter, Count, Coming, NoReply
  <2> QED BY <1>1, <2>1 DEF Counting
<1>4. Ahead
  BY <1>2 DEF Ahead, Init, Names
<1>5. Writing /\ Events /\ Present
  BY DEF Init, Writing, Events, Present
<1> QED BY <1>3, <1>4, <1>5

LEMMA CountingRetrieve ==
  ASSUME KInv, Retrieve PROVE Counting' /\ Ahead' /\ Writing' /\ Events' /\ Present'
<1>1. /\ frame \in Int /\ frame' = frame + 1 /\ turn = {} /\ turn' = Handlers
      /\ UNCHANGED <<buffers, image_, pendingAttachments_, writers, files, unsaved, raised,
                     reply, lost, made, stale>>
  BY Constants DEF KInv, IInv, Stream, Retrieve, outside
<1>2. \A name : Due(name)' = Due(name) /\ (Fresh(name) => Fresh(name)')
  BY <1>1 DEF Due, Fresh
<1>3. \A h, name : Counter(h, name)' = Counter(h, name) /\ Coming(h, name)' = Coming(h, name)
  BY <1>1 DEF Counter, Coming
<1>4. Counting'
  BY <1>1, <1>2, <1>3 DEF KInv, Counting, Owns
<1>5. Ahead'
  <2>1. ASSUME NEW name \in made PROVE name[2] <= frame'
    <3>1. name \in Names
      BY DEF KInv, Ahead
    <3> QED BY <1>1, <3>1, NameTypes DEF KInv, Ahead
  <2>2. ASSUME NEW h \in Handlers, NEW name \in Names, Owns(h, name),
               name[2] > frame' \/ (name[2] = frame' /\ h \in turn')
        PROVE  Fresh(name)'
    <3>1. name[2] > frame
      BY <1>1, <2>2, NameTypes
    <3>2. Fresh(name)
      BY <2>2, <3>1 DEF KInv, Ahead
    <3> QED BY <1>2, <3>2
  <2> QED BY <1>1, <1>2, <2>1, <2>2 DEF KInv, Ahead, Owns
<1>6. Writing'
  BY <1>1 DEF KInv, Writing, WriterGoes, Apart
<1>7. Events'
  BY <1>1 DEF KInv, Events
<1>8. Present'
  BY <1>1, <1>3 DEF KInv, Present, Meant, Owns
<1> QED BY <1>4, <1>5, <1>6, <1>7, <1>8

-------------------------------------------------------------------------------
(* The forked processes *)

\* A writer becomes x, and what it has no longer to raise is raised or lost.
LEMMA Becomes ==
  ASSUME KInv, NEW w \in writers, NEW x, x.name = w.name, x.todo \subseteq w.todo,
         writers' = (writers \ {w}) \cup {x},
         raised' \cup lost' = raised \cup lost \cup {<<r, w.name>> : r \in w.todo \ x.todo}
  PROVE  /\ \A name : Due(name)' = Due(name)
         /\ \A u, v \in writers' : Apart(u, v)
<1>1. ASSUME NEW name PROVE Due(name)' = Due(name)
  <2>1. ASSUME NEW r \in Rules, r \in Due(name) PROVE r \in Due(name)'
    <3>1. CASE <<r, name>> \in raised \cup lost
      BY <2>1, <3>1 DEF Due
    <3>2. ASSUME NEW v \in writers, v.name = name, r \in v.todo PROVE r \in Due(name)'
      <4>1. CASE v # w
        BY <3>2, <4>1 DEF Due
      <4>2. CASE v = w /\ r \in x.todo
        BY <3>2, <4>2 DEF Due
      <4>3. CASE v = w /\ r \notin x.todo
        BY <3>2, <4>3 DEF Due
      <4> QED BY <4>1, <4>2, <4>3
    <3> QED BY <2>1, <3>1, <3>2 DEF Due
  <2>2. ASSUME NEW r \in Rules, r \in Due(name)' PROVE r \in Due(name)
    <3>1. CASE <<r, name>> \in raised' \cup lost'
      <4>1. CASE <<r, name>> \in raised \cup lost
        BY <4>1 DEF Due
      <4>2. ASSUME NEW q \in w.todo \ x.todo, <<r, name>> = <<q, w.name>>
            PROVE  r \in Due(name)
        BY <4>2 DEF Due
      <4> QED BY <3>1, <4>1, <4>2
    <3>2. ASSUME NEW v \in writers', v.name = name, r \in v.todo PROVE r \in Due(name)
      BY <3>2 DEF Due
    <3> QED BY <2>2, <3>1, <3>2 DEF Due
  <2>3. Due(name) \subseteq Rules /\ Due(name)' \subseteq Rules
    BY DEF Due
  <2> QED BY <2>1, <2>2, <2>3
<1>2. ASSUME NEW u \in writers', NEW v \in writers' PROVE Apart(u, v)
  <2>1. \A a, b \in writers : Apart(a, b)
    BY DEF KInv, Writing
  <2> QED BY <2>1 DEF Apart
<1> QED BY <1>1, <1>2

LEMMA CountingWriteFile ==
  ASSUME KInv, NEW w \in writers, WriteFile(w)
  PROVE  Counting' /\ Ahead' /\ Writing' /\ Events' /\ Present'
<1> DEFINE x == [w EXCEPT !.written = TRUE]
<1>1. /\ ~w.written /\ files \subseteq files' /\ files' \subseteq files \cup {w.name}
      /\ unsaved \subseteq unsaved' /\ w.name \in files' \cup unsaved'
      /\ writers' = (writers \ {w}) \cup {x}
      /\ UNCHANGED <<frame, turn, buffers, image_, pendingAttachments_, raised, reply,
                     lost, made, stale>>
  BY DEF WriteFile
<1>2. w \in WriterState /\ WriterGoes(w) /\ w.name \in Names /\ w.h \in Handlers
  BY DEF KInv, IInv, Named, Writing, WriterState
<1>3. x.name = w.name /\ x.h = w.h /\ x.todo = w.todo /\ x.written
  BY <1>2 DEF WriterState
<1> HIDE DEF x
<1>4. (\A name : Due(name)' = Due(name)) /\ (\A u, v \in writers' : Apart(u, v))
  <2>1. raised' \cup lost' = raised \cup lost \cup {<<r, w.name>> : r \in w.todo \ x.todo}
    BY <1>1, <1>3
  <2> QED BY <1>1, <1>3, <2>1, Becomes
<1>5. Counting' /\ Ahead'
  BY <1>1, <1>4, CountersStay DEF KInv
<1>6. Writing'
  <2>1. ASSUME NEW u \in writers' PROVE WriterGoes(u)'
    <3>1. CASE u \in writers
      BY <1>1, <3>1 DEF KInv, Writing, WriterGoes
    <3>2. CASE u = x
      BY <1>1, <1>2, <1>3, <3>2 DEF WriterGoes
    <3> QED BY <1>1, <3>1, <3>2
  <2> QED BY <1>4, <2>1 DEF Writing, Apart
<1>7. Events'
  BY <1>1 DEF KInv, Events
<1>8. Present'
  <2> SUFFICES ASSUME Meant', NEW name \in files' \cap (made' \ stale')
               PROVE  \E h \in Handlers : Owns(h, name) /\ Counter(h, name)' >= 1
    BY DEF Present, Owns
  <2>1. Meant /\ \A h : Counter(h, name)' = Counter(h, name)
    BY <1>1 DEF Meant, Counter
  <2>2. CASE name \in files
    BY <1>1, <2>1, <2>2 DEF KInv, Present
  <2>3. CASE name = w.name
    <3>1. Wanting(w.h, w.name[1]) # {} /\ w.todo = Wanting(w.h, w.name[1])
      BY <1>1, <1>2, <2>1, <2>3, NameTypes DEF WriterGoes, Meant
    <3>2. PICK r \in Rules : r \in w.todo
      BY <1>2, <3>1 DEF WriterState
    <3>3. r \in Due(name)
      BY <2>3, <3>2 DEF Due
    <3>4. Cardinality(Due(name)) \in Nat /\ Cardinality(Due(name)) # 0
      BY <3>3, DueFinite
    <3>5. Owns(w.h, name) /\ name \notin stale /\ name \in Names
      BY <1>1, <1>2, <2>3, <3>1 DEF Owns
    <3>6. Counter(w.h, name) = Cardinality(Due(name)) + Coming(w.h, name)
      BY <1>2, <3>5 DEF KInv, Counting
    <3>7. Counter(w.h, name) >= 1
      BY <3>4, <3>6 DEF Coming
    <3> QED BY <1>2, <2>1, <3>5, <3>7
  <2> QED BY <1>1, <2>2, <2>3
<1> QED BY <1>5, <1>6, <1>7, <1>8

LEMMA CountingSendEvent ==
  ASSUME KInv, NEW w \in writers, NEW q \in w.todo, SendEvent(w, q)
  PROVE  Counting' /\ Ahead' /\ Writing' /\ Events' /\ Present'
<1> DEFINE todo == w.todo \ {q}
           x == [w EXCEPT !.todo = todo]
           e == <<q, w.name>>
<1>1. w \in WriterState /\ WriterGoes(w) /\ w.name \in Names
  BY DEF KInv, IInv, Named, Writing, WriterState
<1>2. /\ w.written
      /\ writers' = (writers \ {w}) \cup {x}
      /\ \/ raised' = raised \cup {e} /\ lost' = lost
         \/ raised' = raised /\ lost' = lost \cup {e}
      /\ UNCHANGED <<frame, turn, buffers, image_, pendingAttachments_, files, unsaved,
                     reply, made, stale>>
  BY DEF SendEvent
<1>3. x.name = w.name /\ x.h = w.h /\ x.todo = w.todo \ {q} /\ x.written
  BY <1>1, <1>2 DEF WriterState
<1> HIDE DEF x
<1>4. raised' \cup lost' = raised \cup lost \cup {e}
  BY <1>2
<1>5. (\A name : Due(name)' = Due(name)) /\ (\A u, v \in writers' : Apart(u, v))
  <2>1. w.todo \ x.todo = {q}
    BY <1>3
  <2>2. {<<r, w.name>> : r \in w.todo \ x.todo} = {e}
    BY <2>1
  <2> QED BY <1>2, <1>3, <1>4, <2>2, Becomes
<1>6. Counting' /\ Ahead'
  BY <1>2, <1>5, CountersStay DEF KInv
<1>7. Writing'
  <2>1. ASSUME NEW u \in writers' PROVE WriterGoes(u)'
    <3>1. CASE u \in writers /\ u # w
      <4>1. WriterGoes(u) /\ Apart(w, u)
        BY <3>1 DEF KInv, Writing
      <4>2. ASSUME NEW r \in u.todo PROVE <<r, u.name>> # e
        <5>1. u.name = w.name => r # q
          BY <3>1, <4>1 DEF Apart
        <5> QED BY <5>1
      <4> QED BY <1>2, <1>4, <4>1, <4>2 DEF WriterGoes
    <3>2. CASE u = x
      <4>1. ASSUME NEW r \in x.todo PROVE <<r, x.name>> \notin raised' \cup lost'
        BY <1>1, <1>3, <1>4 DEF WriterGoes
      <4> QED BY <1>1, <1>2, <1>3, <3>2, <4>1 DEF WriterGoes
    <3> QED BY <1>2, <3>1, <3>2
  <2> QED BY <1>5, <2>1 DEF Writing, Apart
<1>8. Events'
  <2>1. e \notin raised \cup lost /\ e[2] \in files \cup unsaved /\ e[2] \in made
    BY <1>1, <1>2 DEF WriterGoes
  <2> HIDE DEF e
  <2> QED BY <1>2, <2>1 DEF KInv, Events
<1>9. Present'
  BY <1>2 DEF KInv, Present, Meant, Owns, Counter
<1> QED BY <1>6, <1>7, <1>8, <1>9

\* A writer that fails takes its events with it: they are lost, and still counted.
LEMMA CountingWriterFails ==
  ASSUME KInv, NEW w \in writers, WriterFails(w)
  PROVE  Counting' /\ Ahead' /\ Writing' /\ Events' /\ Present'
<1> DEFINE gone == {<<r, w.name>> : r \in w.todo}
<1>1. /\ writers' = writers \ {w} /\ lost' = lost \cup gone
      /\ UNCHANGED <<frame, turn, buffers, image_, pendingAttachments_, files, unsaved,
                     raised, reply, made, stale>>
  BY DEF WriterFails
<1>2. WriterGoes(w) /\ w.todo \subseteq Rules
  BY DEF KInv, Writing, IInv, Named, WriterState
<1>3. /\ \A r, name : <<r, name>> \in gone <=> r \in w.todo /\ name = w.name
      /\ \A e \in gone : e \notin raised /\ e[2] = w.name
  BY <1>2 DEF WriterGoes
<1> HIDE DEF gone
<1>4. ASSUME NEW name PROVE Due(name)' = Due(name)
  <2>1. ASSUME NEW r \in Rules PROVE r \in Due(name)' <=> r \in Due(name)
    BY <1>1, <1>3 DEF Due
  <2>2. Due(name) \subseteq Rules /\ Due(name)' \subseteq Rules
    BY DEF Due
  <2> QED BY <2>1, <2>2
<1>5. Counting' /\ Ahead'
  BY <1>1, <1>4, CountersStay DEF KInv
<1>6. Writing'
  <2>1. ASSUME NEW u \in writers' PROVE WriterGoes(u)'
    <3>1. u \in writers /\ u # w /\ WriterGoes(u) /\ Apart(w, u)
      BY <1>1 DEF KInv, Writing
    <3>2. \A r \in u.todo : <<r, u.name>> \notin gone
      BY <1>3, <3>1 DEF Apart
    <3> QED BY <1>1, <3>1, <3>2 DEF WriterGoes
  <2> QED BY <1>1, <2>1 DEF KInv, Writing, Apart
<1>7. Events'
  BY <1>1, <1>2, <1>3 DEF KInv, Events, WriterGoes
<1>8. Present'
  BY <1>1 DEF KInv, Present, Meant, Owns, Counter
<1> QED BY <1>5, <1>6, <1>7, <1>8

LEMMA CountingWriterEnds ==
  ASSUME KInv, NEW w \in writers, WriterEnds(w)
  PROVE  Counting' /\ Ahead' /\ Writing' /\ Events' /\ Present'
<1>1. /\ w.todo = {} /\ writers' = writers \ {w}
      /\ UNCHANGED <<frame, turn, buffers, image_, pendingAttachments_, files, unsaved,
                     raised, reply, lost, made, stale>>
  BY DEF WriterEnds, outside
<1>2. \A name : Due(name)' = Due(name)
  BY <1>1 DEF Due
<1>3. Counting' /\ Ahead'
  BY <1>1, <1>2, CountersStay DEF KInv
<1>4. Writing'
  BY <1>1 DEF KInv, Writing, WriterGoes, Apart
<1>5. Events' /\ Present'
  BY <1>1 DEF KInv, Events, Present, Meant, Owns, Counter
<1> QED BY <1>3, <1>4, <1>5

-------------------------------------------------------------------------------
(* The message thread *)

\* An event leaves raised: its reply is on its way to every handler, or it is lost.
LEMMA CountingReceive ==
  ASSUME KInv, Receive PROVE Counting' /\ Ahead' /\ Writing' /\ Events' /\ Present'
<1>1. PICK e \in raised :
        /\ raised' = raised \ {e}
        /\ \/ reply' = [name |-> e[2], todo |-> Handlers] /\ UNCHANGED lost
           \/ lost' = lost \cup {e} /\ UNCHANGED reply
  BY DEF Receive
<1>2. /\ reply.todo = {} /\ reply = NoReply
      /\ UNCHANGED <<frame, turn, buffers, image_, pendingAttachments_, writers, files,
                     unsaved, made, stale>>
  BY DEF Receive, NoReply
<1> DEFINE r == e[1]
           m == e[2]
<1>3. e = <<r, m>> /\ r \in Rules /\ m \in Names /\ m \in made /\ e \notin lost
  BY DEF KInv, IInv, Named, Events
<1>4. r \in Due(m)
  BY <1>3 DEF Due
<1>5. CASE lost' = lost \cup {e} /\ UNCHANGED reply
  <2>1. raised' \cup lost' = raised \cup lost
    BY <1>1, <1>5
  <2>2. \A name : Due(name)' = Due(name)
    BY <1>2, <2>1 DEF Due
  <2>3. Counting' /\ Ahead'
    BY <1>2, <1>5, <2>2, CountersStay DEF KInv
  <2>4. Writing'
    BY <1>2, <2>1 DEF KInv, Writing, WriterGoes, Apart
  <2>5. Events'
    BY <1>1, <1>2, <1>5, <2>1 DEF KInv, Events
  <2>6. Present'
    BY <1>2 DEF KInv, Present, Meant, Owns, Counter
  <2> QED BY <2>3, <2>4, <2>5, <2>6
<1>6. CASE reply' = [name |-> m, todo |-> Handlers] /\ UNCHANGED lost
  <2>1. raised' \cup lost' = (raised \cup lost) \ {e}
    BY <1>1, <1>3, <1>6
  <2>2. \A w \in writers : w.name = m => r \notin w.todo
    BY <1>1, <1>3 DEF KInv, Writing, WriterGoes
  <2>3. ASSUME NEW name PROVE Due(name)' = IF name = m THEN Due(m) \ {r} ELSE Due(name)
    <3>1. \A q : <<q, name>> \in raised' \cup lost'
                   <=> <<q, name>> \in raised \cup lost /\ ~(q = r /\ name = m)
      BY <1>3, <2>1
    <3> HIDE DEF r, m
    <3>2. CASE name = m
      BY <1>2, <2>2, <3>1, <3>2 DEF Due
    <3>3. CASE name # m
      BY <1>2, <3>1, <3>3 DEF Due
    <3> QED BY <3>2, <3>3
  <2> HIDE DEF r, m
  <2>4. /\ Cardinality(Due(m)) \in Nat /\ Cardinality(Due(m)') \in Nat
        /\ Cardinality(Due(m)) = Cardinality(Due(m)') + 1
    <3>1. IsFiniteSet(Due(m)) /\ IsFiniteSet(Due(m) \ {r})
      BY DueFinite, FS_RemoveElement
    <3>2. Cardinality(Due(m) \ {r}) = Cardinality(Due(m)) - 1
      BY <1>4, <3>1, FS_RemoveElement
    <3>3. Due(m)' = Due(m) \ {r}
      BY <2>3
    <3>4. Cardinality(Due(m)) \in Nat /\ Cardinality(Due(m) \ {r}) \in Nat
      BY <3>1, FS_CardinalityType
    <3> QED BY <3>2, <3>3, <3>4
  <2>5. ASSUME NEW h \in Handlers, NEW name
        PROVE  /\ Counter(h, name)' = Counter(h, name)
               /\ Coming(h, name) = 0
               /\ Coming(h, name)' = IF name = m THEN 1 ELSE 0
    BY <1>2, <1>6 DEF Counter, Coming
  <2>6. Counting'
    <3>1. ASSUME NEW h \in Handlers, NEW name \in Names, Owns(h, name), name \notin stale
          PROVE  Counter(h, name)' = Cardinality(Due(name)') + Coming(h, name)'
      <4>1. Counter(h, name) = Cardinality(Due(name)) + 0
        BY <2>5, <3>1 DEF KInv, Counting
      <4>2. CASE name = m
        BY <2>4, <2>5, <4>1, <4>2
      <4>3. CASE name # m
        BY <2>3, <2>5, <4>1, <4>3
      <4> QED BY <4>2, <4>3
    <3>2. \A h \in Handlers, name \in Names :
            /\ Counter(h, name)' \in Int
            /\ ~(Owns(h, name) /\ name \notin stale) => Counter(h, name)' <= 0
      BY <2>5 DEF KInv, Counting
    <3> QED BY <1>2, <3>1, <3>2 DEF Counting, Owns
  <2>7. ASSUME NEW name, Fresh(name) PROVE Fresh(name)'
    <3>1. name # m
      BY <1>4, <2>7 DEF Fresh
    <3> QED BY <1>2, <1>6, <2>3, <2>7, <3>1 DEF Fresh
  <2>8. Ahead'
    BY <1>2, <2>7 DEF KInv, Ahead, Owns
  <2>9. Writing'
    BY <1>2, <2>1 DEF KInv, Writing, WriterGoes, Apart
  <2>10. Events'
    BY <1>1, <1>2, <1>3, <1>6 DEF KInv, Events
  <2>11. Present'
    BY <1>2 DEF KInv, Present, Meant, Owns, Counter
  <2> QED BY <2>6, <2>8, <2>9, <2>10, <2>11
<1> QED BY <1>1, <1>5, <1>6

\* A handler counts down, and removes the file when its counter reaches 0: by then no
\* event with the file is left.
LEMMA CountingForward ==
  ASSUME KInv, NEW h \in reply.todo, Forward(h)
  PROVE  Counting' /\ Ahead' /\ Writing' /\ Events' /\ Present'
<1> DEFINE m == reply.name
           p == Counted(pendingAttachments_[h], m, -1)
<1>1. h \in Handlers /\ m \in Names /\ m \in made
  <2>1. reply # NoReply
    BY DEF NoReply
  <2> QED BY <2>1 DEF KInv, IInv, Named, Events
<1>2. /\ UNCHANGED <<frame, turn, buffers, image_, writers, unsaved, raised, lost, made,
                     stale>>
      /\ reply' = IF reply.todo = {h} THEN NoReply ELSE [reply EXCEPT !.todo = @ \ {h}]
  BY DEF Forward
<1>3. /\ \A n : Counter(h, n)' = IF n = m THEN Counter(h, m) - 1 ELSE Counter(h, n)
      /\ \A g \in Handlers \ {h} : \A n : Counter(g, n)' = Counter(g, n)
      /\ files' = IF Counter(h, m) - 1 = 0 THEN files \ {m} ELSE files
  <2>1. pendingAttachments_ = [g \in Handlers |-> pendingAttachments_[g]]
    BY DEF KInv, IInv, Shapes
  <2>2. p[m] = Counter(h, m) - 1 /\ m \in DOMAIN p
    <3>1. Counter(h, m) \in Int
      BY <1>1 DEF KInv, Counting
    <3>2. p[m] = Counter(h, m) + -1 /\ m \in DOMAIN p
      BY DEF Counted, Counter
    <3> QED BY <3>1, <3>2
  <2>3. \A n : Count(p, n) = IF n = m THEN Counter(h, m) - 1 ELSE Counter(h, n)
    <3>1. Counter(h, m) \in Int /\ Counter(h, m) + -1 = Counter(h, m) - 1
      BY <1>1 DEF KInv, Counting
    <3> QED BY <3>1, CountCounted DEF Counter
  <2>4. CASE p[m] = 0
    <3> DEFINE q == [n \in DOMAIN p \ {m} |-> p[n]]
    <3>1. pendingAttachments_' = [pendingAttachments_ EXCEPT ![h] = q] /\ files' = files \ {m}
      BY <2>4 DEF Forward, HandlePending
    <3>2. \A n : Count(q, n) = Count(p, n)
      BY <2>2, <2>4, CountRemoved
    <3> HIDE DEF p, q
    <3>3. /\ pendingAttachments_'[h] = q
          /\ \A g \in Handlers \ {h} : pendingAttachments_'[g] = pendingAttachments_[g]
      BY <1>1, <2>1, <3>1
    <3> QED BY <2>2, <2>3, <2>4, <3>1, <3>2, <3>3 DEF Counter
  <2>5. CASE p[m] # 0
    <3>1. pendingAttachments_' = [pendingAttachments_ EXCEPT ![h] = p] /\ files' = files
      BY <2>5 DEF Forward, HandlePending
    <3> HIDE DEF p
    <3>2. /\ pendingAttachments_'[h] = p
          /\ \A g \in Handlers \ {h} : pendingAttachments_'[g] = pendingAttachments_[g]
      BY <1>1, <2>1, <3>1
    <3> QED BY <2>2, <2>3, <2>5, <3>1, <3>2 DEF Counter
  <2> QED BY <2>4, <2>5
<1>4. /\ reply'.todo = reply.todo \ {h}
      /\ reply'.todo # {} => reply'.name = m
      /\ reply' # NoReply => reply'.name = m
  <2>1. reply = [name |-> reply.name, todo |-> reply.todo]
    BY DEF KInv, IInv, Shapes
  <2> QED BY <1>2, <2>1 DEF NoReply
<1>5. \A name : Due(name)' = Due(name)
  BY <1>2 DEF Due
<1>6. ASSUME NEW g \in Handlers, NEW name
      PROVE  Coming(g, name)' = IF g = h THEN 0 ELSE Coming(g, name)
  BY <1>4, <1>6 DEF Coming
<1>7. Coming(h, m) = 1 /\ \A n : n # m => Coming(h, n) = 0
  BY DEF Coming
<1> HIDE DEF p, m
<1>8. Counting'
  <2>1. ASSUME NEW g \in Handlers, NEW name \in Names
        PROVE  /\ Counter(g, name)' \in Int
               /\ IF Owns(g, name) /\ name \notin stale
                  THEN Counter(g, name)' = Cardinality(Due(name)) + Coming(g, name)'
                  ELSE Counter(g, name)' <= 0
    <3>1. /\ Counter(g, name) \in Int
          /\ IF Owns(g, name) /\ name \notin stale
             THEN Counter(g, name) = Cardinality(Due(name)) + Coming(g, name)
             ELSE Counter(g, name) <= 0
      BY DEF KInv, Counting
    <3>2. Cardinality(Due(name)) \in Nat
      BY DueFinite
    <3>3. CASE g = h /\ name = m
      BY <1>3, <1>6, <1>7, <3>1, <3>2, <3>3
    <3>4. CASE g = h /\ name # m
      BY <1>3, <1>6, <1>7, <3>1, <3>4
    <3>5. CASE g # h
      BY <1>3, <1>6, <3>1, <3>5
    <3> QED BY <3>3, <3>4, <3>5
  <2> QED BY <1>2, <1>5, <2>1 DEF Counting, Owns
<1>9. Ahead'
  <2>1. ASSUME NEW name, Fresh(name) PROVE Fresh(name)'
    BY <1>2, <1>4, <1>5, <2>1 DEF Fresh, m
  <2> QED BY <1>2, <2>1 DEF KInv, Ahead, Owns
<1>10. ASSUME NEW name \in files, name \notin files' PROVE Due(name) = {}
  <2>1. name = m /\ Counter(h, m) - 1 = 0
    BY <1>3, <1>10
  <2>2. /\ Counter(h, m) \in Int
        /\ IF Owns(h, m) /\ m \notin stale
           THEN Counter(h, m) = Cardinality(Due(m)) + 1
           ELSE Counter(h, m) <= 0
    BY <1>1, <1>7 DEF KInv, Counting
  <2>3. Cardinality(Due(m)) \in Nat /\ (Cardinality(Due(m)) = 0 <=> Due(m) = {})
    BY DueFinite
  <2> QED BY <2>1, <2>2, <2>3
<1>11. Writing'
  <2>1. ASSUME NEW w \in writers PROVE WriterGoes(w)'
    <3>1. WriterGoes(w) /\ w \in WriterState
      BY DEF KInv, Writing, IInv, Named
    <3>2. ASSUME w.written, w.todo # {} PROVE w.name \in files' \cup unsaved
      <4>1. PICK r \in Rules : r \in w.todo
        BY <3>1, <3>2 DEF WriterState
      <4>2. r \in Due(w.name)
        BY <4>1 DEF Due
      <4>3. w.name \in files \cup unsaved
        BY <3>1, <3>2 DEF WriterGoes
      <4> QED BY <1>10, <4>2, <4>3
    <3> QED BY <1>2, <3>1, <3>2 DEF WriterGoes
  <2> QED BY <1>2, <2>1 DEF KInv, Writing, Apart
<1>12. Events'
  <2>1. ASSUME NEW e \in raised PROVE e[2] \in files' \cup unsaved
    <3>1. e[2] \in files \cup unsaved /\ e[1] \in Rules /\ e = <<e[1], e[2]>>
      BY DEF KInv, Events, IInv, Named
    <3>2. e[1] \in Due(e[2])
      BY <3>1 DEF Due
    <3> QED BY <1>10, <3>1, <3>2
  <2> QED BY <1>1, <1>2, <1>4, <2>1 DEF KInv, Events
<1>13. Present'
  <2> SUFFICES ASSUME Meant', NEW name \in files' \cap (made' \ stale')
               PROVE  \E g \in Handlers : Owns(g, name) /\ Counter(g, name)' >= 1
    BY DEF Present, Owns
  <2>1. Meant /\ name \in files \cap (made \ stale)
    BY <1>2, <1>3 DEF Meant
  <2>2. PICK g \in Handlers : Owns(g, name) /\ Counter(g, name) >= 1
    BY <2>1 DEF KInv, Present
  <2>3. CASE g = h /\ name = m
    <3>1. Counter(h, m) \in Int /\ Counter(h, m) - 1 # 0
      BY <1>1, <1>3, <2>3 DEF KInv, Counting
    <3>2. Counter(h, m) - 1 >= 1
      BY <2>2, <2>3, <3>1
    <3> QED BY <1>3, <2>2, <2>3, <3>2
  <2>4. CASE ~(g = h /\ name = m)
    BY <1>3, <2>2, <2>4
  <2> QED BY <2>3, <2>4
<1> QED BY <1>8, <1>9, <1>11, <1>12, <1>13

\* The counters are gone with the process, and all the files it made are an earlier
\* process's now.
LEMMA CountingRestart ==
  ASSUME KInv, Restart PROVE Counting' /\ Ahead' /\ Writing' /\ Events' /\ Present'
<1>1. /\ turn' = {} /\ buffers' = [h \in Handlers |-> NoBuffers]
      /\ pendingAttachments_' = [h \in Handlers |-> [n \in {} |-> 0]]
      /\ reply' = NoReply /\ stale' = made /\ writers' \subseteq writers
      /\ UNCHANGED <<frame, files, unsaved, raised, lost, made>>
  BY DEF Restart
<1>2. ASSUME NEW name, name \notin made PROVE Due(name)' = {}
  <2>1. \A e \in raised \cup lost : e[2] # name
    BY <1>2 DEF KInv, Events
  <2>2. \A r : <<r, name>>[2] = name
    OBVIOUS
  <2>3. \A w \in writers : w.name # name
    BY <1>2 DEF KInv, Writing, WriterGoes
  <2> QED BY <1>1, <2>1, <2>2, <2>3 DEF Due
<1>3. \A name : name \notin made => Fresh(name)'
  BY <1>1, <1>2 DEF Fresh, NoReply
<1>4. Counting'
  <2>1. ASSUME NEW h \in Handlers, NEW name
        PROVE  Counter(h, name)' = 0 /\ Coming(h, name)' = 0
    BY <1>1 DEF Counter, Count, Coming, NoReply
  <2>2. ASSUME NEW name, name \notin made PROVE Cardinality(Due(name)') = 0
    BY <1>2, <2>2, FS_EmptySet
  <2> QED BY <1>1, <2>1, <2>2 DEF Counting
<1>5. Ahead'
  <2>1. ASSUME NEW name \in Names, name[2] > frame PROVE name \notin made
    BY <2>1, NameTypes, Constants DEF KInv, Ahead, IInv, Stream
  <2>2. \A h \in Handlers : ~(Len(buffers'[h].buf_) > 0)
    BY <1>1, EmptySeq DEF NoBuffers
  <2> QED BY <1>1, <1>3, <2>1, <2>2 DEF KInv, Ahead
<1>6. Writing'
  BY <1>1 DEF KInv, Writing, WriterGoes, Apart
<1>7. Events' /\ Present'
  BY <1>1 DEF KInv, Events, Present
<1> QED BY <1>4, <1>5, <1>6, <1>7

-------------------------------------------------------------------------------
(* The main thread *)

\* A video starts with the frame in hand, or as before when nothing was written.
LEMMA FirstFrame ==
  ASSUME NEW k \in Nat, NEW b, Good(b, k), NEW motion \in BOOLEAN, NEW n \in Int,
         Len(NextBuffers(b, motion, n).buf_) > 0
  PROVE  LET c == NextBuffers(b, motion, n) IN
           c.buf_[1] = n \/ (c.buf_[1] = b.buf_[1] /\ Len(b.buf_) > 0 /\ ~Writes(b, motion))
<1> DEFINE c == NextBuffers(b, motion, n)
<1>1. b \in Buffers /\ b.buf_ \in Seq(Int) /\ Len(b.buf_) \in Nat
  BY LenProperties DEF Good, Buffers, Run
<1>2. CASE motion /\ b.post_
  BY <1>2 DEF NextBuffers, Resumed
<1>3. CASE motion /\ ~b.post_ /\ Len(b.buf_) = SIZE
  BY <1>1, <1>3 DEF NextBuffers, Moving, Buffers
<1>4. CASE motion /\ ~b.post_ /\ Len(b.buf_) # SIZE
  <2> DEFINE s == b.buf_
  <2>1. c.buf_ = Append(s, n) /\ ~Writes(b, motion)
    BY <1>1, <1>4 DEF NextBuffers, Moving, Writes, Buffers
  <2> HIDE DEF c
  <2>2. /\ \A i \in 1 .. Len(s) : Append(s, n)[i] = s[i]
        /\ Append(s, n)[Len(s) + 1] = n
    BY <1>1, AppendProperties
  <2>3. CASE Len(s) = 0
    <3>1. Len(s) + 1 = 1
      BY <2>3
    <3> QED BY <2>1, <2>2, <3>1 DEF c
  <2>4. CASE Len(s) # 0
    <3>1. 1 \in 1 .. Len(s) /\ Len(s) > 0
      BY <1>1, <2>4
    <3> QED BY <2>1, <2>2, <3>1 DEF c
  <2> QED BY <2>3, <2>4
<1>5. CASE ~motion /\ b.pre_
  <2>1. c.buf_ = <<>> /\ Len(<<>>) = 0
    BY <1>1, <1>5, EmptySeq DEF NextBuffers, Still, Good, Buffers
  <2> QED BY <2>1
<1>6. CASE ~motion /\ ~b.pre_ /\ Len(b.buf3_) < POST
  <2>1. c.buf_ = b.buf_
    BY <1>1, <1>6 DEF NextBuffers, Still, Buffers
  <2>2. Len(b.buf3_) # POST
    <3> DEFINE n3 == Len(b.buf3_)
    <3>1. n3 < POST
      BY <1>6
    <3>2. n3 \in Nat
      BY <1>1, LenProperties DEF Buffers, Run
    <3> HIDE DEF n3
    <3>3. n3 # POST
      BY <3>1, <3>2, Constants
    <3> QED BY <3>3 DEF n3
  <2>3. ~Writes(b, motion)
    BY <1>6, <2>2 DEF Writes
  <2> QED BY <2>1, <2>3
<1>7. CASE ~motion /\ ~b.pre_ /\ ~(Len(b.buf3_) < POST)
  <2>1. c.buf_ = <<>> /\ Len(<<>>) = 0
    BY <1>7, EmptySeq DEF NextBuffers, Still, NoBuffers
  <2> QED BY <2>1
<1> QED BY <1>2, <1>3, <1>4, <1>5, <1>6, <1>7

\* What a handler makes of a frame is a file nobody has heard of.
LEMMA MadeFresh ==
  ASSUME KInv, NEW h \in turn, NEW motion \in BOOLEAN, NEW name \in Made(h, motion)
  PROVE  /\ name \in Names /\ name[2] <= frame
         /\ Owns(h, name) => Fresh(name)
         /\ name[1] = "video" => /\ Wanting(h, "video") # {} /\ Writes(buffers[h], motion)
                                 /\ name[2] = buffers[h].buf_[1] /\ name[2] < frame
         /\ name[1] = "image" => image_[h]
<1> DEFINE b == buffers[h]
<1>1. /\ h \in Handlers /\ frame \in 1 .. MaxFrames /\ frame - 1 \in Nat
      /\ Given(h) = frame - 1 /\ Good(b, frame - 1)
  BY Constants DEF KInv, IInv, Stream, Given
<1>2. name \in Names
  BY MadeNames DEF KInv
<1>3. \/ /\ Wanting(h, "video") # {} /\ Writes(b, motion)
         /\ name = <<"video", b.buf_[1]>>
      \/ image_[h] /\ name = <<"image", frame>>
  BY DEF Made
<1>4. CASE /\ Wanting(h, "video") # {} /\ Writes(b, motion)
           /\ name = <<"video", b.buf_[1]>>
  <2>1. Len(b.buf_) > 0
    <3> DEFINE n == Len(b.buf_)
    <3>1. n >= MIN_MOTION \/ n = SIZE
      BY <1>4 DEF Writes, Worth
    <3> HIDE DEF n
    <3> QED BY <3>1, Constants DEF n
  <2>2. b.buf_[1] \in 1 .. frame - 1
    BY <1>1, <2>1, VideoRun
  <2>3. Fresh(name)
    BY <1>1, <1>4, <2>1 DEF KInv, Ahead
  <2>4. name[1] = "video" /\ name[2] = b.buf_[1]
    BY <1>4
  <2> HIDE DEF b
  <2>5. name[2] < frame /\ name[2] <= frame
    BY <1>1, <2>2, <2>4
  <2> QED BY <1>2, <1>4, <2>3, <2>4, <2>5 DEF b
<1>5. CASE image_[h] /\ name = <<"image", frame>>
  <2>1. name[1] = "image" /\ name[2] = frame /\ frame <= frame
    BY <1>1, <1>5, Constants
  <2>2. Owns(h, name) => Fresh(name)
    BY <1>1, <1>2, <2>1 DEF KInv, Ahead
  <2> QED BY <1>2, <1>5, <2>1, <2>2
<1> QED BY <1>3, <1>4, <1>5

LEMMA CountingOut ==
  ASSUME OneRoute, KInv, NEW h \in Handlers, NEW motion \in BOOLEAN, Out(h, motion)
  PROVE  Counting' /\ Ahead' /\ Writing' /\ Events' /\ Present'
<1> DEFINE names == Made(h, motion)
           New(name) == name \in names /\ Owns(h, name)
<1>1. /\ h \in turn /\ turn' = turn \ {h} /\ made' = made \cup names
      /\ UNCHANGED <<frame, image_, files, unsaved, raised, reply, lost, stale>>
  BY DEF Out, outside
<1>2. writers' = writers \cup {Writer(h, name) : name \in names}
  BY DEF Out, Fork
<1>3. ASSUME NEW name \in names
      PROVE  /\ name \in Names /\ name[2] <= frame
             /\ Owns(h, name) => Fresh(name)
             /\ name[1] = "video" => /\ Wanting(h, "video") # {}
                                     /\ Writes(buffers[h], motion)
                                     /\ name[2] = buffers[h].buf_[1] /\ name[2] < frame
             /\ name[1] = "image" => image_[h]
  BY <1>1, MadeFresh
<1>4. \A g \in Handlers, name \in Names : Owns(g, name) /\ Owns(h, name) => g = h
  BY NameTypes DEF OneRoute, Owns
<1>5. /\ frame \in 1 .. MaxFrames /\ frame \in Int /\ frame - 1 \in Nat
      /\ Given(h) = frame - 1 /\ Good(buffers[h], frame - 1)
  BY <1>1, Constants DEF KInv, IInv, Stream, Given
<1>6. \A name \in Names, g \in Handlers :
        Counter(g, name)' = Counter(g, name)
                              + (IF g = h /\ name \in names
                                 THEN Cardinality(Wanting(h, name[1])) ELSE 0)
  <2> SUFFICES ASSUME NEW name \in Names, NEW g \in Handlers
               PROVE  Counter(g, name)' = Counter(g, name)
                              + (IF g = h /\ name \in names
                                 THEN Cardinality(Wanting(h, name[1])) ELSE 0)
    OBVIOUS
  <2> DEFINE p == pendingAttachments_[h]
             D == DOMAIN p \cup {n \in names : Wanting(h, n[1]) # {}}
             q == [n \in D |->
                     Count(p, n) + (IF n \in names THEN Cardinality(Wanting(h, n[1])) ELSE 0)]
  <2>1. pendingAttachments_' = [pendingAttachments_ EXCEPT ![h] = q]
    BY DEF Out, Fork
  <2>2. pendingAttachments_ = [f \in Handlers |-> pendingAttachments_[f]]
    BY DEF KInv, IInv, Shapes
  <2>3. Counter(g, name) \in Int /\ Cardinality(Wanting(h, name[1])) \in Nat
        /\ (Cardinality(Wanting(h, name[1])) = 0 <=> Wanting(h, name[1]) = {})
    BY WantingFinite DEF KInv, Counting
  <2>4. CASE g # h
    <3> HIDE DEF q
    <3>1. pendingAttachments_'[g] = pendingAttachments_[g]
      BY <2>1, <2>2, <2>4
    <3> QED BY <2>3, <2>4, <3>1 DEF Counter
  <2>5. CASE g = h
    <3>1. Count(q, name) = Count(p, name) + (IF name \in names
                                 THEN Cardinality(Wanting(h, name[1])) ELSE 0)
      <4>1. CASE name \in D
        BY <4>1 DEF Count
      <4>2. CASE name \notin D
        <5>1. /\ Count(q, name) = 0 /\ Count(p, name) = 0
              /\ name \in names => Cardinality(Wanting(h, name[1])) = 0
          BY <2>3, <4>2 DEF Count
        <5> HIDE DEF q, p, names
        <5> QED BY <5>1
      <4> QED BY <4>1, <4>2
    <3> HIDE DEF q, names
    <3>2. pendingAttachments_'[h] = q
      BY <2>1, <2>2
    <3> QED BY <2>5, <3>1, <3>2 DEF Counter
  <2> QED BY <2>4, <2>5
<1> HIDE DEF names
<1>7. ASSUME NEW name PROVE Due(name)' = IF New(name) THEN Wanting(h, name[1]) ELSE Due(name)
  <2>1. \A n : /\ Writer(h, n).name = n
               /\ Writer(h, n).todo = Wanting(h, n[1])
    BY DEF Writer
  <2>2. Wanting(h, name[1]) \subseteq Rules
    BY WantingFinite
  <2>3. New(name) => Due(name) = {}
    BY <1>3 DEF Fresh
  <2>4. \A r : (\E w \in writers' : w.name = name /\ r \in w.todo)
                 <=> \/ \E w \in writers : w.name = name /\ r \in w.todo
                     \/ name \in names /\ r \in Wanting(h, name[1])
    BY <1>2, <2>1
  <2>5. \A r : r \in Due(name)' <=> r \in Due(name) \/ (name \in names /\ r \in Wanting(h, name[1]))
    BY <1>1, <2>2, <2>4 DEF Due
  <2>6. Due(name)' = Due(name) \cup (IF name \in names THEN Wanting(h, name[1]) ELSE {})
    BY <2>5
  <2> QED BY <2>3, <2>6 DEF Owns
<1>8. ASSUME NEW name, Fresh(name), ~New(name) PROVE Fresh(name)'
  BY <1>1, <1>7, <1>8 DEF Fresh
<1>9. Counting'
  <2>1. ASSUME NEW g \in Handlers, NEW name \in Names
        PROVE  /\ Counter(g, name)' \in Int
               /\ IF Owns(g, name) /\ name \notin stale
                  THEN Counter(g, name)' = Cardinality(Due(name)') + Coming(g, name)
                  ELSE Counter(g, name)' <= 0
    <3>1. /\ Counter(g, name) \in Int
          /\ IF Owns(g, name) /\ name \notin stale
             THEN Counter(g, name) = Cardinality(Due(name)) + Coming(g, name)
             ELSE Counter(g, name) <= 0
      BY DEF KInv, Counting
    <3>2. Cardinality(Wanting(h, name[1])) \in Nat
          /\ (Wanting(h, name[1]) = {} => Cardinality(Wanting(h, name[1])) = 0)
      BY WantingFinite
    <3>3. CASE New(name) /\ g = h
      <4>1. Due(name) = {} /\ Cardinality(Due(name)) = 0 /\ name \notin stale
            /\ Coming(h, name) = 0
        BY <1>3, <3>3, FS_EmptySet DEF Fresh, Coming
      <4>2. Due(name)' = Wanting(h, name[1])
        BY <1>7, <3>3
      <4>3. Counter(h, name)' = Counter(h, name) + Cardinality(Wanting(h, name[1]))
        BY <1>6, <3>3
      <4> QED BY <3>1, <3>2, <3>3, <4>1, <4>2, <4>3
    <3>4. CASE New(name) /\ g # h
      <4>1. ~Owns(g, name)
        BY <1>4, <3>4
      <4>2. Counter(g, name)' = Counter(g, name) + 0
        BY <1>6, <3>4
      <4> QED BY <3>1, <4>1, <4>2
    <3>5. CASE ~New(name)
      <4>1. Due(name)' = Due(name)
        BY <1>7, <3>5
      <4>2. Counter(g, name)' = Counter(g, name) + 0
        BY <1>6, <3>2, <3>5 DEF Owns
      <4> QED BY <3>1, <4>1, <4>2
    <3> QED BY <3>3, <3>4, <3>5
  <2>2. \A g, name : Coming(g, name)' = Coming(g, name)
    BY <1>1 DEF Coming
  <2> QED BY <1>1, <2>1, <2>2 DEF Counting, Owns
<1>10. Ahead'
  <2>1. made' \subseteq Names /\ \A name \in made' : name[2] <= frame'
    BY <1>1, <1>3 DEF KInv, Ahead
  <2>2. ASSUME NEW g \in Handlers, NEW name \in Names, Owns(g, name),
               name[2] > frame \/ (name[2] = frame /\ g \in turn \ {h})
        PROVE  Fresh(name)'
    <3>1. Fresh(name)
      BY <2>2 DEF KInv, Ahead
    <3>2. ~New(name)
      <4>1. New(name) => g = h /\ name[2] <= frame
        BY <1>3, <1>4, <2>2
      <4> QED BY <1>5, <2>2, <4>1, NameTypes
    <3> QED BY <1>8, <3>1, <3>2
  <2>3. ASSUME NEW g \in Handlers, Wanting(g, "video") # {}, Len(buffers'[g].buf_) > 0,
               NEW f, f = buffers'[g].buf_[1]
        PROVE  Fresh(<<"video", f>>)'
    <3>1. CASE g # h
      <4>1. buffers'[g] = buffers[g]
        BY <3>1 DEF Out, KInv, IInv, Shapes
      <4>2. Fresh(<<"video", buffers[g].buf_[1]>>)
        BY <2>3, <4>1 DEF KInv, Ahead
      <4>3. Wanting(h, "video") = {}
        BY <2>3, <3>1 DEF OneRoute
      <4>4. ~New(<<"video", buffers[g].buf_[1]>>)
        BY <4>3 DEF Owns
      <4>5. <<"video", f>> = <<"video", buffers[g].buf_[1]>>
        BY <2>3, <4>1
      <4> QED BY <1>8, <4>2, <4>4, <4>5
    <3>2. CASE g = h
      <4> DEFINE c == NextBuffers(buffers[h], motion, frame)
                 name == <<"video", f>>
      <4>1. buffers'[h] = c
        BY <2>3, <3>2 DEF Out, KInv, IInv, Shapes
      <4>2. \/ c.buf_[1] = frame
            \/ /\ c.buf_[1] = buffers[h].buf_[1] /\ Len(buffers[h].buf_) > 0
               /\ ~Writes(buffers[h], motion)
        BY <1>5, <2>3, <3>2, <4>1, FirstFrame
      <4> HIDE DEF c
      <4>3. f = c.buf_[1]
        BY <2>3, <3>2, <4>1
      <4>4. CASE c.buf_[1] = frame
        <5>1. name \in Names /\ name[1] = "video" /\ name[2] = frame /\ Owns(h, name)
          BY <1>5, <2>3, <3>2, <4>3, <4>4 DEF Names, Owns
        <5>2. Fresh(name)
          BY <1>1, <5>1 DEF KInv, Ahead
        <5>3. ~New(name)
          BY <1>3, <1>5, <5>1
        <5> QED BY <1>8, <5>2, <5>3
      <4>5. CASE /\ c.buf_[1] = buffers[h].buf_[1] /\ Len(buffers[h].buf_) > 0
                 /\ ~Writes(buffers[h], motion)
        <5>1. Fresh(name)
          BY <2>3, <3>2, <4>3, <4>5 DEF KInv, Ahead
        <5>2. name[1] = "video"
          OBVIOUS
        <5>3. ~New(name)
          BY <1>3, <4>5, <5>2
        <5> QED BY <1>8, <5>1, <5>3
      <4> QED BY <4>2, <4>4, <4>5
    <3> QED BY <3>1, <3>2
  <2> QED BY <1>1, <2>1, <2>2, <2>3 DEF Ahead, Owns
<1>11. Writing'
  <2>1. ASSUME NEW name \in names
        PROVE  /\ Writer(h, name).name = name /\ Writer(h, name).h = h
               /\ Writer(h, name).todo = Wanting(h, name[1])
               /\ ~Writer(h, name).written
               /\ \A r \in Wanting(h, name[1]) : r \in Rules /\ r \notin Due(name)
    <3>1. \A r \in Wanting(h, name[1]) : Fresh(name) /\ r \in Rules
      BY <1>3, WantingFinite DEF Owns
    <3> QED BY <3>1 DEF Writer, Fresh
  <2>2. ASSUME NEW w \in writers' PROVE WriterGoes(w)'
    <3>1. CASE w \in writers
      BY <1>1, <3>1 DEF KInv, Writing, WriterGoes
    <3>2. ASSUME NEW name \in names, w = Writer(h, name) PROVE WriterGoes(w)'
      <4>1. \A r \in w.todo : <<r, w.name>> \notin raised \cup lost
        BY <2>1, <3>2 DEF Due
      <4> QED BY <1>1, <1>3, <2>1, <3>2, <4>1 DEF WriterGoes
    <3> QED BY <1>2, <3>1, <3>2
  <2>3. ASSUME NEW w \in writers, NEW name \in names
        PROVE  w.name = name => w.todo \cap Writer(h, name).todo = {}
    BY <2>1 DEF Due
  <2>4. ASSUME NEW w \in writers', NEW v \in writers' PROVE Apart(w, v)
    <3>1. CASE w \in writers /\ v \in writers
      BY <3>1 DEF KInv, Writing
    <3>2. ASSUME NEW n \in names, w = Writer(h, n), v \in writers PROVE Apart(w, v)
      BY <2>1, <2>3, <3>2 DEF Apart
    <3>3. ASSUME NEW n \in names, v = Writer(h, n), w \in writers PROVE Apart(w, v)
      BY <2>1, <2>3, <3>3 DEF Apart
    <3>4. ASSUME NEW n \in names, NEW m \in names, w = Writer(h, n), v = Writer(h, m)
          PROVE  Apart(w, v)
      BY <2>1, <3>4 DEF Apart
    <3> QED BY <1>2, <3>1, <3>2, <3>3, <3>4
  <2> QED BY <2>2, <2>4 DEF Writing, Apart
<1>12. Events'
  BY <1>1 DEF KInv, Events
<1>13. Present'
  <2> SUFFICES ASSUME Meant', NEW name \in files' \cap (made' \ stale')
               PROVE  \E g \in Handlers : Owns(g, name) /\ Counter(g, name)' >= 1
    BY DEF Present, Owns
  <2>1. Meant /\ name \in files /\ name \notin stale /\ name \in Names
    BY <1>1 DEF Meant, KInv, IInv, Named
  <2>2. CASE name \in made
    <3>1. PICK g \in Handlers : Owns(g, name) /\ Counter(g, name) >= 1
      BY <2>1, <2>2 DEF KInv, Present
    <3>2. Counter(g, name) \in Int /\ Cardinality(Wanting(h, name[1])) \in Nat
      BY <2>1, WantingFinite DEF KInv, Counting
    <3>3. Counter(g, name)' >= 1
      BY <1>6, <2>1, <3>1, <3>2
    <3> QED BY <3>1, <3>3
  <2>3. CASE name \in names
    <3>1. Owns(h, name)
      BY <1>3, <2>1, <2>3, NameTypes DEF Meant, Owns
    <3>2. Counter(h, name) = 0
      <4>1. Due(name) = {} /\ Cardinality(Due(name)) = 0 /\ Coming(h, name) = 0
        BY <1>3, <2>3, <3>1, FS_EmptySet DEF Fresh, Coming
      <4> QED BY <2>1, <3>1, <4>1 DEF KInv, Counting
    <3>3. Cardinality(Wanting(h, name[1])) \in Nat /\ Cardinality(Wanting(h, name[1])) # 0
      BY <3>1, WantingFinite DEF Owns
    <3>4. Counter(h, name)' >= 1
      BY <1>6, <2>1, <2>3, <3>2, <3>3
    <3> QED BY <3>1, <3>4
  <2> QED BY <1>1, <2>2, <2>3
<1> QED BY <1>9, <1>10, <1>11, <1>12, <1>13

LEMMA CountingNext == ASSUME OneRoute PROVE KInv /\ [Next]_vars => KInv'
<1> SUFFICES ASSUME KInv, [Next]_vars
             PROVE  Counting' /\ Ahead' /\ Writing' /\ Events' /\ Present'
  BY NextGood DEF KInv
<1>1. CASE UNCHANGED vars
  <2>1. \A name : Due(name)' = Due(name)
    BY <1>1 DEF vars, Due
  <2>2. Counting' /\ Ahead'
    BY <1>1, <2>1, CountersStay DEF vars, KInv
  <2>3. Writing' /\ Events' /\ Present'
    BY <1>1 DEF vars, KInv, Writing, WriterGoes, Apart, Events, Present, Meant, Owns, Counter
  <2> QED BY <2>2, <2>3
<1>2. ASSUME NEW h \in Handlers, NEW motion \in BOOLEAN, Out(h, motion)
      PROVE  Counting' /\ Ahead' /\ Writing' /\ Events' /\ Present'
  BY <1>2, CountingOut
<1>3. ASSUME NEW w \in writers,
             \/ WriteFile(w) \/ WriterFails(w) \/ WriterEnds(w)
             \/ \E r \in w.todo : SendEvent(w, r)
      PROVE  Counting' /\ Ahead' /\ Writing' /\ Events' /\ Present'
  BY <1>3, CountingWriteFile, CountingWriterFails, CountingWriterEnds, CountingSendEvent
<1>4. ASSUME NEW h \in reply.todo, Forward(h)
      PROVE  Counting' /\ Ahead' /\ Writing' /\ Events' /\ Present'
  BY <1>4, CountingForward
<1> QED BY <1>1, <1>2, <1>3, <1>4, CountingRetrieve, CountingReceive, CountingRestart DEF Next

LEMMA AlwaysCounting == ASSUME OneRoute PROVE Spec => []KInv
<1>1. Init => KInv
  BY InitGood, CountingInit DEF KInv
<1> QED BY <1>1, CountingNext, PTL DEF Spec

\* When rules that want the same kind of attachment share a route, no counter of the
\* module lets it remove a file while a reply to an event that names it is due,
\* whatever replies and processes get lost in between.
THEOREM FilesAreKept == ASSUME OneRoute PROVE Spec => []KeptWhileDue
<1>1. KInv => KeptWhileDue
  BY DEF KInv, Events, KeptWhileDue
<1> QED BY <1>1, AlwaysCounting, PTL

\* And no file of the running process is left over: it is removed with the last reply,
\* unless an event with it got lost.
THEOREM FilesAreRemoved == ASSUME OneRoute PROVE Spec => []GoneWhenDone
<1>1. KInv => GoneWhenDone
  <2> SUFFICES ASSUME KInv, Meant, NEW name \in files \cap (made \ stale)
               PROVE  \/ \E w \in writers : w.name = name
                      \/ \E r \in Rules : <<r, name>> \in raised \cup lost
                      \/ reply.name = name
    BY DEF GoneWhenDone, Meant
  <2>1. PICK h \in Handlers : Owns(h, name) /\ Counter(h, name) >= 1
    BY DEF KInv, Present
  <2>2. name \in Names /\ name \notin stale
    BY DEF KInv, IInv, Named
  <2>3. Counter(h, name) = Cardinality(Due(name)) + Coming(h, name)
    BY <2>1, <2>2 DEF KInv, Counting
  <2>4. Due(name) # {} \/ Coming(h, name) = 1
    <3>1. Due(name) = {} => Cardinality(Due(name)) = 0
      BY DueFinite
    <3> QED BY <2>1, <2>3, <3>1 DEF Coming
  <2> QED BY <2>4 DEF Due, Coming
<1> QED BY <1>1, AlwaysCounting, PTL
===============================================================================
