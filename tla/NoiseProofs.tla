------------------------------ MODULE NoiseProofs ------------------------------
(***************************************************************************)
(* Proofs about the noise detection module, for any finite set of rules    *)
(* and any number of recordings.  Replies are counted, so that the proofs  *)
(* are about cardinalities: as long as nothing was late, deleteFile waits  *)
(* for at least as many messages as there are to come.                     *)
(***************************************************************************)
EXTENDS NoiseDetection, FiniteSetTheorems, TLAPS

\* What comes of one recording at most, and of n of them.
Share    == Cardinality(rules_)
Total(n) == n * Share

Types ==
  /\ pc \in {"down", "listen", "recording", "rules", "delete"}
  /\ file_path \in 0 .. MaxFiles
  /\ loud \subseteq rules_
  /\ numOfRules \in Nat
  /\ due \subseteq rules_ \X (1 .. file_path) /\ IsFiniteSet(due)
  /\ inbox \in Nat
  /\ late \in BOOLEAN

\* The events of a recording are a rule each; those still to be raised are loud.
Counted ==
  /\ numOfRules + Cardinality(loud) <= Share
  /\ inbox + Cardinality(due) + Cardinality(loud) <= Total(file_path)
  /\ pc \notin {"recording", "rules"} => loud = {}
  /\ pc \in {"down", "listen", "recording"} => numOfRules = 0

OneFile ==
  /\ files \subseteq {file_path}
  /\ pc = "listen" => files = {}

\* Nothing was late: every event due is the last recording's, that one is on disk,
\* and its messages are all waited for.
InOrder ==
  ~late =>
    /\ inbox + Cardinality(due) <= numOfRules
    /\ \A e \in due : e[2] = file_path
    /\ pc \in {"recording", "rules", "delete"} => file_path \in files

IInv == Types /\ Counted /\ OneFile /\ InOrder

-------------------------------------------------------------------------------
(* Cardinalities *)

LEMMA RulesFinite ==
  /\ IsFiniteSet(rules_) /\ Share \in Nat /\ MaxFiles \in Nat
  /\ \A S \in SUBSET rules_ :
       IsFiniteSet(S) /\ Cardinality(S) \in Nat /\ Cardinality(S) <= Share
<1>1. IsFiniteSet(rules_) /\ MaxFiles \in Nat
  BY NoiseAssumption
<1>2. Share \in Nat
  BY <1>1, FS_CardinalityType DEF Share
<1>3. ASSUME NEW S \in SUBSET rules_
      PROVE  IsFiniteSet(S) /\ Cardinality(S) \in Nat /\ Cardinality(S) <= Share
  BY <1>1, FS_Subset, FS_CardinalityType DEF Share
<1> QED BY <1>1, <1>2, <1>3

LEMMA TotalGrows ==
  /\ \A n \in Nat : Total(n) \in Nat /\ Total(n + 1) = Total(n) + Share
  /\ Total(0) = 0
  /\ \A n \in 0 .. MaxFiles : Total(n) <= Total(MaxFiles)
<1>1. Share \in Nat /\ MaxFiles \in Nat
  BY RulesFinite
<1>2. ASSUME NEW n \in 0 .. MaxFiles PROVE Total(n) <= Total(MaxFiles)
  <2> DEFINE d == MaxFiles - n
             S == Share
  <2>1. S \in Nat /\ d \in Nat /\ n \in Nat /\ MaxFiles = n + d
    BY <1>1
  <2> HIDE DEF d, S
  <2>2. (n + d) * S = n * S + d * S /\ d * S >= 0 /\ n * S \in Nat /\ d * S \in Nat
    BY <2>1, SMT
  <2> QED BY <2>1, <2>2 DEF Total, S
<1> QED BY <1>1, <1>2 DEF Total

LEMMA NoneLeft ==
  ASSUME NEW S, IsFiniteSet(S)
  PROVE  /\ Cardinality(S) \in Nat
         /\ Cardinality(S) <= 0 => S = {}
  BY FS_CardinalityType, FS_EmptySet

-------------------------------------------------------------------------------
(* The invariant *)

LEMMA InitGood == Init => IInv
<1> SUFFICES ASSUME Init PROVE IInv
  OBVIOUS
<1>1. Cardinality({}) = 0 /\ IsFiniteSet({})
  BY FS_EmptySet
<1>2. Types
  <2>1. 0 \in 0 .. MaxFiles
    BY RulesFinite
  <2> QED BY <1>1, <2>1 DEF Init, Types
<1>3. Counted
  BY <1>1, RulesFinite, TotalGrows DEF Init, Counted
<1> QED BY <1>1, <1>2, <1>3 DEF Init, IInv, OneFile, InOrder

LEMMA StartGood == IInv /\ Start => IInv'
<1> SUFFICES ASSUME IInv, Start PROVE IInv'
  OBVIOUS
<1>1. Types' /\ Counted'
  BY DEF IInv, Types, Counted, Start
<1>2. OneFile' /\ InOrder'
  BY DEF IInv, OneFile, InOrder, Start
<1> QED BY <1>1, <1>2 DEF IInv

\* Nothing is due when a recording begins, unless something was late.
LEMMA HearGood == IInv /\ Hear => IInv'
<1> SUFFICES ASSUME IInv, Hear PROVE IInv'
  OBVIOUS
<1>1. /\ file_path' = file_path + 1 /\ file_path \in Nat /\ file_path' \in 0 .. MaxFiles
      /\ loud' \in SUBSET rules_ /\ loud = {}
  BY RulesFinite DEF Hear, IInv, Types, Counted
<1>2. Types'
  BY <1>1 DEF Hear, IInv, Types
<1>3. Counted'
  <2>1. Cardinality(loud') \in Nat /\ Cardinality(loud') <= Share /\ Cardinality(loud) = 0
    BY <1>1, RulesFinite, FS_EmptySet
  <2>2. Total(file_path') = Total(file_path) + Share /\ Total(file_path) \in Nat
    BY <1>1, TotalGrows
  <2>3. Cardinality(due) \in Nat /\ Share \in Nat /\ inbox \in Nat
    BY NoneLeft, RulesFinite DEF IInv, Types
  <2>4. numOfRules = 0 /\ inbox + Cardinality(due) + 0 <= Total(file_path)
    BY <2>1 DEF IInv, Counted, Hear
  <2>5. inbox + Cardinality(due) + Cardinality(loud') <= Total(file_path')
    BY <2>1, <2>2, <2>3, <2>4
  <2> QED BY <2>1, <2>3, <2>4, <2>5 DEF Counted, Hear
<1>4. OneFile'
  BY DEF Hear, IInv, OneFile
<1>5. InOrder'
  <2> SUFFICES ASSUME ~late PROVE InOrder'
    BY DEF InOrder, Hear
  <2>1. numOfRules = 0 /\ inbox + Cardinality(due) <= numOfRules
    BY DEF IInv, InOrder, Counted, Hear
  <2>2. due = {}
    <3>1. Cardinality(due) \in Nat /\ inbox \in Nat
      BY NoneLeft DEF IInv, Types
    <3> QED BY <2>1, <3>1, NoneLeft DEF IInv, Types
  <2> QED BY <2>1, <2>2 DEF InOrder, Hear
<1> QED BY <1>2, <1>3, <1>4, <1>5 DEF IInv

LEMMA RecordedGood == IInv /\ (Recorded \/ AllSent) => IInv'
<1> SUFFICES ASSUME IInv, Recorded \/ AllSent PROVE IInv'
  OBVIOUS
<1>1. Types' /\ OneFile'
  BY DEF IInv, Types, OneFile, Recorded, AllSent
<1>2. Counted' /\ InOrder'
  BY DEF IInv, Counted, InOrder, Recorded, AllSent
<1> QED BY <1>1, <1>2 DEF IInv

\* The rule is not loud any more, its event may be due.
LEMMA SendEventGood == ASSUME NEW r \in rules_, IInv, SendEvent(r) PROVE IInv'
<1>1. /\ r \in loud /\ loud' = loud \ {r} /\ numOfRules' = numOfRules + 1
      /\ due' \in {due, due \cup {<<r, file_path>>}} /\ pc = "rules"
      /\ UNCHANGED <<pc, file_path, files, inbox, late>>
  BY DEF SendEvent
<1>2. /\ Cardinality(due) \in Nat /\ Cardinality(loud) \in Nat
      /\ numOfRules \in Nat /\ inbox \in Nat /\ file_path \in Nat
      /\ IsFiniteSet(loud) /\ IsFiniteSet(due)
  <2>1. IsFiniteSet(loud) /\ IsFiniteSet(due) /\ numOfRules \in Nat /\ inbox \in Nat
        /\ file_path \in 0 .. MaxFiles
    BY RulesFinite DEF IInv, Types
  <2> QED BY <2>1, NoneLeft, RulesFinite
<1>3. Cardinality(loud') = Cardinality(loud) - 1 /\ Cardinality(loud') \in Nat
  <2>1. IsFiniteSet(loud') /\ Cardinality(loud') = Cardinality(loud) - 1
    BY <1>1, <1>2, FS_RemoveElement
  <2> QED BY <2>1, NoneLeft
<1>4. /\ IsFiniteSet(due') /\ Cardinality(due') \in Nat
      /\ Cardinality(due') <= Cardinality(due) + 1
  <2> DEFINE e == <<r, file_path>>
  <2>1. /\ IsFiniteSet(due \cup {e})
        /\ \/ Cardinality(due \cup {e}) = Cardinality(due)
           \/ Cardinality(due \cup {e}) = Cardinality(due) + 1
    BY <1>2, FS_AddElement
  <2>2. due' = due \/ due' = due \cup {e}
    BY <1>1
  <2>3. CASE due' = due
    BY <1>2, <2>3
  <2>4. CASE due' = due \cup {e}
    BY <1>2, <2>1, <2>4
  <2> QED BY <2>2, <2>3, <2>4
<1>5. file_path > 0
  <2>1. Share \in Nat /\ Total(0) = 0
    BY RulesFinite, TotalGrows
  <2>2. inbox + Cardinality(due) + Cardinality(loud) <= Total(file_path)
    BY DEF IInv, Counted
  <2>3. Total(file_path) >= 1
    BY <1>2, <1>3, <2>2, TotalGrows
  <2> QED BY <1>2, <2>1, <2>3
<1>6. Types'
  <2>1. due' \subseteq rules_ \X (1 .. file_path)
    BY <1>1, <1>2, <1>5 DEF IInv, Types
  <2> QED BY <1>1, <1>2, <1>4, <2>1 DEF IInv, Types
<1>7. Counted'
  <2>1. /\ numOfRules + Cardinality(loud) <= Share
        /\ inbox + Cardinality(due) + Cardinality(loud) <= Total(file_path)
        /\ Total(file_path) \in Nat /\ Share \in Nat
    BY <1>2, TotalGrows, RulesFinite DEF IInv, Counted
  <2>2. /\ numOfRules' + Cardinality(loud') <= Share
        /\ inbox + Cardinality(due') + Cardinality(loud') <= Total(file_path)
    BY <1>1, <1>2, <1>3, <1>4, <2>1
  <2> QED BY <1>1, <2>2 DEF Counted
<1>8. OneFile'
  BY <1>1 DEF IInv, OneFile
<1>9. InOrder'
  <2> SUFFICES ASSUME ~late PROVE InOrder'
    BY <1>1 DEF InOrder
  <2>1. inbox + Cardinality(due') <= numOfRules'
    BY <1>1, <1>2, <1>4 DEF IInv, InOrder
  <2>2. \A e \in due' : e[2] = file_path
    BY <1>1 DEF IInv, InOrder
  <2> QED BY <1>1, <2>1, <2>2 DEF IInv, InOrder
<1> QED BY <1>6, <1>7, <1>8, <1>9 DEF IInv

\* One message less to wait for: it was there, or it is late.
LEMMA AwaitGood == IInv /\ Await => IInv'
<1> SUFFICES ASSUME IInv, Await PROVE IInv'
  OBVIOUS
<1>1. /\ numOfRules \in Nat /\ inbox \in Nat /\ numOfRules > 0
      /\ Cardinality(due) \in Nat /\ Cardinality(loud) \in Nat /\ Share \in Nat
      /\ Total(file_path) \in Nat
  <2>1. /\ numOfRules \in Nat /\ inbox \in Nat /\ numOfRules > 0
        /\ IsFiniteSet(due) /\ loud \subseteq rules_ /\ file_path \in 0 .. MaxFiles
    BY DEF IInv, Types, Await
  <2>2. file_path \in Nat /\ Cardinality(loud) \in Nat /\ Share \in Nat
    BY <2>1, RulesFinite
  <2> QED BY <2>1, <2>2, NoneLeft, TotalGrows
<1>2. inbox' \in Nat /\ inbox' <= inbox /\ numOfRules' = numOfRules - 1
  BY <1>1 DEF Await
<1>3. Types'
  <2>1. late' = late \/ late' = TRUE
    BY DEF Await
  <2>2. late' \in BOOLEAN
    BY <2>1, Zenon DEF IInv, Types
  <2>3. numOfRules' \in Nat
    BY <1>1, <1>2
  <2> QED BY <1>2, <2>2, <2>3 DEF IInv, Types, Await
<1>4. Counted'
  <2>1. /\ numOfRules + Cardinality(loud) <= Share
        /\ inbox + Cardinality(due) + Cardinality(loud) <= Total(file_path)
    BY DEF IInv, Counted
  <2>2. /\ numOfRules' + Cardinality(loud) <= Share
        /\ inbox' + Cardinality(due) + Cardinality(loud) <= Total(file_path)
    BY <1>1, <1>2, <2>1
  <2> QED BY <2>2 DEF IInv, Counted, Await
<1>5. OneFile'
  BY DEF IInv, OneFile, Await
<1>6. InOrder'
  <2> SUFFICES ASSUME ~late' PROVE InOrder'
    BY DEF InOrder
  <2>1. ~late /\ inbox' = inbox - 1
    BY DEF Await
  <2>2. inbox' + Cardinality(due) <= numOfRules'
    BY <1>1, <1>2, <2>1 DEF IInv, InOrder
  <2> QED BY <2>1, <2>2 DEF IInv, InOrder, Await
<1> QED BY <1>3, <1>4, <1>5, <1>6 DEF IInv

\* Nothing is waited for: unless something was late, nothing is due.
LEMMA RemoveGood == IInv /\ Remove => IInv'
<1> SUFFICES ASSUME IInv, Remove PROVE IInv'
  OBVIOUS
<1>1. Types' /\ Counted'
  BY DEF IInv, Types, Counted, Remove
<1>2. OneFile'
  BY DEF IInv, OneFile, Remove
<1>3. InOrder'
  BY DEF IInv, InOrder, Remove
<1> QED BY <1>1, <1>2, <1>3 DEF IInv

\* A reply is a message for an event.
LEMMA RepliesGood == IInv /\ CoreReplies => IInv'
<1> SUFFICES ASSUME IInv, CoreReplies PROVE IInv'
  OBVIOUS
<1>1. PICK e \in due : due' = due \ {e}
  BY DEF CoreReplies
<1>2. /\ IsFiniteSet(due') /\ Cardinality(due') = Cardinality(due) - 1
      /\ Cardinality(due) \in Nat /\ Cardinality(due') \in Nat
  BY <1>1, FS_RemoveElement, NoneLeft DEF IInv, Types
<1>3. inbox \in Nat /\ inbox' \in Nat /\ inbox' <= inbox + 1 /\ numOfRules \in Nat
  BY DEF CoreReplies, IInv, Types
<1>4. Types'
  BY <1>1, <1>2, <1>3 DEF IInv, Types, CoreReplies
<1>5. Counted'
  <2>1. inbox + Cardinality(due) + Cardinality(loud) <= Total(file_path)
    BY DEF IInv, Counted
  <2>2. Cardinality(loud) \in Nat /\ Total(file_path) \in Nat
    BY RulesFinite, TotalGrows DEF IInv, Types
  <2>3. inbox' + Cardinality(due') + Cardinality(loud) <= Total(file_path)
    BY <1>2, <1>3, <2>1, <2>2
  <2> QED BY <2>3 DEF IInv, Counted, CoreReplies
<1>6. OneFile'
  BY DEF IInv, OneFile, CoreReplies
<1>7. InOrder'
  <2> SUFFICES ASSUME ~late PROVE InOrder'
    BY DEF InOrder, CoreReplies
  <2>1. inbox' + Cardinality(due') <= numOfRules
    BY <1>2, <1>3 DEF IInv, InOrder
  <2> QED BY <1>1, <2>1 DEF IInv, InOrder, CoreReplies
<1> QED BY <1>4, <1>5, <1>6, <1>7 DEF IInv

LEMMA EndsGood == IInv /\ ProcessEnds => IInv'
<1> SUFFICES ASSUME IInv, ProcessEnds PROVE IInv'
  OBVIOUS
<1>1. Types'
  BY DEF IInv, Types, ProcessEnds
<1>2. Counted'
  <2>1. /\ Cardinality(loud') = 0 /\ Cardinality(loud) \in Nat /\ Cardinality(due) \in Nat
        /\ inbox \in Nat /\ Total(file_path) \in Nat /\ Share \in Nat
    BY FS_EmptySet, RulesFinite, NoneLeft, TotalGrows DEF IInv, Types, ProcessEnds
  <2>2. inbox + Cardinality(due) + Cardinality(loud) <= Total(file_path)
    BY DEF IInv, Counted
  <2>3. inbox + Cardinality(due) + 0 <= Total(file_path)
    BY <2>1, <2>2
  <2> QED BY <2>1, <2>3 DEF Counted, ProcessEnds
<1>3. OneFile' /\ InOrder'
  BY DEF IInv, OneFile, InOrder, ProcessEnds
<1> QED BY <1>1, <1>2, <1>3 DEF IInv

LEMMA NextGood == IInv /\ [Next]_vars => IInv'
<1> SUFFICES ASSUME IInv, [Next]_vars PROVE IInv'
  OBVIOUS
<1>1. CASE UNCHANGED vars
  BY <1>1 DEF IInv, Types, Counted, OneFile, InOrder, vars
<1> QED BY <1>1, StartGood, HearGood, RecordedGood, SendEventGood, AwaitGood, RemoveGood,
           RepliesGood, EndsGood DEF Next, Loop

LEMMA Always == Spec => []IInv
  BY InitGood, NextGood, PTL DEF Spec

-------------------------------------------------------------------------------
(* The theorems *)

\* The counters of the module count what they stand for: no more rules than it
\* has, no more messages than events it raised.
THEOREM TypeCorrect == Spec => []TypeOK
<1>1. ASSUME IInv PROVE TypeOK
  <2>1. /\ Total(file_path) <= Total(MaxFiles) /\ Total(file_path) \in Nat
        /\ Total(MaxFiles) \in Nat
    BY <1>1, TotalGrows, RulesFinite DEF IInv, Types
  <2>2. Cardinality(loud) \in Nat /\ Cardinality(due) \in Nat /\ inbox \in Nat
    BY <1>1, RulesFinite, NoneLeft DEF IInv, Types
  <2>3. inbox + Cardinality(due) <= Total(MaxFiles)
    BY <1>1, <2>1, <2>2 DEF IInv, Counted
  <2> QED BY <1>1, <2>3 DEF IInv, Types, Counted, TypeOK, Total, Share
<1> QED BY <1>1, Always, PTL

\* deleteFile removes no recording that an event due names, as long as no wait
\* timed out and no process ended.
THEOREM RecordingIsKept == Spec => []KeptWhileDue
<1>1. ASSUME IInv, ~late, NEW e \in due PROVE e[2] \in files
  <2>1. /\ e[2] = file_path /\ inbox + Cardinality(due) <= numOfRules
        /\ pc \in {"recording", "rules", "delete"} => file_path \in files
    BY <1>1 DEF IInv, InOrder
  <2>2. numOfRules # 0
    <3>1. due # {} /\ Cardinality(due) \in Nat /\ inbox \in Nat /\ numOfRules \in Nat
      BY <1>1, NoneLeft DEF IInv, Types
    <3> QED BY <1>1, <2>1, <3>1, NoneLeft DEF IInv, Types
  <2> QED BY <1>1, <2>1, <2>2 DEF IInv, Types, Counted
<1>2. IInv => KeptWhileDue
  BY <1>1 DEF KeptWhileDue
<1> QED BY <1>2, Always, PTL

\* Whatever happens, deleteTmpFiles and deleteFile leave one recording at most.
THEOREM OneIsEnough == Spec => []OneRecording
<1>1. ASSUME IInv PROVE OneRecording
  <2>1. files = {} \/ files = {file_path}
    BY <1>1 DEF IInv, OneFile
  <2> QED BY <2>1, FS_EmptySet, FS_Singleton DEF OneRecording
<1> QED BY <1>1, Always, PTL
===============================================================================
