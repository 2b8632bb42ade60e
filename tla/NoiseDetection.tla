---------------------------- MODULE NoiseDetection ----------------------------
(***************************************************************************)
(* The noise detection module (noise_detection_module.cpp).  It listens;   *)
(* when a sound is louder than a rule's threshold it records a few seconds *)
(* to a file, raises an event for each such rule, and has deleteFile wait  *)
(* for as many messages, 30 seconds each, before the file is removed.      *)
(* deleteFile is started with std::async, but the future is destroyed at   *)
(* the end of its block (line 307), which waits for it: there is one       *)
(* thread of control.  It does not look at the messages it receives.       *)
(*                                                                         *)
(* The sound is an input: any set of rules may find it loud, disabled ones *)
(* included (their events the core aborts).  Replies are counted, not told *)
(* apart, as deleteFile does.                                              *)
(*                                                                         *)
(* An operator X_Y beside an operator X is X with a plausible mistake Y; no *)
(* action uses it.  It is there to see a property of the code fail.        *)
(***************************************************************************)
EXTENDS Naturals, FiniteSets

CONSTANTS
  rules_,       \* the rules of this module
  MaxFiles      \* bound: recordings

ASSUME NoiseAssumption == IsFiniteSet(rules_) /\ MaxFiles \in Nat

VARIABLES
  pc,           \* "down", "listen", "recording", "rules" or "delete"
  file_path,    \* number of the last recording; file names hold the time
  loud,         \* rules that find the sound loud and have not raised an event
  numOfRules,   \* events raised for it, then messages deleteFile waits for
  files,        \* recordings on disk
  due,          \* events the core has yet to reply to: rule and file
  inbox         \* messages in the module's queue; it outlives the process

\* What happened, for the properties.
VARIABLE late   \* a wait timed out, or a process ended

vars == <<pc, file_path, loud, numOfRules, files, due, inbox, late>>

Init ==
  /\ pc = "down"
  /\ file_path = 0
  /\ loud = {}
  /\ numOfRules = 0
  /\ files = {}
  /\ due = {}
  /\ inbox = 0
  /\ late = FALSE

-------------------------------------------------------------------------------
\* The process starts: deleteTmpFiles, the calibration, the first heartbeats.
Start_KeepsFiles ==
  /\ pc = "down"
  /\ pc' = "listen"
  /\ UNCHANGED <<file_path, loud, numOfRules, files, due, inbox, late>>

Start ==
  /\ pc = "down"
  /\ pc' = "listen"
  /\ files' = {}
  /\ UNCHANGED <<file_path, loud, numOfRules, due, inbox, late>>

\* A block of samples that is loud for some rules: the first of them has the file
\* generated.  What the microphone gives meanwhile goes into the file.
Hear ==
  /\ pc = "listen"
  /\ file_path < MaxFiles
  /\ loud' \in SUBSET rules_ \ {{}}
  /\ pc' = "recording"
  /\ file_path' = file_path + 1
  /\ files' = files \cup {file_path'}
  /\ UNCHANGED <<numOfRules, due, inbox, late>>

\* Audio_WAV_CloseWriter; a write that fails ends the process.
Recorded ==
  /\ pc = "recording"
  /\ pc' = "rules"
  /\ UNCHANGED <<file_path, loud, numOfRules, files, due, inbox, late>>

\* One round of the loop over the rules: the rule counts even if its event was
\* dropped, because the module is flooding or the core queue is full.
SendEvent_Again(r) ==
  /\ pc = "rules"
  /\ r \in loud
  /\ numOfRules' = numOfRules + 1
  /\ due' \in {due, due \cup {<<r, file_path>>}}
  /\ UNCHANGED <<pc, file_path, loud, files, inbox, late>>

SendEvent(r) ==
  /\ pc = "rules"
  /\ r \in loud
  /\ loud' = loud \ {r}
  /\ numOfRules' = numOfRules + 1
  /\ due' \in {due, due \cup {<<r, file_path>>}}
  /\ UNCHANGED <<pc, file_path, files, inbox, late>>

AllSent ==
  /\ pc = "rules"
  /\ loud = {}
  /\ pc' = "delete"
  /\ UNCHANGED <<file_path, loud, numOfRules, files, due, inbox, late>>

\* deleteFile, one round of its loop: any message will do, and so will none.
Await_Forever ==
  /\ pc = "delete"
  /\ numOfRules > 0
  /\ inbox > 0
  /\ inbox' = inbox - 1
  /\ numOfRules' = numOfRules - 1
  /\ UNCHANGED <<pc, file_path, loud, files, due, late>>

Await ==
  /\ pc = "delete"
  /\ numOfRules > 0
  /\ numOfRules' = numOfRules - 1
  /\ \/ inbox > 0 /\ inbox' = inbox - 1 /\ UNCHANGED late
     \/ inbox = 0 /\ late' = TRUE /\ UNCHANGED inbox
  /\ UNCHANGED <<pc, file_path, loud, files, due>>

\* The end of deleteFile: "Delete the file in any case".
Remove_AtFirstReply ==
  /\ pc = "delete"
  /\ files' = files \ {file_path}
  /\ pc' = IF numOfRules = 0 THEN "listen" ELSE pc
  /\ UNCHANGED <<file_path, loud, numOfRules, due, inbox, late>>

Remove ==
  /\ pc = "delete"
  /\ numOfRules = 0
  /\ files' = files \ {file_path}
  /\ pc' = "listen"
  /\ UNCHANGED <<file_path, loud, numOfRules, due, inbox, late>>

\* The core acknowledges or aborts an event; its reply is lost when the queue is full.
CoreReplies ==
  /\ \E e \in due : due' = due \ {e}
  /\ inbox' \in {inbox, inbox + 1}
  /\ UNCHANGED <<pc, file_path, loud, numOfRules, files, late>>

\* The process ends by itself, or the watchdog kills it: deleteFile sends no
\* heartbeat while it waits.
ProcessEnds ==
  /\ pc # "down"
  /\ pc' = "down"
  /\ loud' = {}
  /\ numOfRules' = 0
  /\ late' = TRUE
  /\ UNCHANGED <<file_path, files, due, inbox>>

Loop == Start \/ Recorded \/ (\E r \in rules_ : SendEvent(r)) \/ AllSent
          \/ Await \/ Remove

Next == Loop \/ Hear \/ CoreReplies \/ ProcessEnds

\* The process is scheduled, its waits time out, and the watchdog forks a process
\* that ended again.  Nothing is assumed of the core.
Spec     == Init /\ [][Next]_vars
FairSpec == Spec /\ WF_vars(Loop)

-------------------------------------------------------------------------------
(* Properties                                                              *)

\* Counters count what they stand for: never more messages than events raised.
TypeOK ==
  /\ pc \in {"down", "listen", "recording", "rules", "delete"}
  /\ file_path \in 0 .. MaxFiles
  /\ loud \subseteq rules_
  /\ numOfRules + Cardinality(loud) <= Cardinality(rules_)
  /\ due \subseteq rules_ \X (1 .. file_path)
  /\ inbox + Cardinality(due) <= MaxFiles * Cardinality(rules_)
  /\ late \in BOOLEAN

\* "wait for all to be acknowledged before deleting the file"
\* (noise_detection_module.h:45): as long as no wait has timed out and no process
\* has ended before, a file is there while an event with it is
\* due.  Afterwards it need not be: messages that come late are counted for the
\* next file (line 96), which then goes before its own replies.
KeptWhileDue == ~late => \A e \in due : e[2] \in files

\* "Delete the file in any case to prevent memory dump" (line 108): whatever is
\* lost, late or killed half-way, there is never more than one recording.
OneRecording == Cardinality(files) <= 1

\* Nothing that the core or the action modules fail to do stops the module from
\* listening again, unless it is killed.
ListensAgain == []<>(pc \in {"listen", "down"})
================================================================================
