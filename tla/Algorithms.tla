----------------------------- MODULE Algorithms -----------------------------
(***************************************************************************)
(* What the algorithms of Config and Wav have to get right, whatever files *)
(* and blocks of samples they are given: one step picks an input of one of *)
(* the kinds.  MCAlgorithms has inputs for TLC.                            *)
(***************************************************************************)
EXTENDS Config, Wav

CONSTANTS
    RuleFiles,     \* what rules.conf may hold
    Modules,       \* the modules that read it, beside the core
    UserFiles,     \* what the .config file of the video module may hold
    InfoFile,      \* module_video.info
    Recordings,    \* the blocks of samples that a recording is made of
    FRAMES_PER_BUFFER,
    Cuts           \* files that are cut off, and where

VideoKeys == {"video", "processing_rate", "backgroundsubtractor_type",
              "backgroundsubtractor_threshold", "backgroundsubtractor_shadow"}
             \union RateKeys \union DetectorKeys

(* What module_video.info offers for a setting.                            *)
Accepts(key) ==
    IF key = "video" THEN (Digits \intersect Convertible) \union Urls
    ELSE IF key = "backgroundsubtractor_type" THEN {"1", "2"}
    ELSE IF key = "backgroundsubtractor_shadow" THEN {"true", "false"}
    ELSE Convertible

(* A JSON array is a list of values.                                       *)
IsList(items) ==
    /\ Len(items) \in Nat
    /\ items = [i \in 1..Len(items) |-> items[i]]

Lists(file, key) ==
    Has(file, "ARRAY_", key) => IsList(Get(file, key).items)

(* The core's name is none of a module.                                    *)
ASSUME ModuleAssumption == "main" \notin Modules

ASSUME RuleAssumption == \A f \in RuleFiles : Lists(f, "rules")

(* Every setting has a default that is one of those on offer.              *)
ASSUME InfoAssumption ==
    /\ Lists(InfoFile, "configuration")
    /\ LET entries == Entries(InfoFile, "configuration")
       IN  /\ \A i \in DOMAIN entries :
                /\ HasTexts(entries[i], {"key", "default"})
                /\ Text(entries[i], "default")
                        \in Accepts(Text(entries[i], "key"))
           /\ \A k \in VideoKeys :
                \E i \in DOMAIN entries : Text(entries[i], "key") = k

(* Samples are the 16 bits of a short; the size of a file fits the long of *)
(* its header.                                                             *)
ASSUME BlockAssumption ==
    /\ FRAMES_PER_BUFFER \in Nat \ {0}
    /\ \A b \in Recordings :
         /\ IsList(b)
         /\ \A i \in 1..Len(b) : IsList(b[i]) /\ Len(b[i]) = FRAMES_PER_BUFFER
         /\ \A i \in 1..Len(b) : \A j \in 1..FRAMES_PER_BUFFER :
                b[i][j] \in Nat /\ b[i][j] < 65536
         /\ HeaderSize + 2 * (Len(b) * FRAMES_PER_BUFFER) <= 2147483647

VARIABLE input

Init == input = [kind |-> "none"]

PickRuleFile == \E f \in RuleFiles : input' = [kind |-> "rules", file |-> f]

PickUserFile == \E f \in UserFiles : input' = [kind |-> "user", file |-> f]

PickBlocks == \E b \in Recordings : input' = [kind |-> "blocks", blocks |-> b]

PickCut ==
    \E c \in Cuts :
        input' = [kind |-> "cut", file |-> c.file, length |-> c.length]

Next ==
    /\ input.kind = "none"
    /\ PickRuleFile \/ PickUserFile \/ PickBlocks \/ PickCut

Spec == Init /\ [][Next]_input

-----------------------------------------------------------------------------
(* Properties                                                              *)

(* Events and actions carry a rule's id between processes that have read   *)
(* rules.conf each for themselves (ruleengine.cpp:224, module.cpp:65): a   *)
(* file that the core can read makes no module exit (configloader.cpp:158);*)
(* an id is the same rule, with the same event and action, for the core    *)
(* and for the modules; and a module has those rules that it raises or     *)
(* serves, in the order of the file, whatever else is in it.               *)
RulesAgree ==
    input.kind = "rules" =>
        LET core == GetRules(input.file, "main")
            Own(m) == GetRules(input.file, m)
            Rules(read) == {read.rules[i] : i \in DOMAIN read.rules}
            InOrder(read) == \A i, j \in DOMAIN read.rules :
                                i < j => read.rules[i].id < read.rules[j].id
        IN  core.ok =>
                /\ InOrder(core)
                /\ \A m \in Modules :
                     /\ Own(m).ok
                     /\ InOrder(Own(m))
                     /\ Rules(Own(m)) = {r \in Rules(core) :
                                            m \in {r.event.module, r.action.module}}

(* A user's file that leaves settings out, or leaves them blank, and whose *)
(* other settings are what module_video.info offers, never stops the video *)
(* module from starting and never gives it a camera or a detector that is  *)
(* not there (configloader.cpp:59, engine.cpp:258, 289).                   *)
DefaultsSuffice ==
    input.kind = "user" =>
        LET entries == Entries(input.file, "configuration")
            stated == Stated(input.file)
        IN  /\ \A i \in DOMAIN entries : HasTexts(entries[i], {"key", "value"})
            /\ \A k \in DOMAIN stated : stated[k] \in Accepts(k) \union {""}
            => Configure(GetConfig(input.file, InfoFile)) = "running"

(* The enabled rules of the video module that watch for the same thing end *)
(* up in one route, with each rule's own action and no others, and no two  *)
(* routes watch for the same; a disabled rule is in none (engine.cpp:316). *)
(* The module starts exactly when each of them says a number of outputs    *)
(* and, if it says a region, one that boost can read (engine.cpp:353-418). *)
RoutesPartition ==
    input.kind = "rules" =>
        LET rules == GetRules(input.file, "module_video").rules
            applied == ApplyRules(input.file)
            routes == applied.routes
            on == {i \in DOMAIN rules : rules[i].is_disabled # "true"}
            conf(i) == rules[i].event.configuration
            Served(q) == {i \in on : SameEvent(routes[q], rules[i])}
        IN  GetRules(input.file, "module_video").ok =>
                /\ \A i \in on : \E q \in DOMAIN routes : i \in Served(q)
                /\ \A q, p \in DOMAIN routes :
                     SameEvent(routes[q], routes[p]) => q = p
                /\ \A q \in DOMAIN routes :
                     /\ \E i \in Served(q) : routes[q].event = rules[i].event
                     /\ DOMAIN routes[q].actions = {rules[i].id : i \in Served(q)}
                     /\ \A i \in Served(q) :
                          routes[q].actions[rules[i].id] = rules[i].action
                /\ applied.enabled = (on # {})
                /\ applied.ok = \A i \in on :
                     /\ "video_output_number" \in DOMAIN conf(i)
                     /\ conf(i)["video_output_number"] \in Convertible
                     /\ "collider_rio" \in DOMAIN conf(i) =>
                          conf(i)["collider_rio"] \in Geometries \union {""}

(* How a player reads a long or a short at an offset.                      *)
ShortAt(file, offset) == file[offset + 1] + 256 * file[offset + 2]
LongAt(file, offset) ==
    ShortAt(file, offset) + 65536 * ShortAt(file, offset + 2)

(* A recording that an event announces is a file a player accepts: the     *)
(* sizes in the header are those of the file and of its samples, and the   *)
(* samples are those that were heard, block after block, the loud one      *)
(* first (noise_detection_module.cpp:66, pa_write_wav.cpp:146).            *)
WavReads ==
    input.kind = "blocks" =>
        LET file == Recording(input.blocks)
        IN  /\ Len(file) = 44 + 2 * (Len(input.blocks) * FRAMES_PER_BUFFER)
            /\ LongAt(file, 4) = Len(file) - 8
            /\ LongAt(file, 40) = Len(file) - 44
            /\ LongAt(file, 28) = LongAt(file, 24) * ShortAt(file, 32)
            /\ \A i \in 1..Len(input.blocks), j \in 1..FRAMES_PER_BUFFER :
                 ShortAt(file, 44 + 2 * ((i - 1) * FRAMES_PER_BUFFER + j - 1))
                    = input.blocks[i][j]
=============================================================================
