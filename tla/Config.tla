------------------------------- MODULE Config -------------------------------
(***************************************************************************)
(* What the core and the modules make of their configuration files, which  *)
(* every process reads for itself when it starts:                          *)
(*   - getConfig: the user's .config over the defaults of the .info file   *)
(*     (configloader.cpp);                                                 *)
(*   - getRules: the rules of rules.conf, all of them for the core, for a  *)
(*     module those that it raises or serves (configloader.cpp);           *)
(*   - configure, applyRules and addRoute: the video module's settings,    *)
(*     and its routes, one for the rules that watch for the same thing     *)
(*     (engine.cpp).                                                       *)
(*                                                                         *)
(* The files are values of module JsonValue; one that is missing or not    *)
(* JSON is an object with fewer members.  exit(EXIT_FAILURE) is ok =       *)
(* FALSE: a get<T>() that finds nothing throws, and the handler exits; so  *)
(* is the abort that follows from an exception no handler catches.         *)
(* A loop is a function of the number of its iterations.                   *)
(*                                                                         *)
(* Defaulted_OnlyMissing, OwnRules_CountsOwn and Look_SkipsNext are        *)
(* plausible bugs.                                                         *)
(***************************************************************************)
EXTENDS JsonValue, SequencesExt

CONSTANTS
    Digits,        \* the texts that isNumber finds to be digits only
    Convertible,   \* those stoi and stod convert: a number, not too large,
                   \* with anything behind it
    Urls,          \* those that begin like the URL of a camera
    Geometries     \* texts of shapes, one behind each '#', that boost's read_wkt
                   \* can read; what begins like none of the shapes is passed over

ASSUME TextAssumption ==
    /\ "" \notin Convertible
    /\ Digits \intersect Urls = {}

(* The loops run while there is an object at the index: they stop without  *)
(* a word at the first entry that is something else.                       *)
Leading(array) ==
    LET others == {i \in DOMAIN array.items : array.items[i].type # "OBJECT_"}
    IN  IF others = {} THEN array.items
        ELSE SubSeq(array.items, 1, Min(others) - 1)

Entries(file, key) ==
    IF Has(file, "ARRAY_", key) THEN Leading(Get(file, key)) ELSE <<>>

Text(object, key) == Get(object, key).scalar

(* std::map: insert() keeps the entry that is there, operator[] replaces   *)
(* it.                                                                     *)
Inserted(map, key, value) ==
    [k \in DOMAIN map \union {key} |-> IF k \in DOMAIN map THEN map[k] ELSE value]

Assigned(map, key, value) ==
    [k \in DOMAIN map \union {key} |-> IF k = key THEN value ELSE map[k]]

HasTexts(object, keys) == \A k \in keys : Has(object, "STRING_", k)

-----------------------------------------------------------------------------
(* getConfig                                                               *)

NoConfig == [ok |-> FALSE, map |-> NoMap]

Stated(user) ==
    LET entries == Entries(user, "configuration")
        map[i \in 0..Len(entries)] ==
            IF i = 0 THEN NoMap
            ELSE Inserted(map[i - 1], Text(entries[i], "key"),
                          Text(entries[i], "value"))
    IN  map[Len(entries)]

(* A key that is missing, or blank, gets the default, which is asked for   *)
(* only then.                                                              *)
Lacks(map, key) == key \notin DOMAIN map \/ map[key] = ""

Defaulted_OnlyMissing(config, e) ==
    IF ~config.ok \/ ~HasTexts(e, {"key"}) THEN NoConfig
    ELSE IF Text(e, "key") \in DOMAIN config.map THEN config
    ELSE IF ~HasTexts(e, {"default"}) THEN NoConfig
    ELSE [config EXCEPT
            !.map = Assigned(@, Text(e, "key"), Text(e, "default"))]

Defaulted(config, e) ==
    IF ~config.ok \/ ~HasTexts(e, {"key"}) THEN NoConfig
    ELSE IF ~Lacks(config.map, Text(e, "key")) THEN config
    ELSE IF ~HasTexts(e, {"default"}) THEN NoConfig
    ELSE [config EXCEPT
            !.map = Assigned(@, Text(e, "key"), Text(e, "default"))]

GetConfig(user, info) ==
    LET stated == Entries(user, "configuration")
        defaults == Entries(info, "configuration")
        config[i \in 0..Len(defaults)] ==
            IF i > 0 THEN Defaulted(config[i - 1], defaults[i])
            ELSE IF \A j \in DOMAIN stated :
                        HasTexts(stated[j], {"key", "value"})
            THEN [ok |-> TRUE, map |-> Stated(user)] ELSE NoConfig
    IN  config[Len(defaults)]

-----------------------------------------------------------------------------
(* getRules                                                                *)

(* The variables of an event or of an action.                              *)
Readable(part) ==
    /\ HasTexts(part, {"module", "key"})
    /\ Has(part, "ARRAY_", "configuration")
    /\ \A i \in DOMAIN Leading(Get(part, "configuration")) :
         HasTexts(Leading(Get(part, "configuration"))[i], {"id", "value"})

Settings(part) ==
    LET entries == Leading(Get(part, "configuration"))
        map[i \in 0..Len(entries)] ==
            IF i = 0 THEN NoMap
            ELSE Assigned(map[i - 1], Text(entries[i], "id"),
                          Text(entries[i], "value"))
    IN  map[Len(entries)]

Part(part) ==
    [module |-> Text(part, "module"), key |-> Text(part, "key"),
     configuration |-> Settings(part)]

HasParts(rule) ==
    Has(rule, "OBJECT_", "event") /\ Has(rule, "OBJECT_", "action")

(* event.get<String>("module") comes first, and the action's is asked for  *)
(* only when the event is another module's: what an entry lacks matters    *)
(* only to the processes that get as far as reading it.                    *)
Mine(rule, name) ==
    \/ name = "main"
    \/ Text(Get(rule, "event"), "module") = name
    \/ Text(Get(rule, "action"), "module") = name

CanTell(rule, name) ==
    /\ HasParts(rule)
    /\ \/ name = "main"
       \/ /\ HasTexts(Get(rule, "event"), {"module"})
          /\ \/ Text(Get(rule, "event"), "module") = name
             \/ HasTexts(Get(rule, "action"), {"module"})

CanRead(rule) ==
    /\ HasTexts(rule, {"title"})
    /\ Has(rule, "OBJECT_", "constraints")
    /\ Readable(Get(rule, "event"))
    /\ Readable(Get(rule, "action"))

RuleInfo(rule, id) ==
    [id |-> id, title |-> Text(rule, "title"),
     fire_limit |-> GetOr(Get(rule, "constraints"), "NUMBER_",
                          "fire_limit", "0"),
     is_disabled |-> GetOr(Get(rule, "constraints"), "BOOL_",
                           "is_disabled", "false"),
     event |-> Part(Get(rule, "event")), action |-> Part(Get(rule, "action"))]

(* A rule's id is its index in the file, whoever reads it.                 *)
OwnRules_CountsOwn(rules, name) ==
    LET out_rule[i \in 0..Len(rules)] ==
            IF i = 0 THEN <<>>
            ELSE IF Mine(rules[i], name)
            THEN Append(out_rule[i - 1],
                        RuleInfo(rules[i], Len(out_rule[i - 1])))
            ELSE out_rule[i - 1]
    IN  out_rule[Len(rules)]

OwnRules(rules, name) ==
    LET out_rule[i \in 0..Len(rules)] ==
            IF i = 0 THEN <<>>
            ELSE IF Mine(rules[i], name)
            THEN Append(out_rule[i - 1], RuleInfo(rules[i], i - 1))
            ELSE out_rule[i - 1]
    IN  out_rule[Len(rules)]

GetRules(file, name) ==
    LET rules == Entries(file, "rules")
    IN  IF /\ Has(file, "ARRAY_", "rules")
           /\ \A i \in DOMAIN rules :
                /\ CanTell(rules[i], name)
                /\ Mine(rules[i], name) => CanRead(rules[i])
        THEN [ok |-> TRUE, rules |-> OwnRules(rules, name)]
        ELSE [ok |-> FALSE, rules |-> <<>>]

-----------------------------------------------------------------------------
(* The video module.                                                       *)

Converts(map, key) == key \in DOMAIN map /\ map[key] \in Convertible

(* The pointer cam_ is set for a number and for a URL only; it is used     *)
(* whatever it holds.  A device number that is too large throws past the   *)
(* handler, which catches what OpenCV throws.                              *)
Device(text) ==
    IF text \in Digits
    THEN IF text \in Convertible THEN "opened" ELSE "aborts"
    ELSE IF text \in Urls THEN "opened" ELSE "wild pointer"

RateKeys == {"grab_rate", "cam_id"}
DetectorKeys == {"height_frame", "width_frame", "backgroundsubtractor_history",
                 "motion_detector_blursize", "motion_detector_threshold",
                 "motion_detector_dilationiterations",
                 "motion_detector_dilationsize",
                 "motion_detector_contoursthreshold"}

(* Without a detector the module runs into a null pointer at its first     *)
(* frame.                                                                  *)
Detector(map) ==
    IF map["backgroundsubtractor_type"] = "1" THEN "running"
    ELSE IF map["backgroundsubtractor_type"] # "2" THEN "no detector"
    ELSE IF /\ "backgroundsubtractor_shadow" \in DOMAIN map
            /\ Converts(map, "backgroundsubtractor_threshold")
    THEN "running" ELSE "exit"

Configure(config) ==
    LET map == config.map
    IN  IF \/ ~config.ok
           \/ ~Converts(map, "processing_rate")
           \/ "video" \notin DOMAIN map
           \/ \E k \in RateKeys : ~Converts(map, k) THEN "exit"
        ELSE IF Device(map["video"]) # "opened" THEN Device(map["video"])
        ELSE IF \/ \E k \in DetectorKeys : ~Converts(map, k)
                \/ "backgroundsubtractor_type" \notin DOMAIN map THEN "exit"
        ELSE Detector(map)

(* addRoute: the collider and the highlighter a route gets, and its output *)
(* with the actions of its rules; operator[] makes a missing key blank.  A *)
(* shape that read_wkt cannot read aborts the module, since the handler    *)
(* catches only std::out_of_range; a number of outputs that stod cannot    *)
(* convert makes it exit.                                                  *)
AddRoute(event, actions) ==
    LET conf(key) == IF key \in DOMAIN event.configuration
                     THEN event.configuration[key] ELSE ""
    IN  [ok |-> /\ conf("collider_rio") \in Geometries \union {""}
                /\ conf("video_output_number") \in Convertible,
         event |-> event, actions |-> actions,
         collider |-> conf("collider_rio") # "",
         highlighter |-> conf("highlighter") = "true"]

(* The scan takes out the rules that watch for what rule r watches for;    *)
(* after an erase the index stays, since the next rule has moved up.  s is *)
(* the state of the loop; it ends when i has come to the end.              *)
SameEvent(r, q) == /\ r.event.key = q.event.key
                   /\ r.event.configuration = q.event.configuration

Look_SkipsNext(r, s) ==
    IF s.i > Len(s.rules) THEN s
    ELSE IF SameEvent(r, s.rules[s.i])
    THEN [rules |-> RemoveAt(s.rules, s.i), i |-> s.i + 1,
          actions |-> Assigned(s.actions, s.rules[s.i].id,
                               s.rules[s.i].action)]
    ELSE [s EXCEPT !.i = @ + 1]

Look(r, s) ==
    IF s.i > Len(s.rules) THEN s
    ELSE IF SameEvent(r, s.rules[s.i])
    THEN [rules |-> RemoveAt(s.rules, s.i), i |-> s.i,
          actions |-> Assigned(s.actions, s.rules[s.i].id,
                               s.rules[s.i].action)]
    ELSE [s EXCEPT !.i = @ + 1]

Scan(r, rules) ==
    LET s[n \in 0..Len(rules)] ==
            IF n > 0 THEN Look(r, s[n - 1])
            ELSE [rules |-> rules, i |-> 1,
                  actions |-> Assigned(NoMap, r.id, r.action)]
    IN  s[Len(rules)]

(* Every turn of the outer loop takes the last rule, those that the scan   *)
(* finds for it, and makes a route of them.                                *)
Combine(s) ==
    IF s.rules = <<>> THEN s
    ELSE LET r == Last(s.rules)
             scanned == Scan(r, Front(s.rules))
         IN  [rules |-> scanned.rules,
              routes |-> Append(s.routes, AddRoute(r.event, scanned.actions))]

Routes(rules) ==
    LET s[n \in 0..Len(rules)] ==
            IF n = 0 THEN [rules |-> rules, routes |-> <<>>]
            ELSE Combine(s[n - 1])
    IN  s[Len(rules)].routes

Enabled(rules) ==
    LET kept[i \in 0..Len(rules)] ==
            IF i = 0 THEN <<>>
            ELSE IF rules[i].is_disabled = "true" THEN kept[i - 1]
            ELSE Append(kept[i - 1], rules[i])
    IN  kept[Len(rules)]

(* Disabled rules are filtered out first; with no rule left the module     *)
(* idles, and a route that cannot be built ends it.                        *)
ApplyRules(file) ==
    LET read == GetRules(file, "module_video")
        routes == Routes(Enabled(read.rules))
    IN  [ok |-> read.ok /\ \A i \in DOMAIN routes : routes[i].ok,
         enabled |-> Enabled(read.rules) # <<>>, routes |-> routes]
=============================================================================
