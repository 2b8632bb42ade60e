---------------------------- MODULE MCAlgorithms ----------------------------
(* Inputs for Algorithms, and the files that are read while they are       *)
(* written, which only the parser of Json can tell from whole ones.        *)
EXTENDS Algorithms, Json

Huge == "99999999999"
MCDigits == {"0", "1", "2", "3", "40", "1000", Huge}
MCConvertible == (MCDigits \ {Huge}) \union {"5cm"}
MCUrls == {"http://cam", "rtsp://cam"}
MCGeometries == {"BOX(0 0,1 1)"}

Map(keys, texts) == [i \in {keys[j] : j \in DOMAIN keys} |->
                        texts[CHOOSE j \in DOMAIN keys : keys[j] = i]]
Entry(key, text, field) ==
    Obj(Map(<<key, field>>, <<Str(text[1]), Str(text[2])>>))

-----------------------------------------------------------------------------
(* rules.conf: what a rule may look like, and what may be wrong with it.   *)

PartOf(module, id) ==
    Obj("module" :> Str(module) @@ "key" :> Str("k")
        @@ "configuration" :> Arr(<<Entry("id", <<id, "v">>, "value")>>))

Rule(from, to) ==
    Obj("title" :> Str("t") @@ "constraints" :> Obj("fire_limit" :> Num("2"))
        @@ "event" :> PartOf(from, "a") @@ "action" :> PartOf(to, "b"))

Without(object, key) ==
    Obj([k \in DOMAIN object.map \ {key} |-> object.map[k]])

With(object, key, value) == Obj((key :> value) @@ object.map)

RuleEntries ==
    {Rule(m, n) : m, n \in {"A", "B"}}
    \union {Without(Rule("A", "B"), "title"),
            Without(Rule("A", "A"), "constraints"),
            Without(Rule("B", "A"), "event"),
            With(Rule("B", "A"), "action", Without(PartOf("A", "b"), "module")),
            With(Rule("A", "B"), "event",
                 With(PartOf("A", "a"), "configuration", Arr(<<Null>>))),
            Num("1")}

ModuleFiles ==
    {Obj("rules" :> Arr(e)) : e \in UNION {[1..n -> RuleEntries] : n \in 0..3}}

TwoRules == Obj("rules" :> Arr(<<Rule("A", "B"), Rule("B", "A")>>))

-----------------------------------------------------------------------------
(* module_video.info: the keys, their defaults, and what they accept.      *)

Offered == <<"video", "cam_id", "grab_rate", "processing_rate",
    "width_frame", "height_frame", "backgroundsubtractor_type",
    "backgroundsubtractor_history", "backgroundsubtractor_threshold",
    "backgroundsubtractor_shadow", "motion_detector_blursize",
    "motion_detector_threshold", "motion_detector_dilationiterations",
    "motion_detector_dilationsize", "motion_detector_contoursthreshold">>

VideoDefault(key) ==
    CASE key = "backgroundsubtractor_type" -> "2"
      [] key = "backgroundsubtractor_shadow" -> "false"
      [] key = "motion_detector_contoursthreshold" -> "1000"
      [] key = "video" -> "0"
      [] OTHER -> "40"

VideoInfo ==
    Obj("configuration" :> Arr([i \in DOMAIN Offered |->
        Entry("key", <<Offered[i], VideoDefault(Offered[i])>>, "default")]))

Texts == {"", "1", "3", "5cm", Huge, "http://cam", "true", "/dev/video0"}

MCUserFiles ==
    LET stated == {Entry("key", <<Offered[i], t>>, "value") :
                        i \in DOMAIN Offered, t \in Texts}
    IN  {Obj("configuration" :> Arr(e)) :
            e \in UNION {[1..n -> stated] : n \in 0..2}}

UserFile == Obj("configuration" :> Arr(
    <<Entry("key", <<"video", "3">>, "value"),
      Entry("key", <<"cam_id", "">>, "value")>>))

-----------------------------------------------------------------------------
(* The rules of the video module: what they watch for, and if they are on. *)

Watching(numbers, rio, disabled, nr) ==
    Obj("title" :> Str("t")
        @@ "constraints" :> Obj("is_disabled" :> Bool(disabled))
        @@ "event" :> Obj("module" :> Str("module_video")
            @@ "key" :> Str("motion_detection")
            @@ "configuration" :> Arr(
                <<Entry("id", <<"video_output_number", numbers>>, "value"),
                  Entry("id", <<"collider_rio", rio>>, "value")>>))
        @@ "action" :> Obj("module" :> Str("A") @@ "key" :> Str(nr)
            @@ "configuration" :> Arr(<<>>)))

VideoFiles ==
    LET infos == {"", "BOX(0 0,1 1)"} \X {"40", ""} \X {"true", "false"}
                 \union {"BOX(0 0"} \X {"40"} \X {"true", "false"}
        Nr == <<"k1", "k2", "k3", "k4">>
    IN  {Obj("rules" :> Arr([i \in DOMAIN l |->
                Watching(l[i][2], l[i][1], l[i][3], Nr[i])])) :
            l \in UNION {[1..n -> infos] : n \in 0..4}}

MCRuleFiles == ModuleFiles \union VideoFiles

-----------------------------------------------------------------------------
Blocks == {<<0, 1>>, <<255, 256>>, <<32767, 32768>>, <<65535, 4660>>}

MCRecordings == UNION {[1..n -> Blocks] : n \in 1..4}

MCCuts == UNION {{[file |-> f, length |-> n] : n \in 0..Len(Write(f))} :
                    f \in {TwoRules, UserFile}}

-----------------------------------------------------------------------------
(* A file that a process reads while it is being written ends anywhere.    *)
(* The parser keeps what it has read of the outermost object and the       *)
(* callers ignore that it failed (configloader.cpp:30, 164), yet nobody    *)
(* ever starts with half of the rules or with half of the user's settings: *)
(* a list that was cut off is not there at all, so that getRules exits and *)
(* getConfig takes all the defaults.  The whole file is read as it was     *)
(* written.                                                                *)
AllOrNothing ==
    input.kind = "cut" =>
        LET text == Write(input.file)
            read == ParseObject(SubSeq(text, 1, input.length), 1)
        IN  /\ \A m \in {"main", "A", "B"} :
                 GetRules(read.value, m) \in
                    {GetRules(input.file, m), GetRules(Obj(NoMap), m)}
            /\ GetConfig(read.value, InfoFile) \in
                 {GetConfig(input.file, InfoFile),
                  GetConfig(Obj(NoMap), InfoFile)}
            /\ input.length = Len(text) =>
                 read = Parsed(Len(text) + 1, input.file)
=============================================================================
