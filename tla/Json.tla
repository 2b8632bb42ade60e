-------------------------------- MODULE Json --------------------------------
(***************************************************************************)
(* The JSON parser of lib_module/jsonxx.cpp, as the system builds it       *)
(* (permissive, no unquoted keys): a recursive descent over a stream that  *)
(* may end anywhere, because the files it reads are replaced by hand and   *)
(* by the web interface while the modules run.                             *)
(*                                                                         *)
(* The stream is a sequence of tokens.  White space and comments, which    *)
(* match() skips, are no tokens; the text of a string or of a number is    *)
(* one token, so the escapes that parse_string undoes and stream_string    *)
(* adds are not modelled.  A parsing function returns where the stream     *)
(* stands afterwards also when it fails: the code consumes what it has     *)
(* matched and does not go back.                                           *)
(*                                                                         *)
(* ParseItems_NeedsNoEnd is a plausible bug.                               *)
(***************************************************************************)
EXTENDS JsonValue, SequencesExt, TLC

-----------------------------------------------------------------------------
(* The stream.                                                             *)

Token(kind, text) == [kind |-> kind, text |-> text]

Peek(s, at) == IF at <= Len(s) THEN s[at].kind ELSE "eof"

Parsed(at, value) == [ok |-> TRUE, at |-> at, value |-> value]
Failed(at, value) == [ok |-> FALSE, at |-> at, value |-> value]

(* The strings, numbers and words are tried one after the other; each      *)
(* leaves the stream where it was when it does not match.                  *)
Scalar(s, at) ==
    CASE Peek(s, at) = "string" -> Parsed(at + 1, Str(s[at].text))
      [] Peek(s, at) = "number" -> Parsed(at + 1, Num(s[at].text))
      [] Peek(s, at) \in {"true", "false"} ->
            Parsed(at + 1, Bool(Peek(s, at)))
      [] Peek(s, at) = "null" -> Parsed(at + 1, Null)
      [] Peek(s, at) = "," -> Parsed(at, Null)  \* permissive: [1,,2]
      [] OTHER -> Failed(at, Null)

RECURSIVE ParseValue(_, _), ParseItems(_, _, _), ParseMembers(_, _, _)

ParseArray(s, at) ==
    CASE Peek(s, at) # "[" -> Failed(at, Arr(<<>>))
      [] Peek(s, at + 1) = "]" -> Parsed(at + 2, Arr(<<>>))
      [] OTHER -> ParseItems(s, at + 1, <<>>)

ParseObject(s, at) ==
    CASE Peek(s, at) # "{" -> Failed(at, Obj(NoMap))
      [] Peek(s, at + 1) = "}" -> Parsed(at + 2, Obj(NoMap))
      [] OTHER -> ParseMembers(s, at + 1, NoMap)

(* An array that fails to parse has consumed what it matched, and an       *)
(* object is then tried where the array gave up.                           *)
ParseValue(s, at) ==
    LET scalar == Scalar(s, at)
        array == ParseArray(s, at)
    IN  IF scalar.ok THEN scalar
        ELSE IF array.ok THEN array
        ELSE ParseObject(s, array.at)

(* A value that does not parse ends the list without a complaint: a comma  *)
(* before the bracket is accepted.                                         *)
ParseItems_NeedsNoEnd(s, at, items) ==
    LET v == ParseValue(s, at)
        read == IF v.ok THEN Append(items, v.value) ELSE items
    IN  CASE v.ok /\ Peek(s, v.at) = "," -> ParseItems(s, v.at + 1, read)
          [] Peek(s, v.at) = "]" -> Parsed(v.at + 1, Arr(read))
          [] OTHER -> Parsed(v.at, Arr(read))

ParseItems(s, at, items) ==
    LET v == ParseValue(s, at)
        read == IF v.ok THEN Append(items, v.value) ELSE items
    IN  CASE v.ok /\ Peek(s, v.at) = "," -> ParseItems(s, v.at + 1, read)
          [] Peek(s, v.at) = "]" -> Parsed(v.at + 1, Arr(read))
          [] OTHER -> Failed(v.at, Arr(read))

(* A failed object keeps the members it has read: the caller of the        *)
(* outermost parse() ignores the result and uses them.                     *)
ParseMembers(s, at, map) ==
    LET v == ParseValue(s, at + 2)
        read == IF v.ok THEN (s[at].text :> v.value) @@ map ELSE map
    IN  CASE Peek(s, at) = "}" -> Parsed(at + 1, Obj(map))
          [] Peek(s, at) \notin {"string", "}"} -> Failed(at, Obj(map))
          [] Peek(s, at) = "string" /\ Peek(s, at + 1) # ":" ->
                Failed(at + 1, Obj(map))
          [] OTHER ->
                CASE v.ok /\ Peek(s, v.at) = "," ->
                        ParseMembers(s, v.at + 1, read)
                  [] Peek(s, v.at) = "}" -> Parsed(v.at + 1, Obj(read))
                  [] OTHER -> Failed(v.at, Obj(read))

-----------------------------------------------------------------------------
(* The writer: operator<< of the three classes.  The members of an object  *)
(* come in the order of the map, which no reader depends on.               *)
RECURSIVE Write(_)

Comma(parts) ==
    FlattenSeq([i \in DOMAIN parts |->
        IF i < Len(parts) THEN Append(parts[i], Token(",", ""))
                          ELSE parts[i]])

Write(v) ==
    CASE v.type = "STRING_" -> <<Token("string", v.scalar)>>
      [] v.type = "NUMBER_" -> <<Token("number", v.scalar)>>
      [] v.type = "BOOL_" -> <<Token(v.scalar, "")>>
      [] v.type = "NULL_" -> <<Token("null", "")>>
      [] v.type = "ARRAY_" ->
            <<Token("[", "")>>
            \o Comma([i \in DOMAIN v.items |-> Write(v.items[i])])
            \o <<Token("]", "")>>
      [] v.type = "OBJECT_" ->
            LET keys == SetToSeq(DOMAIN v.map)
            IN  <<Token("{", "")>>
                \o Comma([i \in DOMAIN keys |->
                    <<Token("string", keys[i]), Token(":", "")>>
                    \o Write(v.map[keys[i]])])
                \o <<Token("}", "")>>
=============================================================================
