----------------------------- MODULE JsonValue -----------------------------
(***************************************************************************)
(* The values of lib_module/jsonxx, and the accessors that the rest of the *)
(* system reads them with.  The C++ value is a tagged union; here every    *)
(* value has the same fields, and those its type does not use are empty.   *)
(***************************************************************************)
EXTENDS Naturals, Sequences

NoMap == [k \in {} |-> k]

Value(type, scalar, items, map) ==
    [type |-> type, scalar |-> scalar, items |-> items, map |-> map]

Str(text) == Value("STRING_", text, <<>>, NoMap)
Num(text) == Value("NUMBER_", text, <<>>, NoMap)
Bool(text) == Value("BOOL_", text, <<>>, NoMap)
Null == Value("NULL_", "", <<>>, NoMap)
Arr(items) == Value("ARRAY_", "", items, NoMap)
Obj(map) == Value("OBJECT_", "", <<>>, map)

(* Accessors: has<T>() asks for the key and for the type, get<T>() asserts *)
(* has<T>() and throws an int otherwise, get<T>(key, default) never does.  *)
Has(object, type, key) ==
    key \in DOMAIN object.map /\ object.map[key].type = type

Get(object, key) == object.map[key]

GetOr(object, type, key, default) ==
    IF Has(object, type, key) THEN Get(object, key).scalar ELSE default
=============================================================================
