------------------------------- MODULE JsonValue -------------------------------
(***************************************************************************)
(* common/json.hpp, the values: what configuration files are read into.    *)
(* A value is a record whose payload field is named after its type, as the *)
(* union json_value has a member per type.  Numbers are integers here; how *)
(* the three number types compare is the module JsonOrder.                 *)
(*                                                                         *)
(* A call is an operator that gives the value after the call and what the  *)
(* caller gets: a result or the class of the exception.                    *)
(***************************************************************************)
EXTENDS Naturals, Sequences, Functions

CONSTANT KeyOrder     (* all keys, in the order of std::map                 *)

ASSUME KeyAssumption == IsInjective(KeyOrder)

Keys == {KeyOrder[i] : i \in DOMAIN KeyOrder}

Null       == [type |-> "null"]
Boolean(b) == [type |-> "boolean", flag |-> b]
Number(n)  == [type |-> "number", number |-> n]
String(s)  == [type |-> "string", text |-> s]
Array(s)   == [type |-> "array", items |-> s]
Object(f)  == [type |-> "object", members |-> f]
EmptyObject == Object([k \in {} |-> Null])

IsNull(v)   == v.type = "null"
IsString(v) == v.type = "string"
IsArray(v)  == v.type = "array"
IsObject(v) == v.type = "object"
IsPrimitive(v) == v.type \in {"null", "boolean", "number", "string"}

Returns(doc, result) == [doc |-> doc, error |-> "none", result |-> result]
Throws(doc, error)   == [doc |-> doc, error |-> error, result |-> Null]

(* What begin() to end() visits: for a primitive value itself, for null     *)
(* nothing.                                                                 *)
SortedKeys(v) == SelectSeq(KeyOrder, LAMBDA k : k \in DOMAIN v.members)
Elements(v) ==
  CASE IsArray(v)  -> v.items
    [] IsObject(v) -> [i \in DOMAIN SortedKeys(v) |-> v.members[SortedKeys(v)[i]]]
    [] IsNull(v)   -> <<>>
    [] OTHER       -> <<v>>

-----------------------------------------------------------------------------
(* Capacity and lookup                                                      *)

size(v) ==
  CASE IsNull(v)   -> 0
    [] IsArray(v)  -> Len(v.items)
    [] IsObject(v) -> Len(SortedKeys(v))
    [] OTHER       -> 1

contains(v, k) == IsObject(v) /\ k \in DOMAIN v.members
count(v, k) == IF IsObject(v) THEN IF k \in DOMAIN v.members THEN 1 ELSE 0 ELSE 0

(* find(): the position begin() to end() has the key's value at, end() for  *)
(* what is no object.                                                       *)
end(v) == Len(Elements(v)) + 1
find(v, k) ==
  IF IsObject(v) /\ k \in DOMAIN v.members
    THEN CHOOSE i \in DOMAIN SortedKeys(v) : SortedKeys(v)[i] = k
    ELSE end(v)

-----------------------------------------------------------------------------
(* Element access                                                           *)

at_index(v, i) ==
  IF ~IsArray(v) THEN Throws(v, "type_error")
  ELSE IF i >= Len(v.items) THEN Throws(v, "out_of_range")
  ELSE Returns(v, v.items[i + 1])

at_key(v, k) ==
  IF ~IsObject(v) THEN Throws(v, "type_error")
  ELSE IF k \notin DOMAIN v.members THEN Throws(v, "out_of_range")
  ELSE Returns(v, v.members[k])

(* operator[] of a non-const value makes an array or object of null, and    *)
(* adds what is not there.                                                  *)
IndexNumber(v, i) ==
  LET arr == IF IsNull(v) THEN Array(<<>>) ELSE v
      n == Len(arr.items)
      filled == Array([j \in 1 .. IF i < n THEN n ELSE i + 1 |->
                         IF j <= n THEN arr.items[j] ELSE Null])
  IN IF ~IsArray(arr) THEN Throws(v, "type_error")
     ELSE Returns(filled, filled.items[i + 1])

With(v, k, x) == Object([m \in DOMAIN v.members \cup {k} |->
                           IF m = k THEN x ELSE v.members[m]])

IndexKey(v, k) ==
  LET o == IF IsNull(v) THEN EmptyObject ELSE v
  IN IF ~IsObject(o) THEN Throws(v, "type_error")
     ELSE IF k \in DOMAIN o.members THEN Returns(o, o.members[k])
     ELSE Returns(With(o, k, Null), Null)

(* Of a const value it only asserts that the key is there.                  *)
ConstIndexKey(v, k) ==
  IF ~IsObject(v) THEN Throws(v, "type_error")
  ELSE IF k \notin DOMAIN v.members THEN Throws(v, "assertion")
  ELSE Returns(v, v.members[k])

(* get<T>() for a type T, and value() with a default of that type.          *)
Get(v, type) == IF v.type = type THEN Returns(v, v) ELSE Throws(v, "type_error")

value(v, k, default) ==
  IF ~IsObject(v) THEN Throws(v, "type_error")
  ELSE IF find(v, k) = end(v) THEN Returns(v, default)
  ELSE Get(v.members[k], default.type)

=============================================================================
