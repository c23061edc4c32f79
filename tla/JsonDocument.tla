----------------------------- MODULE JsonDocument -----------------------------
(***************************************************************************)
(* common/json.hpp, the calls that change a value: a document of which     *)
(* any call is made, with arguments of any type, one after another.        *)
(*                                                                         *)
(* An iterator is a position and, where the code compares m_object, whose  *)
(* it is.  An iterator that the caller may not use (one past the end to    *)
(* erase, one of an array for an object) is undefined and not passed.      *)
(***************************************************************************)
EXTENDS JsonValue

CONSTANTS
  Values,       (* arguments                                                *)
  MaxLength,    (* bound: elements that an index can name                   *)
  MaxNodes      (* bound: values in a document, at any depth                *)

Seqs == INSTANCE SequencesExt

VARIABLES
  doc,          (* the document                                             *)
  call,         (* the call made last: its kind, and the argument of        *)
                (* update() or of patch_inplace()                           *)
  error         (* "none", or the exception it threw                        *)

docVars == <<doc, call, error>>

-----------------------------------------------------------------------------
(* Adding                                                                   *)

AsArray(v)  == IF IsNull(v) THEN Array(<<>>) ELSE v
AsObject(v) == IF IsNull(v) THEN EmptyObject ELSE v

(* push_back and emplace_back of a value.                                   *)
push_back(v, x) ==
  LET arr == AsArray(v)
  IN IF ~IsArray(arr) THEN Throws(v, "type_error")
     ELSE Returns(Array(Append(arr.items, x)), x)

(* emplace, and push_back of a pair: a key that is there keeps its value.   *)
emplace(v, k, x) ==
  LET o == AsObject(v)
  IN IF ~IsObject(o) THEN Throws(v, "type_error")
     ELSE IF k \in DOMAIN o.members THEN Returns(o, o.members[k])
     ELSE Returns(With(o, k, x), x)

(* A braced list is an object when all its elements are pairs that begin    *)
(* with a string, and of two pairs with the same key the first counts.      *)
IsPair(x) == IsArray(x) /\ Len(x.items) = 2 /\ IsString(x.items[1])
FromList(list) ==
  IF \A i \in DOMAIN list : IsPair(list[i])
    THEN Seqs!FoldLeft(LAMBDA o, p : emplace(o, p.items[1].text, p.items[2]).doc,
                       EmptyObject, list)
    ELSE Array(list)

push_back_list(v, list) ==
  IF IsObject(v) /\ Len(list) = 2 /\ IsString(list[1])
    THEN emplace(v, list[1].text, list[2])
    ELSE push_back(v, FromList(list))

(* insert() of values into an array, before position p.                     *)
insert(v, p, xs, fits) ==
  IF ~IsArray(v) THEN Throws(v, "type_error")
  ELSE IF ~fits THEN Throws(v, "invalid_iterator")
  ELSE Returns(Array(SubSeq(v.items, 1, p - 1) \o xs
                     \o SubSeq(v.items, p, Len(v.items))), Null)

(* insert() of another object's members.                                    *)
insert_members(v, w) ==
  IF ~IsObject(v) THEN Throws(v, "type_error")
  ELSE IF ~IsObject(w) THEN Throws(v, "invalid_iterator")
  ELSE Returns(Object([k \in DOMAIN v.members \cup DOMAIN w.members |->
                 IF k \in DOMAIN v.members THEN v.members[k] ELSE w.members[k]]), Null)

(* Faulty variant: a member that is there keeps its value.                  *)
assigned_Inserts(o, k, x) == emplace(o, k, x).doc

assigned(o, k, x) == With(o, k, x)

(* update() visits the other's members in their order; merging goes down    *)
(* into members that are there, and an exception down there ends it all.    *)
RECURSIVE update(_, _, _)
update(v, w, merge) ==
  LET o == AsObject(v)
      Visit(acc, k) ==
        LET x == w.members[k]
        IN IF acc.error # "none" THEN acc
           ELSE IF merge /\ IsObject(x) /\ k \in DOMAIN acc.doc.members
             THEN [update(acc.doc.members[k], x, TRUE)
                     EXCEPT !.doc = With(acc.doc, k, @)]
           ELSE Returns(assigned(acc.doc, k, x), Null)
  IN IF ~IsObject(o) THEN Throws(v, "type_error")
     ELSE IF ~IsObject(w) THEN Throws(o, "type_error")
     ELSE Seqs!FoldLeft(Visit, Returns(o, Null), SortedKeys(w))

-----------------------------------------------------------------------------
(* Removing                                                                 *)

clear(v) ==
  Returns(CASE v.type = "number"  -> Number(0)
            [] v.type = "boolean" -> Boolean(FALSE)
            [] v.type = "string"  -> String("")
            [] v.type = "array"   -> Array(<<>>)
            [] v.type = "object"  -> EmptyObject
            [] OTHER              -> v, Null)

Without(v, ks) == Object([k \in DOMAIN v.members \ ks |-> v.members[k]])

(* erase() of the elements from position p to before q, and of the one at   *)
(* p; a primitive value is erased as a whole and becomes null.              *)
erase_range(v, p, q, fits) ==
  CASE ~fits       -> Throws(v, "invalid_iterator")
    [] IsNull(v)   -> Throws(v, "type_error")
    [] IsArray(v)  -> Returns(Array(SubSeq(v.items, 1, p - 1)
                                    \o SubSeq(v.items, q, Len(v.items))), Null)
    [] IsObject(v) -> Returns(Without(v, {SortedKeys(v)[i] : i \in p .. q - 1}), Null)
    [] OTHER       -> IF p = 1 /\ q = 2 THEN Returns(Null, Null)
                      ELSE Throws(v, "invalid_iterator")

erase(v, p, fits) ==
  IF IsPrimitive(v) /\ ~IsNull(v) /\ fits
    THEN IF p = 1 THEN Returns(Null, Null) ELSE Throws(v, "invalid_iterator")
    ELSE erase_range(v, p, p + 1, fits)

erase_key(v, k) ==
  IF ~IsObject(v) THEN Throws(v, "type_error")
  ELSE Returns(Without(v, {k}), Number(count(v, k)))

erase_index(v, i) ==
  IF ~IsArray(v) THEN Throws(v, "type_error")
  ELSE IF i >= size(v) THEN Throws(v, "out_of_range")
  ELSE Returns(Array(Seqs!RemoveAt(v.items, i + 1)), Null)

(* swap() with a container or a string of one's own.                        *)
swap_payload(v, w) ==
  IF v.type # w.type \/ v.type \notin {"array", "object", "string"}
    THEN Throws(v, "type_error") ELSE Returns(w, v)
-----------------------------------------------------------------------------
(* Calls on a document                                                      *)

Indices   == 0 .. MaxLength
Positions == 1 .. end(doc)

NoCall == [op |-> "none", with |-> Null]

DocInit ==
  /\ doc \in Values
  /\ call = NoCall
  /\ error = "none"

RECURSIVE Nodes(_)
Nodes(v) == Seqs!FoldLeft(LAMBDA n, x : n + Nodes(x), 1,
                          IF IsPrimitive(v) THEN <<>> ELSE Elements(v))

DoesWith(op, x, outcome) ==
  /\ Nodes(outcome.doc) <= MaxNodes
  /\ doc' = outcome.doc
  /\ error' = outcome.error
  /\ call' = [op |-> op, with |-> x]
Does(op, outcome) == DoesWith(op, Null, outcome)

Index      == \E i \in Indices : Does("add", IndexNumber(doc, i))
Member     == \E k \in Keys : Does("add", IndexKey(doc, k))
PushBack   == \E x \in Values : Does("add", push_back(doc, x))
Emplace    == \E k \in Keys, x \in Values : Does("add", emplace(doc, k, x))
PushList   == \E x, y \in Values : Does("add", push_back_list(doc, <<x, y>>))
Insert     == \E p \in Positions, x \in Values, fits \in BOOLEAN :
                Does("add", insert(doc, p, <<x>>, fits))
InsertAll  == \E x \in Values : Does("add", insert_members(doc, x))
Update     == \E x \in Values, merge \in BOOLEAN :
                DoesWith(IF merge THEN "merge" ELSE "update", x, update(doc, x, merge))
Clear      == Does("clear", clear(doc))
Erase      == \E p \in Positions \ {end(doc)}, fits \in BOOLEAN :
                Does("erase", erase(doc, p, fits))
EraseRange == \E p, q \in Positions, fits \in BOOLEAN :
                p <= q /\ Does("erase", erase_range(doc, p, q, fits))
EraseKey   == \E k \in Keys : Does("erase", erase_key(doc, k))
EraseIndex == \E i \in Indices : Does("erase", erase_index(doc, i))
Swap       == \E x \in Values : Does("swap", swap_payload(doc, x))

DocNext ==
  \/ Index \/ Member \/ PushBack \/ Emplace \/ PushList \/ Insert \/ InsertAll
  \/ Update \/ Clear \/ Erase \/ EraseRange \/ EraseKey \/ EraseIndex \/ Swap


-----------------------------------------------------------------------------
(* Properties                                                               *)

(* What a document says, path by path.                                      *)
RECURSIVE Leaves(_)
Leaves(v) ==
  IF ~IsObject(v) THEN {<< <<>>, v >>}
  ELSE UNION {{<< <<k>> \o leaf[1], leaf[2] >> : leaf \in Leaves(v.members[k])} :
              k \in DOMAIN v.members}

(* update() takes over all that its argument says; what it does not mention *)
(* stays, and when objects are merged, inside of them too                   *)
(* (json.hpp:3473-3489).                                                    *)
UpdateTakesOver ==
  [][call'.op \in {"update", "merge"} /\ error' = "none" =>
       /\ Leaves(call'.with) \subseteq Leaves(doc')
       /\ \A leaf \in Leaves(AsObject(doc)) :
            \/ leaf \in Leaves(doc')
            \/ /\ contains(call'.with, leaf[1][1])
               /\ call'.op = "merge" =>
                    \E l \in Leaves(call'.with) :
                      Seqs!IsPrefix(l[1], leaf[1]) \/ Seqs!IsPrefix(leaf[1], l[1])]_docVars
=============================================================================
