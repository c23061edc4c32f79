------------------------------- MODULE JsonPatch -------------------------------
(***************************************************************************)
(* common/json.hpp, JSON Patch, diff and merge patch, on the document of   *)
(* JsonDocument.                                                           *)
(*                                                                         *)
(* A patch is a sequence of operations; an operation is a record with the  *)
(* members that the patch gives it, so that one may be missing, and a path *)
(* is the sequence of a pointer's tokens.  Tokens are keys; those of       *)
(* IndexTokens count array elements as well, and "-" is the place after    *)
(* the last.                                                               *)
(***************************************************************************)
EXTENDS JsonDocument

CONSTANT
  Patches       (* sequences of operations                                  *)

IndexTokens == <<"0", "1", "2">>
IsIndex(t)  == t \in Seqs!ToSet(IndexTokens)
IndexOf(t)  == CHOOSE i \in 0 .. 2 : IndexTokens[i + 1] = t

-----------------------------------------------------------------------------
(* at() of a pointer: one token after the other                             *)

Step(v, t) ==
  CASE IsObject(v)                -> at_key(v, t)
    [] IsArray(v) /\ IsIndex(t)   -> at_index(v, IndexOf(t))
    [] OTHER                      -> Throws(v, "out_of_range")

at(v, path) ==
  LET Next1(acc, t) == IF acc.error # "none" THEN acc ELSE Step(acc.result, t)
  IN Seqs!FoldLeft(Next1, Returns(v, v), path)

RECURSIVE Store(_, _, _)
Store(v, path, x) ==
  IF path = <<>> THEN x
  ELSE LET inner == Store(Step(v, Head(path)).result, Tail(path), x)
       IN IF IsArray(v) THEN Array([v.items EXCEPT ![IndexOf(Head(path)) + 1] = inner])
          ELSE With(v, Head(path), inner)

(* What Do does to the value at a path.                                     *)
On(v, path, Do(_)) ==
  IF at(v, path).error # "none" THEN Throws(v, at(v, path).error)
  ELSE LET o == Do(at(v, path).result) IN [o EXCEPT !.doc = Store(v, path, @)]

-----------------------------------------------------------------------------
(* Operations of a patch                                                    *)

AddTo(parent, t, x) ==
  CASE IsNull(parent) \/ IsObject(parent) -> Returns(With(AsObject(parent), t, x), Null)
    [] IsArray(parent) /\ t = "-" -> push_back(parent, x)
    [] IsArray(parent) /\ t # "-" ->
         IF IsIndex(t) /\ IndexOf(t) <= size(parent)
           THEN insert(parent, IndexOf(t) + 1, <<x>>, TRUE)
           ELSE Throws(parent, "out_of_range")
    [] OTHER -> Throws(parent, "assertion")

operation_add(v, path, x) ==
  IF path = <<>> THEN Returns(x, Null)
  ELSE On(v, Seqs!Front(path), LAMBDA parent : AddTo(parent, Seqs!Last(path), x))

(* Of a parent that has no children nothing is removed, and nothing said.   *)
RemoveFrom(parent, t) ==
  CASE IsObject(parent) -> IF contains(parent, t) THEN erase_key(parent, t)
                           ELSE Throws(parent, "out_of_range")
    [] IsArray(parent)  -> IF IsIndex(t) THEN erase_index(parent, IndexOf(t))
                           ELSE Throws(parent, "out_of_range")
    [] OTHER            -> Returns(parent, Null)

operation_remove(v, path) ==
  IF path = <<>> THEN Throws(v, "out_of_range")
  ELSE On(v, Seqs!Front(path), LAMBDA parent : RemoveFrom(parent, Seqs!Last(path)))

Mandatory(op) ==
  {"path"} \cup CASE op \in {"add", "replace", "test"} -> {"value"}
                  [] op \in {"move", "copy"}           -> {"from"}
                  [] OTHER                             -> {}

(* Faulty variant: what is moved is added before it is removed.             *)
Move_AddsFirst(v, o, found) ==
  LET added == operation_add(v, o.path, found)
  IN IF added.error # "none" THEN Throws(v, added.error)
     ELSE operation_remove(added.doc, o.from)

Move(v, o, found) ==
  LET removed == operation_remove(v, o.from)
  IN IF removed.error # "none" THEN removed
     ELSE operation_add(removed.doc, o.path, found)

apply(v, o) ==
  LET there == at(v, o.path)
      from  == at(v, o.from)
  IN CASE "op" \notin DOMAIN o \/ ~(Mandatory(o.op) \subseteq DOMAIN o) -> Throws(v, "parse_error")
       [] o.op = "add"     -> operation_add(v, o.path, o.value)
       [] o.op = "remove"  -> operation_remove(v, o.path)
       [] o.op = "replace" -> On(v, o.path, LAMBDA x : Returns(o.value, Null))
       [] o.op = "move"    -> IF from.error # "none" THEN Throws(v, from.error)
                              ELSE Move(v, o, from.result)
       [] o.op = "copy"    -> IF from.error # "none" THEN Throws(v, from.error)
                              ELSE operation_add(v, o.path, from.result)
       [] o.op = "test"    -> IF there.error = "none" /\ there.result = o.value
                                THEN Returns(v, Null) ELSE Throws(v, "other_error")
       [] OTHER            -> Throws(v, "parse_error")

(* An exception ends the patch; what was applied before it stays.           *)
patch_inplace(v, ops) ==
  LET One(acc, o) == IF acc.error # "none" THEN acc ELSE apply(acc.doc, o)
  IN Seqs!FoldLeft(One, Returns(v, Null), ops)

patch(v, ops) ==
  LET o == patch_inplace(v, ops) IN [doc |-> v, error |-> o.error, result |-> o.doc]

-----------------------------------------------------------------------------
(* diff() and merge_patch()                                                 *)

(* The positions of a sequence of n elements above m.                       *)
Beyond(n, m) == SelectSeq([i \in 1 .. n |-> i], LAMBDA i : i > m)

(* Faulty variant: the elements to remove are named front to back.          *)
Removals_Forward(n, m) == Beyond(n, m)

(* The last first: removing one shifts what follows.                        *)
Removals(n, m) == Seqs!Reverse(Beyond(n, m))

RECURSIVE diff(_, _, _)
diff(source, target, path) ==
  LET Below(t) == Append(path, t)
      Pass(ks, F(_)) == Seqs!FlattenSeq([i \in DOMAIN ks |-> F(ks[i])])
      n == Len(source.items)
      m == Len(target.items)
      Element(i) == diff(source.items[i], target.items[i], Below(IndexTokens[i]))
      Remove(i) == <<[op |-> "remove", path |-> Below(IndexTokens[i])]>>
      Append1(i) == <<[op |-> "add", path |-> Below("-"), value |-> target.items[i]]>>
      Own(k) == IF contains(target, k) THEN diff(source.members[k], target.members[k], Below(k))
                ELSE <<[op |-> "remove", path |-> Below(k)]>>
      Other(k) == IF contains(source, k) THEN <<>>
                  ELSE <<[op |-> "add", path |-> Below(k), value |-> target.members[k]]>>
  IN CASE source = target -> <<>>
       [] source # target /\ (source.type # target.type \/ IsPrimitive(source)) ->
            <<[op |-> "replace", path |-> path, value |-> target]>>
       [] source # target /\ IsArray(source) /\ IsArray(target) ->
            Pass([i \in 1 .. IF n < m THEN n ELSE m |-> i], Element) \o Pass(Removals(n, m), Remove)
              \o Pass(Beyond(m, n), Append1)
       [] source # target /\ IsObject(source) /\ IsObject(target) ->
            Pass(SortedKeys(source), Own) \o Pass(SortedKeys(target), Other)

(* Null in a merge patch removes the member.                                *)
Takes(o, k, x, merged) == IF IsNull(x) THEN Without(o, {k}) ELSE With(o, k, merged)

RECURSIVE merge_patch(_, _)
merge_patch(v, p) ==
  LET Visit(o, k) == Takes(o, k, p.members[k],
                           merge_patch(IndexKey(o, k).result, p.members[k]))
  IN IF ~IsObject(p) THEN p
     ELSE Seqs!FoldLeft(Visit, IF IsObject(v) THEN v ELSE EmptyObject, SortedKeys(p))

-----------------------------------------------------------------------------
(* Calls                                                                    *)

Patch == \E ops \in Patches : DoesWith("patch", ops, patch_inplace(doc, ops))

MergePatch == \E x \in Values : DoesWith("merge_patch", x, Returns(merge_patch(doc, x), Null))

(* Any call may follow any other.                                           *)
JsonNext == DocNext \/ Patch \/ MergePatch

JsonSpec == DocInit /\ [][JsonNext]_docVars

-----------------------------------------------------------------------------
(* Properties                                                               *)

(* The difference of two values is a patch that makes the one of the other, *)
(* and none of its operations throws (json.hpp:5089-5219).  Numbers are of  *)
(* one type here: of 1 and 1.0 the difference is empty, as they are equal.  *)
DiffLeadsThere ==
  \A v \in Values :
    /\ patch(doc, diff(doc, v, <<>>)) = [doc |-> doc, error |-> "none", result |-> v]
    /\ patch(v, diff(v, doc, <<>>)) = [doc |-> v, error |-> "none", result |-> doc]

(* A call that throws leaves the document as it was, but for three.         *)
(* update() may have made an object of null and, merging, may have taken    *)
(* over what came before the exception: even then it touches only the keys  *)
(* of its argument (json.hpp:3439-3489).  A patch that is applied in place  *)
(* keeps the operations before the one that throws, all of them and none    *)
(* behind it (json.hpp:4948-5074).  And a move that throws may have done    *)
(* its half: the value is gone from where it was, and the place it should   *)
(* go to was within it or was never there (json.hpp:5012-5030).             *)
HalfUpdated ==
  /\ call'.op \in {"update", "merge"}
  /\ IsObject(doc') /\ (IsObject(doc) \/ IsNull(doc))
  /\ \A k \in Keys : ~contains(call'.with, k) =>
       at_key(doc', k).result = at_key(AsObject(doc), k).result

HalfMoved(before, o, after) ==
  /\ {"op", "path", "from"} \subseteq DOMAIN o /\ o.op = "move"
  /\ operation_remove(before, o.from).doc = after
  /\ operation_add(after, o.path, Null).error # "none"

HalfPatched ==
  /\ call'.op = "patch"
  /\ \E n \in 1 .. Len(call'.with) :
       LET before == patch_inplace(doc, SubSeq(call'.with, 1, n - 1))
           o      == call'.with[n]
       IN /\ before.error = "none" /\ apply(before.doc, o).error # "none"
          /\ doc' = before.doc \/ HalfMoved(before.doc, o, doc')

FailedCallsChangeNothing ==
  [][error' # "none" /\ doc' # doc => HalfUpdated \/ HalfPatched]_docVars
=============================================================================
