-------------------------------- MODULE MCJson --------------------------------
(***************************************************************************)
(* Instances of the JSON modules for TLC.  They share no variable, so they *)
(* are checked side by side: `part' says which of them a behaviour is of,  *)
(* and the variables of the others stay as they are at the beginning.      *)
(***************************************************************************)
EXTENDS JsonPatch, JsonOrder, JsonMemory, TLC

VARIABLE part

MCInit ==
  /\ part \in {"document", "order", "memory"}
  /\ DocInit /\ (part # "document" => doc = Null)
  /\ OrderInit
  /\ HeapInit

MCNext ==
  /\ UNCHANGED part
  /\ \/ part = "document" /\ JsonNext  /\ UNCHANGED <<orderVars, heapVars>>
     \/ part = "order"    /\ OrderNext /\ UNCHANGED <<docVars, heapVars>>
     \/ part = "memory"   /\ HeapNext  /\ UNCHANGED <<docVars, orderVars>>

MCSpec == MCInit /\ [][MCNext]_<<part, docVars, orderVars, heapVars>>

(* No call reads what the last one was and how it ended, so states that     *)
(* differ in that alone are one; the action properties see each step.       *)
MCView == <<part, doc, orderVars, heapVars>>

-----------------------------------------------------------------------------
(* Documents and patches.                                                   *)
Tokens == <<"-", "0", "1", "2", "a", "b">>

One == Object("a" :> Number(1))
SomeValues ==
  {Null, Number(1), String("a"), Array(<<>>), Array(<<Number(1), Null>>),
   Array(<<String("a"), One>>), One, Object("a" :> Null @@ "b" :> Number(1)),
   Object("a" :> One), Object("b" :> Array(<<Number(1), One>>))}

Paths == {<<>>, <<"a">>, <<"b">>, <<"0">>, <<"-">>, <<"a", "b">>, <<"b", "1">>, <<"b", "-">>}
Arguments == {Number(1), Array(<<>>)}

SomeOperations ==
  [op : {"add", "replace", "test"}, path : Paths, value : Arguments]
    \cup [op : {"remove"}, path : Paths]
    \cup [op : {"move", "copy"}, path : Paths, from : Paths]
    \cup {<<>>, [op |-> "add"], [op |-> "add", path |-> <<>>], [op |-> "move", path |-> <<>>],
          [op |-> "swap", path |-> <<>>]}

(* Two operations: one that may be applied, and one behind it that may      *)
(* throw, also because of what the first did.                               *)
FirstOperations ==
  [op : {"add"}, path : {<<"a">>, <<"b">>, <<"-">>}, value : {Number(1)}]
    \cup [op : {"remove"}, path : {<<"a">>, <<"0">>}]
    \cup [op : {"move"}, path : {<<"b">>, <<"a", "b">>}, from : {<<"a">>}]
SecondOperations ==
  [op : {"test", "replace"}, path : {<<"a">>, <<"b">>}, value : {Array(<<>>)}]
    \cup [op : {"remove"}, path : {<<"a">>, <<"0">>}]
    \cup [op : {"move"}, path : {<<"b">>, <<"a", "b">>, <<"b", "-">>}, from : {<<"a">>}]
    \cup {[op |-> "add"]}

SomePatches == {<<o>> : o \in SomeOperations}
                 \cup {<<o, p>> : o \in FirstOperations, p \in SecondOperations}

-----------------------------------------------------------------------------
(* Values to compare: with two bits a float is exact up to four.            *)
Scalar(type, ranks) == [type : {type}, rank : ranks]
Float_(ranks) == [type : {"float"}, nan : {FALSE}, rank : ranks]
NaN == [type |-> "float", nan |-> TRUE, rank |-> 0]

SomeScalars ==
  Scalar("null", {0}) \cup Scalar("boolean", {0, 1}) \cup Scalar("string", {0, 1})
    \cup Scalar("integer", {-1, 3}) \cup Scalar("unsigned", {3, 7})
    \cup Float_({-1, 3, 4}) \cup {NaN, Discarded}

Items == {<<>>} \cup {<<v>> : v \in Scalar("integer", {-1, 3}) \cup Float_({3}) \cup {NaN}}
           \cup {<<v, w>> : v \in Scalar("unsigned", {3}) \cup Float_({-1}),
                            w \in Scalar("boolean", {0, 1})}

Nested == {[type |-> "array", items |-> <<[type |-> "array", items |-> <<v>>]>>] :
             v \in Scalar("integer", {3}) \cup Float_({3})}

Comparable ==
  SomeScalars \cup [type : {"array"}, items : Items] \cup Nested
    \cup [type : {"object"}, items : {<<>>} \cup
            {<<k, v>> : k \in Scalar("string", {0, 1}), v \in Scalar("unsigned", {3}) \cup Float_({3, 4})}]

Depth[v \in Comparable] ==
  IF v.type \notin Containers THEN 0
  ELSE 1 + Seqs!Max({Depth[v.items[i]] : i \in DOMAIN v.items} \cup {0})

-----------------------------------------------------------------------------
HeapSymmetry == Permutations(Blocks) \cup Permutations(Variables)
=============================================================================
