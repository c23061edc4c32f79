------------------------------- MODULE JsonOrder -------------------------------
(***************************************************************************)
(* common/json.hpp, the comparison operators, with the number types apart: *)
(* signed and unsigned integers of Precision + 1 bits and floats of        *)
(* Precision bits (64 and 53 in the program).                              *)
(*                                                                         *)
(* A scalar has a rank in its type, a number also tells whether it is NaN. *)
(* The items of an object are its keys and values in turn.                 *)
(***************************************************************************)
EXTENDS Integers, Sequences

CONSTANTS
  Compared,     (* what is compared, and what is in it                      *)
  Nesting,      (* how deep a value is: deeper than what is in it           *)
  Precision     (* bits that a float keeps                                  *)

VARIABLES lhs, rhs, third

orderVars == <<lhs, rhs, third>>

Numbers    == {"integer", "unsigned", "float"}
Containers == {"array", "object"}

IsNumber(v) == v.type \in Numbers
IsNaN(v)    == v.type = "float" /\ v.nan
Discarded   == [type |-> "discarded"]

ASSUME OrderAssumption ==
  /\ Precision \in Nat \ {0}
  /\ Nesting \in [Compared -> Nat]
  /\ Discarded \in Compared
  /\ \A v \in Compared :
       \/ v = Discarded
       \/ v.type \in Numbers \cup {"null", "boolean", "string"} /\ v.rank \in Int
       \/ /\ v.type \in Containers /\ v.items \in Seq(Compared)
          /\ \A i \in DOMAIN v.items : Nesting[v.items[i]] < Nesting[v]

-----------------------------------------------------------------------------
(* Conversions before numbers of two types are compared                     *)

(* An unsigned number as a signed one of the same width.                    *)
Signed(n) == IF n < 2 ^ Precision THEN n ELSE n - 2 ^ (Precision + 1)

(* An integer as a float: odd ones that are too long go to the neighbour    *)
(* that is a multiple of four.                                              *)
Float(n) == IF n \in -(2 ^ Precision) .. 2 ^ Precision \/ n % 2 = 0 THEN n
            ELSE 4 * ((n + 1) \div 4)

(* Faulty variant: of two integer types the unsigned one is taken.          *)
Converted_ToUnsigned(v, type) ==
  CASE v.type # "float" /\ type = "float"       -> Float(v.rank)
    [] v.type = "integer" /\ type = "unsigned"  -> v.rank % 2 ^ (Precision + 1)
    [] OTHER                                    -> v.rank

Converted(v, type) ==
  CASE v.type # "float" /\ type = "float"       -> Float(v.rank)
    [] v.type = "unsigned" /\ type = "integer"  -> Signed(v.rank)
    [] OTHER                                    -> v.rank

-----------------------------------------------------------------------------
(* The operators                                                            *)

TypeRank(type) ==
  CASE type = "null" -> 0 [] type = "boolean" -> 1 [] type \in Numbers -> 2
    [] type = "object" -> 3 [] type = "array" -> 4 [] type = "string" -> 5

(* The order of the types that decides where the values cannot; a discarded *)
(* value has no place in it.                                                *)
TypeLess(l, r) == "discarded" \notin {l, r} /\ TypeRank(l) < TypeRank(r)

(* What is left and right of an operator, when `equal' and `less' compare   *)
(* what is in containers.                                                   *)
EqualBy(equal, l, r) ==
  CASE IsNumber(l) /\ IsNumber(r) ->
         ~IsNaN(l) /\ ~IsNaN(r) /\ Converted(l, r.type) = Converted(r, l.type)
    [] l.type = r.type /\ l.type \in Containers ->
         /\ Len(l.items) = Len(r.items)
         /\ \A i \in DOMAIN l.items : equal[<<l.items[i], r.items[i]>>]
    [] l.type = r.type /\ l.type \notin Containers \cup Numbers -> l # Discarded /\ l.rank = r.rank
    [] OTHER -> FALSE

(* std::lexicographical_compare.                                            *)
LessItems(less, l, r) ==
  \E i \in DOMAIN r :
    /\ \A j \in 1 .. i - 1 : j \in DOMAIN l /\ ~less[<<l[j], r[j]>>] /\ ~less[<<r[j], l[j]>>]
    /\ i \in DOMAIN l => less[<<l[i], r[i]>>]

LessBy(less, l, r) ==
  CASE IsNumber(l) /\ IsNumber(r) ->
         ~IsNaN(l) /\ ~IsNaN(r) /\ Converted(l, r.type) < Converted(r, l.type)
    [] l.type = r.type /\ l.type \in Containers -> LessItems(less, l.items, r.items)
    [] l.type = r.type /\ l.type \notin Containers \cup Numbers -> l # Discarded /\ l.rank < r.rank
    [] OTHER -> TypeLess(l.type, r.type)

Pairs == Compared \X Compared

Equals[p \in Pairs] == EqualBy(Equals, p[1], p[2])
Less[p \in Pairs]   == LessBy(Less, p[1], p[2])

Equal(l, r)    == Equals[<<l, r>>]
LessThan(l, r) == Less[<<l, r>>]

compares_unordered(l, r) ==
  \/ IsNaN(l) /\ IsNumber(r)
  \/ IsNaN(r) /\ IsNumber(l)
  \/ Discarded \in {l, r}

NotEqual(l, r)     == ~compares_unordered(l, r) /\ ~Equal(l, r)
LessEqual(l, r)    == ~compares_unordered(l, r) /\ ~LessThan(r, l)

Greater(l, r)      == ~compares_unordered(l, r) /\ ~LessEqual(l, r)
GreaterEqual(l, r) == ~compares_unordered(l, r) /\ ~LessThan(l, r)

-----------------------------------------------------------------------------
OrderInit == lhs = Discarded /\ rhs = Discarded /\ third = Discarded

(* The next value comes, and the first goes.                                *)
Compare ==
  /\ third' \in Compared
  /\ lhs' = rhs
  /\ rhs' = third

OrderNext == Compare

OrderSpec == OrderInit /\ [][OrderNext]_orderVars

-----------------------------------------------------------------------------
(* Properties                                                               *)

Atoms[v \in Compared] ==
  IF v.type \in Containers THEN UNION {Atoms[v.items[i]] : i \in DOMAIN v.items} ELSE {v}

(* Where no conversion loses anything, the six operators are those of one   *)
(* total order of all values, whatever their types and however deep the     *)
(* difference is: numbers compare by their value, in containers and with    *)
(* numbers of another type too (json.hpp:3610-3990).  Beyond that they are  *)
(* not: 2^64 - 1 equals -1.                                                 *)
Exact(v) == \A a \in Atoms[v] :
              /\ ~IsNaN(a) /\ a # Discarded
              /\ IsNumber(a) => a.rank \in -(2 ^ Precision) .. 2 ^ Precision - 1
OneTotalOrder ==
  Exact(lhs) /\ Exact(rhs) /\ Exact(third) =>
    LET less    == LessThan(lhs, rhs)
        equal   == Equal(lhs, rhs)
        greater == Greater(lhs, rhs)
    IN /\ less \/ equal \/ greater
       /\ ~(less /\ equal) /\ ~(less /\ greater) /\ ~(equal /\ greater)
       /\ greater = LessThan(rhs, lhs)
       /\ NotEqual(lhs, rhs) = ~equal
       /\ LessEqual(lhs, rhs) = (less \/ equal)
       /\ GreaterEqual(lhs, rhs) = (greater \/ equal)
       /\ IsNumber(lhs) /\ IsNumber(rhs) => (less <=> lhs.rank < rhs.rank)
       /\ less /\ LessThan(rhs, third) => LessThan(lhs, third)
       /\ equal /\ Equal(rhs, third) => Equal(lhs, third)
       /\ equal => (LessThan(lhs, third) <=> LessThan(rhs, third))
=============================================================================
