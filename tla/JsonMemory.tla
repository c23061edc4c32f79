------------------------------ MODULE JsonMemory ------------------------------
(***************************************************************************)
(* common/json.hpp, who owns what: construction, copies, moves, assignment *)
(* and destruction of values whose payload is on the heap, where any       *)
(* allocation may fail.                                                    *)
(*                                                                         *)
(* A value has a type and, for the types with a payload, a block of the    *)
(* heap that holds the values it is made of.  Objects are as arrays here,  *)
(* and binary values as strings.  A copy is made element by element, and   *)
(* so is one undone that an exception ends half-way.                       *)
(***************************************************************************)
EXTENDS Naturals, Sequences, FiniteSets, Functions, SequencesExt

CONSTANTS
  Variables,    (* the program's variables of type basic_json               *)
  Blocks,       (* bound: what the heap has room for                        *)
  NoBlock,      (* nullptr                                                  *)
  MaxElements     (* bound: elements of an array                              *)

ASSUME BlockAssumption == NoBlock \notin Blocks /\ MaxElements \in Nat

VARIABLES
  slot,         (* the variables: a value, or Dead                          *)
  heap,         (* allocated blocks and what is in them                     *)
  dying,        (* the value whose destroy() runs, or Dead                  *)
  stack,        (* destroy()'s stack                                        *)
  copies,       (* copy constructors under way, each in the one before it:  *)
                (* the value copied and what there is of the copy           *)
  origin,       (* of the outermost, the variable it is for, and slot and   *)
                (* heap as it found them; or <<>>                           *)
  throwing,     (* an exception is on its way out of them                   *)
  ended         (* "no", or what has ended the program                      *)

copyVars == <<copies, origin, throwing>>
heapVars == <<slot, heap, dying, stack, copyVars, ended>>

Scalars      == {"null", "number"}
Types        == Scalars \cup {"string", "array"}
Value(t, b)  == [type |-> t, at |-> b]
NullValue    == Value("null", NoBlock)
Dead         == Value("none", NoBlock)

Allocated    == DOMAIN heap
Free         == Blocks \ Allocated
WithBlock(b) == [c \in Allocated \cup {b} |-> IF c = b THEN <<>> ELSE heap[c]]
Content(v)   == IF v.at = NoBlock THEN <<>> ELSE heap[v.at]

(* assert_invariant()                                                       *)
Valid(v) == v.type \in {"string", "array"} => v.at # NoBlock

-----------------------------------------------------------------------------
(* Destruction.  destroy() moves what a container holds to a stack of its   *)
(* own, and each value from the stack leaves what it holds there before it  *)
(* goes.                                                                    *)

FreeBlock(b) == [c \in Allocated \ {b} |-> heap[c]]

(* The start of destroy() when the heap is h: elements move to the stack.   *)
destroy(v, h) ==
  IF v.at = NoBlock THEN heap' = h /\ UNCHANGED <<dying, stack, ended>>
  ELSE /\ dying' = v
       /\ stack' = Content(v)
       /\ heap' = [h EXCEPT ![v.at] = <<>>]
       /\ UNCHANGED ended

Runs == ended = "no" /\ dying = Dead /\ copies = <<>>

(* Faulty variant: what an element holds goes with it.                      *)
DestroyNext_Drops ==
  /\ ended = "no" /\ stack # <<>>
  /\ stack' = Front(stack)
  /\ heap' = FreeBlock(Last(stack).at)
  /\ UNCHANGED <<slot, dying, copyVars, ended>>

DestroyNext ==
  /\ ended = "no" /\ stack # <<>>
  /\ stack' = Front(stack) \o Content(Last(stack))
  /\ heap' = FreeBlock(Last(stack).at)
  /\ UNCHANGED <<slot, dying, copyVars, ended>>

DestroyEnd ==
  /\ ended = "no" /\ dying # Dead /\ stack = <<>>
  /\ heap' = FreeBlock(dying.at)
  /\ dying' = Dead
  /\ UNCHANGED <<slot, stack, copyVars, ended>>

(* The stack is on the heap too, and the destructor is noexcept.            *)
StackFails ==
  /\ ended = "no" /\ dying.type = "array"
  /\ stack # <<>>
  /\ ended' = "terminate"
  /\ UNCHANGED <<slot, heap, dying, stack, copyVars>>

(* ~basic_json(), with its assertion.                                       *)
Gone(v, h) ==
  IF Valid(v) THEN destroy(v, h)
  ELSE heap' = h /\ ended' = "assertion" /\ UNCHANGED <<dying, stack>>

Destruct(v) ==
  /\ Runs /\ slot[v] # Dead
  /\ slot' = [slot EXCEPT ![v] = Dead]
  /\ Gone(slot[v], heap)
  /\ UNCHANGED copyVars

-----------------------------------------------------------------------------
(* Copies                                                                   *)

(* basic_json w(v), and v = w, whose argument is a copy: the copy and v are *)
(* swapped, and what v was is destroyed.  A value without a payload is      *)
(* copied at once.                                                          *)
CopyBegins(v, w) ==
  /\ Runs /\ slot[v] # Dead /\ Valid(slot[v])
  /\ IF slot[v].at = NoBlock
       THEN /\ slot' = [slot EXCEPT ![w] = slot[v]]
            /\ Gone(slot[w], heap)
            /\ UNCHANGED copyVars
       ELSE /\ copies' = <<[of |-> slot[v], copy |-> [slot[v] EXCEPT !.at = NoBlock]]>>
            /\ origin' = [target |-> w, slot |-> slot, heap |-> heap]
            /\ UNCHANGED <<slot, heap, dying, stack, throwing, ended>>

Copy(v, w)   == slot[w] = Dead /\ CopyBegins(v, w)
Assign(v, w) == slot[v] # Dead /\ CopyBegins(w, v)

Copying == ended = "no" /\ dying = Dead /\ copies # <<>>
Inner   == Last(copies)
Outer   == copies[Len(copies) - 1]
Left    == Len(Content(Inner.of)) - Len(Content(Inner.copy))

(* create(): the payload comes before what is in it.                        *)
MakesPayload ==
  /\ Copying /\ ~throwing /\ Inner.copy.at = NoBlock
  /\ \E b \in Free :
       /\ copies' = [copies EXCEPT ![Len(copies)].copy.at = b]
       /\ heap' = WithBlock(b)
  /\ UNCHANGED <<slot, dying, stack, origin, throwing, ended>>

CopiesElement ==
  /\ Copying /\ ~throwing /\ Inner.copy.at # NoBlock /\ Left > 0
  /\ LET e == Content(Inner.of)[Len(Content(Inner.copy)) + 1]
     IN IF e.at = NoBlock
          THEN heap' = [heap EXCEPT ![Inner.copy.at] = Append(@, e)] /\ UNCHANGED copies
          ELSE /\ copies' = Append(copies, [of |-> e, copy |-> [e EXCEPT !.at = NoBlock]])
               /\ UNCHANGED heap
  /\ UNCHANGED <<slot, dying, stack, origin, throwing, ended>>

(* The copy is whole: an element of the copy around it, or the variable.    *)
CopyReturns ==
  /\ Copying /\ ~throwing /\ Inner.copy.at # NoBlock /\ Left = 0
  /\ copies' = Front(copies)
  /\ IF copies' = <<>>
       THEN /\ slot' = [slot EXCEPT ![origin.target] = Inner.copy]
            /\ Gone(slot[origin.target], heap)
            /\ origin' = <<>>
       ELSE /\ heap' = [heap EXCEPT ![Outer.copy.at] = Append(@, Inner.copy)]
            /\ UNCHANGED <<slot, dying, stack, origin, ended>>
  /\ UNCHANGED throwing

(* The payload, or what it needs for its elements or characters, is not to  *)
(* be had.                                                                  *)
CopyThrows ==
  /\ Copying /\ ~throwing
  /\ Inner.copy.at = NoBlock \/ Inner.copy.type = "string" \/ Left > 0
  /\ throwing' = TRUE
  /\ UNCHANGED <<slot, heap, dying, stack, copies, origin, ended>>

(* The container that is being made destroys the elements it has,           *)
ElementGoes ==
  /\ Copying /\ throwing /\ Content(Inner.copy) # <<>>
  /\ LET b == Inner.copy.at
     IN Gone(Head(heap[b]), [heap EXCEPT ![b] = Tail(@)])
  /\ UNCHANGED <<slot, copyVars>>

(* Faulty variant: the payload is freed with its elements in it.            *)
CopyFails_LeavesElements ==
  /\ Copying /\ throwing
  /\ destroy([Inner.copy EXCEPT !.at = NoBlock], FreeBlock(Inner.copy.at))
  /\ copies' = Front(copies)
  /\ throwing' = (copies' # <<>>)
  /\ origin' = IF copies' = <<>> THEN <<>> ELSE origin
  /\ UNCHANGED slot

(* then create() frees the payload, and the value whose type was set before *)
(* is destroyed without one.                                                *)
CopyFails ==
  /\ Copying /\ throwing /\ Content(Inner.copy) = <<>>
  /\ destroy([Inner.copy EXCEPT !.at = NoBlock], FreeBlock(Inner.copy.at))
  /\ copies' = Front(copies)
  /\ throwing' = (copies' # <<>>)
  /\ origin' = IF copies' = <<>> THEN <<>> ELSE origin
  /\ UNCHANGED slot

-----------------------------------------------------------------------------
(* Construction and moves                                                   *)

Construct(v, t) ==
  /\ Runs /\ slot[v] = Dead
  /\ IF t \in Scalars
       THEN slot' = [slot EXCEPT ![v] = Value(t, NoBlock)] /\ UNCHANGED heap
       ELSE \E b \in Free :
              slot' = [slot EXCEPT ![v] = Value(t, b)] /\ heap' = WithBlock(b)
  /\ UNCHANGED <<dying, stack, copyVars, ended>>

(* basic_json w(std::move(v))                                               *)
MoveTo(v, w) ==
  /\ Runs /\ slot[v] # Dead /\ slot[w] = Dead /\ Valid(slot[v])
  /\ slot' = [slot EXCEPT ![w] = slot[v], ![v] = NullValue]
  /\ UNCHANGED <<heap, dying, stack, copyVars, ended>>

(* Of null, the type is changed first and the payload made then.            *)
MakeArray(v) ==
  /\ Runs /\ slot[v].type = "null"
  /\ \/ \E b \in Free :
          slot' = [slot EXCEPT ![v] = Value("array", b)] /\ heap' = WithBlock(b)
     \/ /\ slot' = [slot EXCEPT ![v] = Value("array", NoBlock)]
        /\ UNCHANGED heap
  /\ UNCHANGED <<dying, stack, copyVars, ended>>

(* v.push_back(std::move(w)) of an array                                    *)
MoveInto(v, w) ==
  /\ Runs /\ v # w /\ slot[w] # Dead /\ Valid(slot[w])
  /\ slot[v].type = "array" /\ Valid(slot[v]) /\ Len(Content(slot[v])) < MaxElements
  /\ heap' = [heap EXCEPT ![slot[v].at] = Append(@, slot[w])]
  /\ slot' = [slot EXCEPT ![w] = NullValue]
  /\ UNCHANGED <<dying, stack, copyVars, ended>>

(* A value whose type has no payload: as the source of a copy, a move or an *)
(* assignment it is asserted against, and push_back follows its pointer.    *)
UseInvalid(v) ==
  /\ Runs /\ slot[v] # Dead /\ ~Valid(slot[v])
  /\ ended' \in {"assertion", "null"}
  /\ UNCHANGED <<slot, heap, dying, stack, copyVars>>

(* basic_json w(std::move(v[i])): what was moved from stays, as null.       *)
MoveOut(v, i, w) ==
  /\ Runs /\ slot[v].type = "array" /\ i \in DOMAIN Content(slot[v]) /\ slot[w] = Dead
  /\ slot' = [slot EXCEPT ![w] = Content(slot[v])[i]]
  /\ heap' = [heap EXCEPT ![slot[v].at][i] = NullValue]
  /\ UNCHANGED <<dying, stack, copyVars, ended>>

-----------------------------------------------------------------------------
HeapInit ==
  /\ slot = [v \in Variables |-> Dead]
  /\ heap = [b \in {} |-> <<>>]
  /\ dying = Dead
  /\ stack = <<>>
  /\ copies = <<>> /\ origin = <<>> /\ throwing = FALSE
  /\ ended = "no"

HeapNext ==
  \/ DestroyNext \/ DestroyEnd \/ StackFails
  \/ MakesPayload \/ CopiesElement \/ CopyReturns
  \/ CopyThrows \/ ElementGoes \/ CopyFails
  \/ \E v \in Variables : Destruct(v) \/ MakeArray(v) \/ UseInvalid(v)
  \/ \E v \in Variables, t \in Types : Construct(v, t)
  \/ \E v, w \in Variables :
       \/ Copy(v, w) \/ Assign(v, w) \/ MoveTo(v, w) \/ MoveInto(v, w)
       \/ \E i \in 1 .. MaxElements : MoveOut(v, i, w)

HeapSpec == HeapInit /\ [][HeapNext]_heapVars

-----------------------------------------------------------------------------
(* Properties                                                               *)

(* All that is allocated has one owner, at every moment and whatever fails: *)
(* nothing leaks, nothing is freed twice and no two values share a payload. *)
(* The owners are variables, elements, the copies that are being made, and, *)
(* in the middle of a destruction, destroy() and its stack; and no blocks   *)
(* are owned by each other only (json.hpp:400-664, 1154-1286).              *)
Children(b) == {heap[b][i].at : i \in DOMAIN heap[b]} \ {NoBlock}
Owners(b) ==
  Cardinality({v \in Variables : slot[v].at = b})
    + Cardinality({p \in Allocated \X (1 .. MaxElements) :
                     p[2] \in DOMAIN heap[p[1]] /\ heap[p[1]][p[2]].at = b})
    + Cardinality({i \in DOMAIN copies : copies[i].copy.at = b})
    + Cardinality({i \in DOMAIN stack : stack[i].at = b})
    + (IF dying.at = b THEN 1 ELSE 0)
NoIsland ==
  \A S \in SUBSET Allocated :
    S # {} => \E b \in S : \A c \in S : b \notin Children(c)
OneOwner == ended = "no" => NoIsland /\ \A b \in Allocated : Owners(b) = 1

(* An exception in the middle of a copy, however deep in it, takes back all *)
(* that was copied: when the caller gets it, every payload and every        *)
(* variable is as the copy found it.  On the way nothing ends the program   *)
(* but a stack of destroy() that cannot grow (json.hpp:382-395, :560-569,   *)
(* :1154-1226).                                                             *)
CopyIsUndone ==
  [][throwing \/ throwing' =>
       /\ ended' \in {"no", "terminate"}
       /\ ~throwing' => slot' = origin.slot /\ heap' = origin.heap]_heapVars

=============================================================================
