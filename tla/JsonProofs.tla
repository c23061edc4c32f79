------------------------------ MODULE JsonProofs ------------------------------
(***************************************************************************)
(* Proofs about basic_json: who owns the memory of a value (JsonMemory,    *)
(* for any variables, a heap of any size and arrays of any length), and    *)
(* the order of the values (JsonOrder, for any values of any depth).       *)
(***************************************************************************)
EXTENDS JsonMemory, JsonOrder, FiniteSetTheorems, SequenceTheorems, WellFoundedInduction, TLAPS

(***************************************************************************)
(* JsonMemory                                                              *)
(***************************************************************************)

AnyValues ==
  {v \in [type : Types \cup {"none"}, at : Blocks \cup {NoBlock}] :
     v.type \in Scalars \cup {"none"} => v.at = NoBlock}

Payloads == {s \in Seq(AnyValues) : Len(s) <= MaxElements}

-----------------------------------------------------------------------------
(* Who owns what, of variables and copies s, a heap h, a dying value d and  *)
(* a stack k.                                                               *)

Holders == ({"variable"} \X Variables) \cup ({"copy"} \X Nat)
OfVariable(v) == <<"variable", v>>
OfCopy(n) == <<"copy", n>>

HeldBy(sl, cs) ==
  [o \in Holders |-> IF o[1] = "variable" THEN sl[o[2]]
                     ELSE IF o[2] \in DOMAIN cs THEN cs[o[2]].copy ELSE Dead]

Typed(s, h, d, k) ==
  /\ s \in [Holders -> AnyValues]
  /\ DOMAIN h \subseteq Blocks /\ h \in [DOMAIN h -> Payloads]
  /\ d \in AnyValues
  /\ k \in Seq(AnyValues)

(* No payload is owned twice: not by two owners of the same kind,           *)
HoldersApart(s) ==
  \A v, w \in Holders : s[v].at = s[w].at /\ s[v].at # NoBlock => v = w
ElementsApart(h) ==
  \A b, c \in DOMAIN h : \A i \in DOMAIN h[b], j \in DOMAIN h[c] :
    h[b][i].at = h[c][j].at /\ h[b][i].at # NoBlock => b = c /\ i = j
StackApart(k) ==
  \A i, j \in DOMAIN k : k[i].at = k[j].at /\ k[i].at # NoBlock => i = j

(* nor by owners of two kinds.                                              *)
IsElement(b, h) == \E c \in DOMAIN h : \E i \in DOMAIN h[c] : h[c][i].at = b
OnStack(b, k)   == \E i \in DOMAIN k : k[i].at = b
IsHeld(b, s) == \E v \in Holders : s[v].at = b

KindsApart(s, h, d, k) ==
  /\ \A v \in Holders : s[v].at # NoBlock =>
       ~IsElement(s[v].at, h) /\ ~OnStack(s[v].at, k) /\ s[v].at # d.at
  /\ d.at # NoBlock => ~IsElement(d.at, h) /\ ~OnStack(d.at, k)
  /\ \A i \in DOMAIN k : k[i].at # NoBlock => ~IsElement(k[i].at, h)

(* What is allocated is owned, and what is owned is allocated.              *)
AllOwned(s, h, d, k) ==
  \A b \in DOMAIN h : IsHeld(b, s) \/ IsElement(b, h) \/ OnStack(b, k) \/ d.at = b
NoneDangles(s, h, d, k) ==
  /\ \A v \in Holders : s[v].at \in DOMAIN h \cup {NoBlock}
  /\ \A b \in DOMAIN h : \A i \in DOMAIN h[b] : h[b][i].at \in DOMAIN h \cup {NoBlock}
  /\ \A i \in DOMAIN k : k[i].at \in DOMAIN h \cup {NoBlock}
  /\ d.at \in DOMAIN h \cup {NoBlock}

(* No set of blocks is owned from within only.                              *)
Rooted(h) ==
  \A S \in SUBSET DOMAIN h :
    S # {} => \E b \in S : \A c \in S : \A i \in DOMAIN h[c] : h[c][i].at # b

Owning(s, h, d, k) ==
  /\ Typed(s, h, d, k)
  /\ HoldersApart(s) /\ ElementsApart(h) /\ StackApart(k)
  /\ KindsApart(s, h, d, k)
  /\ AllOwned(s, h, d, k) /\ NoneDangles(s, h, d, k)
  /\ Rooted(h)

(* Between two steps, what dies has given all it held to the stack.         *)
Emptied ==
  IF dying = Dead THEN stack = <<>>
  ELSE dying.at # NoBlock /\ heap[dying.at] = <<>>

MemoryInv == ended = "no" => Owning(HeldBy(slot, copies), heap, dying, stack) /\ Emptied

-----------------------------------------------------------------------------
(* Values and payloads                                                      *)

LEMMA DeadType == Dead \in AnyValues /\ Dead.at = NoBlock /\ NullValue \in AnyValues /\ NullValue.at = NoBlock
BY DEF Dead, NullValue, Value, AnyValues, Types, Scalars

LEMMA EmptyPayload == <<>> \in Payloads
<1>1. <<>> \in Seq(AnyValues) /\ Len(<<>>) = 0
  OBVIOUS
<1> QED
  BY <1>1, BlockAssumption DEF Payloads

LEMMA AtType ==
  ASSUME NEW v \in AnyValues PROVE v.at \in Blocks \cup {NoBlock}
BY DEF AnyValues

(* The elements of a sequence, one by one.                                  *)
LEMMA ElementType ==
  ASSUME NEW s \in Seq(AnyValues), NEW i \in DOMAIN s
  PROVE  s[i] \in AnyValues
OBVIOUS

LEMMA HeapFacts ==
  ASSUME NEW s, NEW h, NEW d, NEW k, Typed(s, h, d, k), NEW b \in DOMAIN h
  PROVE  /\ h[b] \in Seq(AnyValues) /\ Len(h[b]) <= MaxElements /\ Len(h[b]) \in Nat
         /\ DOMAIN h[b] = 1 .. Len(h[b])
         /\ \A i \in DOMAIN h[b] : h[b][i] \in AnyValues
<1>1. h[b] \in Payloads
  BY DEF Typed
<1> QED
  BY <1>1 DEF Payloads

LEMMA FrontThen ==
  ASSUME NEW S, NEW k \in Seq(S), NEW g \in Seq(S), NEW n \in Nat, n <= Len(k)
  PROVE  /\ SubSeq(k, 1, n) \o g \in Seq(S)
         /\ Len(SubSeq(k, 1, n) \o g) = n + Len(g)
         /\ DOMAIN (SubSeq(k, 1, n) \o g) = 1 .. n + Len(g)
         /\ \A i \in 1 .. n : (SubSeq(k, 1, n) \o g)[i] = k[i]
         /\ \A j \in 1 .. Len(g) : (SubSeq(k, 1, n) \o g)[n + j] = g[j]
<1>1. SubSeq(k, 1, n) \in Seq(S) /\ Len(SubSeq(k, 1, n)) = n
      /\ \A i \in 1 .. n : SubSeq(k, 1, n)[i] = k[i]
  OBVIOUS
<1> QED
  BY <1>1

-----------------------------------------------------------------------------
(* Values that own nothing                                                  *)

Slots == [Holders -> AnyValues]

LEMMA NothingGained ==
  ASSUME NEW s, NEW h, NEW d, NEW k, NEW v \in Holders, NEW x \in AnyValues,
         Owning(s, h, d, k), s[v].at = NoBlock, x.at = NoBlock
  PROVE  Owning([s EXCEPT ![v] = x], h, d, k)
<1> DEFINE s1 == [s EXCEPT ![v] = x]
<1>1. s \in Slots /\ s1 \in Slots
  BY DEF Owning, Typed, Slots
<1>2. \A u \in Holders : s1[u].at = s[u].at
  BY <1>1 DEF Slots
<1> HIDE DEF s1
<1>3. Typed(s1, h, d, k)
  BY <1>1 DEF Owning, Typed, Slots
<1>4. HoldersApart(s1)
  BY <1>2 DEF Owning, HoldersApart
<1>5. KindsApart(s1, h, d, k)
  BY <1>2 DEF Owning, KindsApart
<1>6. AllOwned(s1, h, d, k)
  BY <1>2 DEF Owning, AllOwned, IsHeld
<1>7. NoneDangles(s1, h, d, k)
  BY <1>2 DEF Owning, NoneDangles
<1>8. Owning(s1, h, d, k)
  BY <1>3, <1>4, <1>5, <1>6, <1>7 DEF Owning
<1> QED
  BY <1>8 DEF s1

(* What dies without a payload has died.                                    *)
LEMMA NothingDies ==
  ASSUME NEW s, NEW h, NEW d, Owning(s, h, d, <<>>), d.at = NoBlock
  PROVE  Owning(s, h, Dead, <<>>)
<1> USE DeadType
<1>1. Typed(s, h, Dead, <<>>)
  BY DEF Owning, Typed
<1>2. KindsApart(s, h, Dead, <<>>)
  BY DEF Owning, KindsApart
<1>3. AllOwned(s, h, Dead, <<>>)
  <2> SUFFICES ASSUME NEW b \in DOMAIN h PROVE IsHeld(b, s) \/ IsElement(b, h) \/ OnStack(b, <<>>)
    BY DEF AllOwned
  <2>1. b # NoBlock
    BY BlockAssumption DEF Owning, Typed
  <2> QED
    BY <2>1 DEF Owning, AllOwned
<1>4. NoneDangles(s, h, Dead, <<>>)
  BY DEF Owning, NoneDangles
<1> QED
  BY <1>1, <1>2, <1>3, <1>4 DEF Owning

(* A holder goes, and what it was dies.                                     *)
LEMMA HolderGoes ==
  ASSUME NEW s, NEW h, NEW v \in Holders, Owning(s, h, Dead, <<>>)
  PROVE  Owning([s EXCEPT ![v] = Dead], h, s[v], <<>>)
<1> USE DeadType
<1> DEFINE s1 == [s EXCEPT ![v] = Dead]
<1>1. s \in Slots /\ s1 \in Slots
  BY DEF Owning, Typed, Slots
<1>2. s1[v] = Dead /\ \A u \in Holders \ {v} : s1[u] = s[u]
  BY <1>1 DEF Slots
<1> HIDE DEF s1
<1>3. Typed(s1, h, s[v], <<>>)
  BY <1>1 DEF Owning, Typed, Slots
<1>4. HoldersApart(s1)
  BY <1>2 DEF Owning, HoldersApart
<1>5. KindsApart(s1, h, s[v], <<>>)
  BY <1>2 DEF Owning, KindsApart, HoldersApart, OnStack
<1>6. AllOwned(s1, h, s[v], <<>>)
  <2> SUFFICES ASSUME NEW b \in DOMAIN h
               PROVE  IsHeld(b, s1) \/ IsElement(b, h) \/ OnStack(b, <<>>) \/ s[v].at = b
    BY DEF AllOwned
  <2>1. b # NoBlock
    BY BlockAssumption DEF Owning, Typed
  <2>2. CASE IsHeld(b, s)
    BY <1>2, <2>2 DEF IsHeld
  <2> QED
    BY <2>1, <2>2 DEF Owning, AllOwned
<1>7. NoneDangles(s1, h, s[v], <<>>)
  BY <1>2 DEF Owning, NoneDangles
<1>8. Owning(s1, h, s[v], <<>>)
  BY <1>3, <1>4, <1>5, <1>6, <1>7 DEF Owning
<1> QED
  BY <1>8 DEF s1

-----------------------------------------------------------------------------
(* Destruction                                                              *)

(* What the dying value holds goes to the stack.                            *)
LEMMA DestroyBegins ==
  ASSUME NEW s, NEW h, NEW d, Owning(s, h, d, <<>>), d.at # NoBlock
  PROVE  Owning(s, [h EXCEPT ![d.at] = <<>>], d, h[d.at])
<1> DEFINE h1 == [h EXCEPT ![d.at] = <<>>]
           k1 == h[d.at]
<1>1. d.at \in DOMAIN h
  BY DEF Owning, NoneDangles
<1>2. h \in [DOMAIN h -> Payloads] /\ DOMAIN h \subseteq Blocks
  BY DEF Owning, Typed
<1>3. h1 \in [DOMAIN h -> Payloads]
  BY <1>2, EmptyPayload
<1>4. DOMAIN h1 = DOMAIN h /\ DOMAIN h1[d.at] = {} /\ \A c \in DOMAIN h \ {d.at} : h1[c] = h[c]
  BY <1>1, <1>2
<1>5. k1 \in Seq(AnyValues)
  BY <1>1, <1>2 DEF Payloads
<1> HIDE DEF h1, k1
<1>6. \A c \in DOMAIN h1 : \A i \in DOMAIN h1[c] : c \in DOMAIN h \ {d.at} /\ i \in DOMAIN h[c] /\ h1[c][i] = h[c][i]
  BY <1>4
<1>7. Typed(s, h1, d, k1)
  BY <1>2, <1>3, <1>4, <1>5 DEF Owning, Typed
<1>8. ElementsApart(h1)
  BY <1>6 DEF Owning, ElementsApart
<1>9. StackApart(k1)
  BY <1>1 DEF Owning, ElementsApart, StackApart, k1
<1>10. \A b : IsElement(b, h1) => IsElement(b, h)
  BY <1>6 DEF IsElement
<1>11. \A b : OnStack(b, k1) => IsElement(b, h)
  BY <1>1 DEF IsElement, OnStack, k1
<1>12. \A b : b # NoBlock /\ OnStack(b, k1) => ~IsElement(b, h1)
  BY <1>1, <1>6 DEF IsElement, OnStack, k1, Owning, ElementsApart
<1>13. KindsApart(s, h1, d, k1)
  <2>1. \A i \in DOMAIN k1 : OnStack(k1[i].at, k1)
    BY DEF OnStack
  <2> QED
    BY <1>10, <1>11, <1>12, <2>1 DEF Owning, KindsApart
<1>14. AllOwned(s, h1, d, k1)
  <2>1. \A b : IsElement(b, h) => IsElement(b, h1) \/ OnStack(b, k1)
    BY <1>4 DEF IsElement, OnStack, k1
  <2>2. \A b : ~OnStack(b, <<>>)
    BY DEF OnStack
  <2> QED
    BY <1>4, <2>1, <2>2 DEF Owning, AllOwned
<1>15. NoneDangles(s, h1, d, k1)
  BY <1>1, <1>4, <1>6 DEF Owning, NoneDangles, k1
<1>16. Rooted(h1)
  BY <1>4, <1>6 DEF Owning, Rooted
<1>17. Owning(s, h1, d, k1)
  BY <1>7, <1>8, <1>9, <1>13, <1>14, <1>15, <1>16 DEF Owning
<1> QED
  BY <1>17 DEF h1, k1

(* The last value of the stack leaves there what it holds.                  *)
LEMMA NextDies ==
  ASSUME NEW s, NEW h, NEW d, NEW k, Owning(s, h, d, k), k # <<>>
  PROVE  LET e == k[Len(k)]
             held == IF e.at = NoBlock THEN <<>> ELSE h[e.at]
         IN Owning(s, [c \in DOMAIN h \ {e.at} |-> h[c]], d, SubSeq(k, 1, Len(k) - 1) \o held)
<1> DEFINE e == k[Len(k)]
           held == IF e.at = NoBlock THEN <<>> ELSE h[e.at]
           n == Len(k) - 1
           h1 == [c \in DOMAIN h \ {e.at} |-> h[c]]
           k1 == SubSeq(k, 1, n) \o held
<1>1. k \in Seq(AnyValues) /\ n \in Nat /\ Len(k) = n + 1 /\ DOMAIN k = 1 .. n + 1
  BY DEF Owning, Typed
<1>2. e \in AnyValues /\ e.at \in DOMAIN h \cup {NoBlock}
  BY <1>1 DEF Owning, NoneDangles
<1>3. h \in [DOMAIN h -> Payloads] /\ DOMAIN h \subseteq Blocks
  BY DEF Owning, Typed
<1>4. held \in Seq(AnyValues) /\ Len(held) \in Nat /\ DOMAIN held = 1 .. Len(held)
  BY <1>2, <1>3, EmptyPayload DEF Payloads
<1>5. \A j \in DOMAIN held : e.at \in DOMAIN h /\ j \in DOMAIN h[e.at] /\ held[j] = h[e.at][j]
  BY <1>2
<1>51. e.at \in DOMAIN h => held = h[e.at]
  BY <1>3, BlockAssumption
<1>60. n <= Len(k)
  BY <1>1
<1> HIDE DEF n, held
<1>6. k1 \in Seq(AnyValues) /\ DOMAIN k1 = 1 .. n + Len(held)
  BY <1>1, <1>4, <1>60, FrontThen
<1>7. \A i \in 1 .. n : k1[i] = k[i]
  BY <1>1, <1>4, <1>60, FrontThen
<1>80. \A j \in 1 .. Len(held) : k1[n + j] = held[j]
  <2>1. k \in Seq(AnyValues) /\ held \in Seq(AnyValues) /\ n \in Nat
    BY <1>1, <1>4
  <2> HIDE <1>1, <1>4
  <2> QED
    BY ONLY <1>60, <2>1, FrontThen DEF k1
<1>81. \A j \in 1 .. Len(held) : n + j \in 1 .. n + Len(held)
  BY <1>1, <1>4
<1>8. \A j \in DOMAIN held : n + j \in DOMAIN k1 /\ k1[n + j] = held[j]
  BY <1>4, <1>6, <1>80, <1>81
<1>82. 1 .. n \subseteq DOMAIN k /\ Len(k) \in DOMAIN k
  BY <1>1
<1>9. DOMAIN h1 = DOMAIN h \ {e.at} /\ \A c \in DOMAIN h1 : h1[c] = h[c]
  OBVIOUS
<1>10. h1 \in [DOMAIN h1 -> Payloads]
  BY <1>3
<1> HIDE DEF h1, k1, held, n
<1>11. \A i \in DOMAIN k1 : i \in 1 .. n \/ \E j \in DOMAIN held : i = n + j
  <2> SUFFICES ASSUME NEW i \in DOMAIN k1, i \notin 1 .. n PROVE i - n \in DOMAIN held /\ i = n + (i - n)
    OBVIOUS
  <2> QED
    BY <1>1, <1>4, <1>6
<1>12. Typed(s, h1, d, k1)
  BY <1>3, <1>6, <1>9, <1>10 DEF Owning, Typed
<1>13. ElementsApart(h1)
  BY <1>9 DEF Owning, ElementsApart
<1>14. \A b : OnStack(b, k1) <=> (\E i \in 1 .. n : k[i].at = b) \/ (\E j \in DOMAIN held : held[j].at = b)
  <2> SUFFICES ASSUME NEW b PROVE OnStack(b, k1) <=> (\E i \in 1 .. n : k[i].at = b) \/ (\E j \in DOMAIN held : held[j].at = b)
    OBVIOUS
  <2>1. OnStack(b, k1) => (\E i \in 1 .. n : k[i].at = b) \/ (\E j \in DOMAIN held : held[j].at = b)
    BY <1>7, <1>8, <1>11 DEF OnStack
  <2>2. ASSUME NEW i \in 1 .. n, k[i].at = b PROVE OnStack(b, k1)
    <3>1. i \in DOMAIN k1
      BY <1>1, <1>4, <1>6
    <3> QED
      BY <1>7, <2>2, <3>1 DEF OnStack
  <2>3. ASSUME NEW j \in DOMAIN held, held[j].at = b PROVE OnStack(b, k1)
    BY <1>8, <2>3 DEF OnStack
  <2> QED
    BY <2>1, <2>2, <2>3
<1>15. \A b : OnStack(b, k1) => OnStack(b, k) \/ IsElement(b, h)
  BY <1>5, <1>14, <1>82 DEF OnStack, IsElement
<1>16. \A b : IsElement(b, h1) => IsElement(b, h)
  BY <1>9 DEF IsElement
<1>17. \A b : b # NoBlock /\ OnStack(b, k1) => ~IsElement(b, h1)
  <2> SUFFICES ASSUME NEW b, b # NoBlock, OnStack(b, k1), IsElement(b, h1) PROVE FALSE
    OBVIOUS
  <2>1. PICK c \in DOMAIN h1 : \E i \in DOMAIN h1[c] : h1[c][i].at = b
    BY DEF IsElement
  <2>2. PICK i \in DOMAIN h[c] : h[c][i].at = b
    BY <1>9, <2>1
  <2>3. CASE OnStack(b, k)
    BY <1>16, <2>3 DEF Owning, KindsApart, OnStack
  <2>4. ASSUME NEW j \in DOMAIN held, held[j].at = b PROVE FALSE
    BY <1>5, <1>9, <2>2, <2>4 DEF Owning, ElementsApart
  <2> QED
    BY <1>14, <1>82, <2>3, <2>4 DEF OnStack
<1>18. StackApart(k1)
  <2> SUFFICES ASSUME NEW i \in DOMAIN k1, NEW j \in DOMAIN k1, k1[i].at = k1[j].at, k1[i].at # NoBlock
               PROVE  i = j
    BY DEF StackApart
  <2>1. CASE i \in 1 .. n /\ j \in 1 .. n
    BY <1>1, <1>7, <2>1 DEF Owning, StackApart
  <2>2. ASSUME NEW x \in 1 .. n, NEW y \in DOMAIN held, k[x].at = held[y].at, k[x].at # NoBlock PROVE FALSE
    BY <1>1, <1>5, <2>2 DEF Owning, KindsApart, IsElement
  <2>3. ASSUME NEW x \in DOMAIN held, NEW y \in DOMAIN held, held[x].at = held[y].at, held[x].at # NoBlock PROVE x = y
    BY <1>5, <2>3 DEF Owning, ElementsApart
  <2> QED
    BY <1>7, <1>8, <1>11, <2>1, <2>2, <2>3
<1>19. KindsApart(s, h1, d, k1)
  <2>1. \A i \in DOMAIN k1 : OnStack(k1[i].at, k1)
    BY DEF OnStack
  <2> QED
    BY <1>15, <1>16, <1>17, <2>1 DEF Owning, KindsApart
<1>20. AllOwned(s, h1, d, k1)
  <2> SUFFICES ASSUME NEW b \in DOMAIN h1, ~IsHeld(b, s), d.at # b
               PROVE  IsElement(b, h1) \/ OnStack(b, k1)
    BY DEF AllOwned
  <2>1. b \in DOMAIN h /\ b # e.at
    BY <1>9
  <2>2. CASE IsElement(b, h)
    BY <1>9, <1>14, <1>51, <2>2 DEF IsElement
  <2>3. CASE OnStack(b, k)
    <3>1. PICK i \in DOMAIN k : k[i].at = b
      BY <2>3 DEF OnStack
    <3>2. i # Len(k)
      BY <2>1, <3>1
    <3>3. i \in 1 .. n
      BY <1>1, <3>2
    <3> QED
      BY <1>14, <3>1, <3>3
  <2> QED
    BY <2>1, <2>2, <2>3 DEF Owning, AllOwned
<1>21. NoneDangles(s, h1, d, k1)
  <2>0. OnStack(e.at, k)
    BY <1>1 DEF OnStack
  <2>1. \A v \in Holders : s[v].at \in DOMAIN h1 \cup {NoBlock}
    BY <1>9, <2>0 DEF Owning, NoneDangles, KindsApart
  <2>2. \A b \in DOMAIN h1 : \A i \in DOMAIN h1[b] : h1[b][i].at \in DOMAIN h1 \cup {NoBlock}
    BY <1>1, <1>9 DEF Owning, NoneDangles, KindsApart, IsElement
  <2>3. d.at \in DOMAIN h1 \cup {NoBlock}
    BY <1>9, <2>0 DEF Owning, NoneDangles, KindsApart
  <2>4. ASSUME NEW i \in 1 .. n PROVE k[i].at \in DOMAIN h1 \cup {NoBlock}
    <3>1. i \in DOMAIN k /\ Len(k) \in DOMAIN k /\ i # Len(k)
      BY <1>1
    <3>2. k[i].at \in DOMAIN h \cup {NoBlock}
      BY <3>1 DEF Owning, NoneDangles
    <3>3. k[i].at = e.at => k[i].at = NoBlock
      BY <3>1 DEF Owning, StackApart
    <3> QED
      BY <1>9, <3>2, <3>3
  <2>5. ASSUME NEW j \in DOMAIN held PROVE held[j].at \in DOMAIN h1 \cup {NoBlock}
    <3>1. held[j].at \in DOMAIN h \cup {NoBlock} /\ IsElement(held[j].at, h)
      BY <1>5 DEF Owning, NoneDangles, IsElement
    <3>2. held[j].at = e.at => held[j].at = NoBlock
      BY <1>1, <3>1 DEF Owning, KindsApart
    <3> QED
      BY <1>9, <3>1, <3>2
  <2> QED
    BY <1>7, <1>8, <1>11, <2>1, <2>2, <2>3, <2>4, <2>5 DEF NoneDangles
<1>22. Rooted(h1)
  BY <1>9 DEF Owning, Rooted
<1>23. Owning(s, h1, d, k1)
  BY <1>12, <1>13, <1>18, <1>19, <1>20, <1>21, <1>22 DEF Owning
<1> QED
  BY <1>23 DEF h1, k1, held, n

(* And the dying value itself goes.                                         *)
LEMMA DestroyEnds ==
  ASSUME NEW s, NEW h, NEW d, Owning(s, h, d, <<>>), d.at # NoBlock, h[d.at] = <<>>
  PROVE  Owning(s, [c \in DOMAIN h \ {d.at} |-> h[c]], Dead, <<>>)
<1> USE DeadType
<1> DEFINE h1 == [c \in DOMAIN h \ {d.at} |-> h[c]]
<1>1. h \in [DOMAIN h -> Payloads] /\ DOMAIN h \subseteq Blocks
  BY DEF Owning, Typed
<1>2. DOMAIN h1 = DOMAIN h \ {d.at} /\ h1 \in [DOMAIN h1 -> Payloads] /\ \A c \in DOMAIN h1 : h1[c] = h[c]
  BY <1>1
<1> HIDE DEF h1
<1>3. Typed(s, h1, Dead, <<>>)
  BY <1>1, <1>2 DEF Owning, Typed
<1>4. ElementsApart(h1)
  BY <1>2 DEF Owning, ElementsApart
<1>5. \A b : IsElement(b, h1) => IsElement(b, h)
  BY <1>2 DEF IsElement
<1>6. KindsApart(s, h1, Dead, <<>>)
  BY <1>5 DEF Owning, KindsApart
<1>7. AllOwned(s, h1, Dead, <<>>)
  <2>1. \A b : IsElement(b, h) => IsElement(b, h1)
    BY <1>2 DEF IsElement
  <2> QED
    BY <1>2, <2>1 DEF Owning, AllOwned
<1>8. NoneDangles(s, h1, Dead, <<>>)
  BY <1>2 DEF Owning, NoneDangles, KindsApart, IsElement
<1>9. Rooted(h1)
  BY <1>2 DEF Owning, Rooted
<1>10. Owning(s, h1, Dead, <<>>)
  BY <1>3, <1>4, <1>6, <1>7, <1>8, <1>9 DEF Owning
<1> QED
  BY <1>10 DEF h1

-----------------------------------------------------------------------------
(* New payloads and moves                                                   *)

(* A holder that owns nothing gets an empty payload.                        *)
LEMMA PayloadMade ==
  ASSUME NEW s, NEW h, Owning(s, h, Dead, <<>>),
         NEW v \in Holders, s[v].at = NoBlock,
         NEW b \in Blocks \ DOMAIN h, NEW t \in Types \ Scalars
  PROVE  Owning([s EXCEPT ![v] = Value(t, b)],
                [c \in DOMAIN h \cup {b} |-> IF c = b THEN <<>> ELSE h[c]], Dead, <<>>)
<1> USE DeadType
<1> DEFINE x == Value(t, b)
           s1 == [s EXCEPT ![v] = x]
           h1 == [c \in DOMAIN h \cup {b} |-> IF c = b THEN <<>> ELSE h[c]]
<1>1. s \in Slots /\ h \in [DOMAIN h -> Payloads] /\ DOMAIN h \subseteq Blocks /\ b # NoBlock
  BY BlockAssumption DEF Owning, Typed, Slots
<1>2. x \in AnyValues /\ x.at = b
  <2>1. t \notin Scalars \cup {"none"}
    BY DEF Types, Scalars
  <2> QED
    BY <2>1 DEF Value, AnyValues
<1>3. s1 \in Slots /\ s1[v] = x /\ \A u \in Holders \ {v} : s1[u] = s[u]
  BY <1>1, <1>2 DEF Slots
<1>4. DOMAIN h1 = DOMAIN h \cup {b} /\ DOMAIN h1[b] = {} /\ \A c \in DOMAIN h : h1[c] = h[c]
  OBVIOUS
<1>5. h1 \in [DOMAIN h1 -> Payloads]
  BY <1>1, EmptyPayload
<1> HIDE DEF x, s1, h1
<1>6. \A c \in DOMAIN h1 : \A i \in DOMAIN h1[c] :
        c \in DOMAIN h /\ i \in DOMAIN h[c] /\ h1[c][i] = h[c][i]
  BY <1>4
<1>7. \A c \in DOMAIN h : \A i \in DOMAIN h[c] : h[c][i].at # b
  BY <1>1 DEF Owning, NoneDangles
<1>8. \A u \in Holders : s[u].at # b
  BY <1>1 DEF Owning, NoneDangles
<1>9. \A a : IsElement(a, h1) <=> IsElement(a, h)
  BY <1>4, <1>6 DEF IsElement
<1>10. Typed(s1, h1, Dead, <<>>)
  BY <1>1, <1>3, <1>4, <1>5 DEF Typed, Slots
<1>11. HoldersApart(s1)
  BY <1>2, <1>3, <1>8 DEF Owning, HoldersApart
<1>12. ElementsApart(h1)
  BY <1>6 DEF Owning, ElementsApart
<1>13. KindsApart(s1, h1, Dead, <<>>)
  <2>1. ~IsElement(b, h)
    BY <1>7 DEF IsElement
  <2>2. \A a : ~OnStack(a, <<>>)
    BY DEF OnStack
  <2> QED
    BY <1>2, <1>3, <1>9, <2>1, <2>2 DEF Owning, KindsApart
<1>14. AllOwned(s1, h1, Dead, <<>>)
  <2> SUFFICES ASSUME NEW a \in DOMAIN h1 PROVE IsHeld(a, s1) \/ IsElement(a, h1)
    BY DEF AllOwned
  <2>1. CASE a = b
    BY <1>2, <1>3, <2>1 DEF IsHeld
  <2>2. CASE a \in DOMAIN h
    <3>1. IsHeld(a, s) \/ IsElement(a, h)
      BY <1>1, <2>2, BlockAssumption DEF Owning, AllOwned, OnStack
    <3>2. a # NoBlock
      BY <1>1, <2>2, BlockAssumption
    <3> QED
      BY <1>3, <1>9, <3>1, <3>2 DEF IsHeld
  <2> QED
    BY <1>4, <2>1, <2>2
<1>15. NoneDangles(s1, h1, Dead, <<>>)
  BY <1>2, <1>3, <1>4, <1>6 DEF Owning, NoneDangles
<1>16. Rooted(h1)
  <2> SUFFICES ASSUME NEW S \in SUBSET DOMAIN h1, S # {}
               PROVE  \E a \in S : \A c \in S : \A i \in DOMAIN h1[c] : h1[c][i].at # a
    BY DEF Rooted
  <2>1. CASE S \ {b} = {}
    BY <1>4, <2>1
  <2>2. CASE S \ {b} # {}
    <3>1. S \ {b} \in SUBSET DOMAIN h
      BY <1>4
    <3>2. PICK a \in S \ {b} : \A c \in S \ {b} : \A i \in DOMAIN h[c] : h[c][i].at # a
      BY <2>2, <3>1 DEF Owning, Rooted
    <3> QED
      BY <1>4, <3>1, <3>2
  <2> QED
    BY <2>1, <2>2
<1>17. Owning(s1, h1, Dead, <<>>)
  BY <1>10, <1>11, <1>12, <1>13, <1>14, <1>15, <1>16 DEF Owning
<1> QED
  BY <1>17 DEF s1, h1, x

(* What a holder owns goes to another one that owns nothing.                *)
LEMMA Moved ==
  ASSUME NEW s, NEW h, NEW d, Owning(s, h, d, <<>>),
         NEW v \in Holders, NEW w \in Holders, v # w, s[w].at = NoBlock
  PROVE  Owning([s EXCEPT ![w] = s[v], ![v] = NullValue], h, d, <<>>)
<1> USE DeadType
<1> DEFINE s1 == [s EXCEPT ![w] = s[v], ![v] = NullValue]
<1>1. s \in Slots /\ s1 \in Slots
  BY DEF Owning, Typed, Slots
<1>2. s1[v] = NullValue /\ s1[w] = s[v] /\ \A u \in Holders \ {v, w} : s1[u] = s[u]
  BY <1>1 DEF Slots
<1> HIDE DEF s1
<1>3. Typed(s1, h, d, <<>>)
  BY <1>1 DEF Owning, Typed, Slots
<1>4. HoldersApart(s1)
  BY <1>2 DEF Owning, HoldersApart
<1>5. KindsApart(s1, h, d, <<>>)
  BY <1>2 DEF Owning, KindsApart
<1>6. AllOwned(s1, h, d, <<>>)
  <2> SUFFICES ASSUME NEW b \in DOMAIN h, ~IsElement(b, h), d.at # b
               PROVE  IsHeld(b, s1)
    BY DEF AllOwned
  <2>1. b # NoBlock
    BY BlockAssumption DEF Owning, Typed
  <2>2. IsHeld(b, s)
    BY <2>1 DEF Owning, AllOwned, OnStack
  <2> QED
    BY <1>2, <2>1, <2>2 DEF IsHeld
<1>7. NoneDangles(s1, h, d, <<>>)
  BY <1>2 DEF Owning, NoneDangles
<1>8. Owning(s1, h, d, <<>>)
  BY <1>3, <1>4, <1>5, <1>6, <1>7 DEF Owning
<1> QED
  BY <1>8 DEF s1

(* What a holder has goes to the end of the array that another one owns.    *)
LEMMA MovedIn ==
  ASSUME NEW s, NEW h, Owning(s, h, Dead, <<>>),
         NEW v \in Holders, NEW w \in Holders, v # w,
         s[v].at \in DOMAIN h, Len(h[s[v].at]) < MaxElements
  PROVE  Owning([s EXCEPT ![w] = NullValue], [h EXCEPT ![s[v].at] = Append(@, s[w])], Dead, <<>>)
<1> USE DeadType
<1> DEFINE a == s[v].at
           n == Len(h[a])
           x == s[w]
           s1 == [s EXCEPT ![w] = NullValue]
           h1 == [h EXCEPT ![a] = Append(@, x)]
<1>1. s \in Slots /\ h \in [DOMAIN h -> Payloads] /\ DOMAIN h \subseteq Blocks /\ NoBlock \notin DOMAIN h
  BY BlockAssumption DEF Owning, Typed, Slots
<1>2. x \in AnyValues /\ x.at \in DOMAIN h \cup {NoBlock}
  BY <1>1 DEF Owning, NoneDangles, Slots
<1>3. s1 \in Slots /\ s1[w] = NullValue /\ \A u \in Holders \ {w} : s1[u] = s[u]
  BY <1>1 DEF Slots
<1>4. h[a] \in Seq(AnyValues) /\ n \in Nat /\ n < MaxElements /\ DOMAIN h[a] = 1 .. n
  BY <1>1 DEF Payloads
<1>5. /\ Append(h[a], x) \in Seq(AnyValues) /\ Len(Append(h[a], x)) = n + 1
      /\ DOMAIN Append(h[a], x) = DOMAIN h[a] \cup {n + 1} /\ n + 1 \notin DOMAIN h[a]
      /\ Append(h[a], x)[n + 1] = x /\ \A i \in DOMAIN h[a] : Append(h[a], x)[i] = h[a][i]
  BY <1>2, <1>4
<1>6. Append(h[a], x) \in Payloads
  BY <1>4, <1>5, BlockAssumption DEF Payloads
<1>7. DOMAIN h1 = DOMAIN h /\ h1[a] = Append(h[a], x) /\ \A c \in DOMAIN h \ {a} : h1[c] = h[c]
  BY <1>1
<1>8. h1 \in [DOMAIN h1 -> Payloads]
  BY <1>1, <1>6
<1> HIDE DEF h1, s1, n, x
<1>9. \A c \in DOMAIN h : \A i \in DOMAIN h1[c] :
        \/ i \in DOMAIN h[c] /\ h1[c][i] = h[c][i]
        \/ c = a /\ i = n + 1 /\ h1[c][i] = x
  BY <1>5, <1>7
<1>10. \A b : IsElement(b, h1) <=> IsElement(b, h) \/ b = x.at
  BY <1>5, <1>7, <1>9 DEF IsElement
<1>11. x.at # NoBlock => ~IsElement(x.at, h) /\ \A u \in Holders \ {w} : s[u].at # x.at
  BY DEF x, Owning, KindsApart, HoldersApart
<1>12. Typed(s1, h1, Dead, <<>>)
  BY <1>1, <1>3, <1>7, <1>8 DEF Typed, Slots
<1>13. HoldersApart(s1)
  BY <1>3 DEF Owning, HoldersApart
<1>14. ElementsApart(h1)
  <2> SUFFICES ASSUME NEW b \in DOMAIN h, NEW c \in DOMAIN h, NEW i \in DOMAIN h1[b], NEW j \in DOMAIN h1[c],
                      h1[b][i].at = h1[c][j].at, h1[b][i].at # NoBlock
               PROVE  b = c /\ i = j
    BY <1>7 DEF ElementsApart
  <2>1. CASE i \in DOMAIN h[b] /\ h1[b][i] = h[b][i] /\ j \in DOMAIN h[c] /\ h1[c][j] = h[c][j]
    BY <2>1 DEF Owning, ElementsApart
  <2> QED
    BY <1>9, <1>11, <2>1 DEF IsElement
<1>15. KindsApart(s1, h1, Dead, <<>>)
  <2>1. \A b : ~OnStack(b, <<>>)
    BY DEF OnStack
  <2> QED
    BY <1>3, <1>10, <1>11, <2>1 DEF Owning, KindsApart
<1>16. AllOwned(s1, h1, Dead, <<>>)
  <2> SUFFICES ASSUME NEW b \in DOMAIN h PROVE IsHeld(b, s1) \/ IsElement(b, h1)
    BY <1>7 DEF AllOwned
  <2>1. IsHeld(b, s) \/ IsElement(b, h)
    BY <1>1 DEF Owning, AllOwned, OnStack
  <2> QED
    BY <1>3, <1>10, <2>1 DEF IsHeld, x
<1>17. NoneDangles(s1, h1, Dead, <<>>)
  BY <1>2, <1>3, <1>7, <1>9 DEF Owning, NoneDangles
<1>18. Rooted(h1)
  <2> SUFFICES ASSUME NEW S \in SUBSET DOMAIN h, S # {}
               PROVE  \E b \in S : \A c \in S : \A i \in DOMAIN h1[c] : h1[c][i].at # b
    BY <1>7 DEF Rooted
  <2>1. CASE a \in S
    <3>1. a # NoBlock /\ ~IsElement(a, h) /\ a # x.at
      BY <1>1, <1>11 DEF Owning, KindsApart
    <3>2. ~IsElement(a, h1)
      BY <1>10, <3>1
    <3> QED
      BY <1>7, <2>1, <3>2 DEF IsElement
  <2>2. CASE a \notin S
    <3>1. PICK b \in S : \A c \in S : \A i \in DOMAIN h[c] : h[c][i].at # b
      BY DEF Owning, Rooted
    <3>2. \A c \in S : h1[c] = h[c]
      BY <1>7, <2>2
    <3> QED
      BY <3>1, <3>2
  <2> QED
    BY <2>1, <2>2
<1>19. Owning(s1, h1, Dead, <<>>)
  BY <1>12, <1>13, <1>14, <1>15, <1>16, <1>17, <1>18 DEF Owning
<1> QED
  BY <1>19 DEF s1, h1, x

(* And what an element is goes to a holder that owns nothing.               *)
LEMMA MovedOut ==
  ASSUME NEW s, NEW h, Owning(s, h, Dead, <<>>),
         NEW w \in Holders, s[w].at = NoBlock,
         NEW a \in DOMAIN h, NEW m \in DOMAIN h[a]
  PROVE  Owning([s EXCEPT ![w] = h[a][m]], [h EXCEPT ![a][m] = NullValue], Dead, <<>>)
<1> USE DeadType
<1> DEFINE x == h[a][m]
           s1 == [s EXCEPT ![w] = x]
           h1 == [h EXCEPT ![a][m] = NullValue]
<1>1. s \in Slots /\ h \in [DOMAIN h -> Payloads] /\ DOMAIN h \subseteq Blocks /\ NoBlock \notin DOMAIN h
  BY BlockAssumption DEF Owning, Typed, Slots
<1>2. x \in AnyValues /\ x.at \in DOMAIN h \cup {NoBlock}
  BY HeapFacts DEF Owning, NoneDangles
<1>3. s1 \in Slots /\ s1[w] = x /\ \A u \in Holders \ {w} : s1[u] = s[u]
  BY <1>1, <1>2 DEF Slots
<1>4. h[a] \in Seq(AnyValues) /\ Len(h[a]) <= MaxElements
  BY <1>1 DEF Payloads
<1>5. /\ [h[a] EXCEPT ![m] = NullValue] \in Seq(AnyValues)
      /\ Len([h[a] EXCEPT ![m] = NullValue]) = Len(h[a])
      /\ DOMAIN [h[a] EXCEPT ![m] = NullValue] = DOMAIN h[a]
  BY <1>4
<1>6. [h[a] EXCEPT ![m] = NullValue] \in Payloads
  BY <1>4, <1>5 DEF Payloads
<1>7. DOMAIN h1 = DOMAIN h /\ h1[a] = [h[a] EXCEPT ![m] = NullValue] /\ \A c \in DOMAIN h \ {a} : h1[c] = h[c]
  BY <1>1
<1>8. h1 \in [DOMAIN h1 -> Payloads]
  BY <1>1, <1>6
<1>9. \A c \in DOMAIN h : /\ DOMAIN h1[c] = DOMAIN h[c]
                          /\ \A i \in DOMAIN h[c] :
                               h1[c][i] = IF c = a /\ i = m THEN NullValue ELSE h[c][i]
  BY <1>7
<1>10. x.at # NoBlock =>
         /\ \A c \in DOMAIN h : \A i \in DOMAIN h[c] : h[c][i].at = x.at => c = a /\ i = m
         /\ IsElement(x.at, h) /\ \A u \in Holders : s[u].at # x.at
  BY DEF Owning, ElementsApart, IsElement, KindsApart
<1> HIDE DEF h1, s1, x
<1>11. \A b : b # NoBlock => (IsElement(b, h1) => IsElement(b, h) /\ b # x.at)
  <2> SUFFICES ASSUME NEW b, b # NoBlock, NEW c \in DOMAIN h1, NEW i \in DOMAIN h1[c], h1[c][i].at = b
               PROVE  IsElement(b, h) /\ b # x.at
    BY DEF IsElement
  <2>1. c \in DOMAIN h /\ i \in DOMAIN h[c] /\ ~(c = a /\ i = m) /\ h[c][i].at = b
    BY <1>7, <1>9
  <2> QED
    BY <1>10, <2>1 DEF IsElement
<1>12. \A b : b # NoBlock => (IsElement(b, h) => IsElement(b, h1) \/ b = x.at)
  <2> SUFFICES ASSUME NEW b, b # x.at, NEW c \in DOMAIN h, NEW i \in DOMAIN h[c], h[c][i].at = b
               PROVE  IsElement(b, h1)
    BY DEF IsElement
  <2>1. c \in DOMAIN h1 /\ i \in DOMAIN h1[c] /\ h1[c][i].at = b
    BY <1>7, <1>9 DEF x
  <2> QED
    BY <2>1 DEF IsElement
<1>13. Typed(s1, h1, Dead, <<>>)
  BY <1>1, <1>3, <1>7, <1>8 DEF Typed, Slots
<1>14. HoldersApart(s1)
  BY <1>3, <1>10 DEF Owning, HoldersApart
<1>15. ElementsApart(h1)
  BY <1>7, <1>9 DEF Owning, ElementsApart
<1>16. KindsApart(s1, h1, Dead, <<>>)
  <2>1. \A b : ~OnStack(b, <<>>)
    BY DEF OnStack
  <2> QED
    BY <1>3, <1>11, <2>1 DEF Owning, KindsApart
<1>17. AllOwned(s1, h1, Dead, <<>>)
  <2> SUFFICES ASSUME NEW b \in DOMAIN h PROVE IsHeld(b, s1) \/ IsElement(b, h1)
    BY <1>7 DEF AllOwned
  <2>1. b # NoBlock /\ (IsHeld(b, s) \/ IsElement(b, h))
    BY <1>1 DEF Owning, AllOwned, OnStack
  <2> QED
    BY <1>3, <1>12, <2>1 DEF IsHeld
<1>18. NoneDangles(s1, h1, Dead, <<>>)
  BY <1>2, <1>3, <1>7, <1>9 DEF Owning, NoneDangles
<1>19. Rooted(h1)
  <2> SUFFICES ASSUME NEW S \in SUBSET DOMAIN h, S # {}
               PROVE  \E b \in S : \A c \in S : \A i \in DOMAIN h1[c] : h1[c][i].at # b
    BY <1>7 DEF Rooted
  <2>1. PICK b \in S : \A c \in S : \A i \in DOMAIN h[c] : h[c][i].at # b
    BY DEF Owning, Rooted
  <2>2. b # NoBlock
    BY <1>1
  <2>3. ASSUME NEW c \in S, NEW i \in DOMAIN h1[c] PROVE h1[c][i].at # b
    <3>1. c \in DOMAIN h /\ i \in DOMAIN h[c]
      BY <1>9
    <3>2. h1[c][i] = IF c = a /\ i = m THEN NullValue ELSE h[c][i]
      BY <1>9, <3>1
    <3> QED
      BY <2>1, <2>2, <3>1, <3>2
  <2> QED
    BY <2>1, <2>3
<1>20. Owning(s1, h1, Dead, <<>>)
  BY <1>13, <1>14, <1>15, <1>16, <1>17, <1>18, <1>19 DEF Owning, StackApart
<1> QED
  BY <1>20 DEF s1, h1, x

(* The first element of a payload leaves it and dies.                       *)
LEMMA ElementDies ==
  ASSUME NEW s, NEW h, Owning(s, h, Dead, <<>>), NEW a \in DOMAIN h, h[a] # <<>>
  PROVE  Owning(s, [h EXCEPT ![a] = Tail(@)], Head(h[a]), <<>>)
<1> USE DeadType
<1> DEFINE x == Head(h[a])
           h1 == [h EXCEPT ![a] = Tail(@)]
<1>1. h \in [DOMAIN h -> Payloads] /\ DOMAIN h \subseteq Blocks /\ NoBlock \notin DOMAIN h
  BY BlockAssumption DEF Owning, Typed
<1>2. h[a] \in Seq(AnyValues) /\ Len(h[a]) <= MaxElements /\ Len(h[a]) \in Nat /\ Len(h[a]) # 0
  BY <1>1 DEF Payloads
<1>3. /\ Tail(h[a]) \in Seq(AnyValues) /\ Len(Tail(h[a])) = Len(h[a]) - 1
      /\ DOMAIN Tail(h[a]) = 1 .. Len(h[a]) - 1 /\ DOMAIN h[a] = 1 .. Len(h[a])
      /\ \A i \in 1 .. Len(h[a]) - 1 : Tail(h[a])[i] = h[a][i + 1]
      /\ x = h[a][1]
  BY <1>2
<1>4. Tail(h[a]) \in Payloads
  BY <1>2, <1>3, BlockAssumption DEF Payloads
<1>5. DOMAIN h1 = DOMAIN h /\ h1[a] = Tail(h[a]) /\ \A c \in DOMAIN h \ {a} : h1[c] = h[c]
  BY <1>1
<1>6. h1 \in [DOMAIN h1 -> Payloads]
  BY <1>1, <1>4
<1>7. x \in AnyValues /\ x.at \in DOMAIN h \cup {NoBlock} /\ 1 \in DOMAIN h[a]
  <2>1. 1 \in DOMAIN h[a]
    BY <1>2, <1>3
  <2> QED
    BY <1>2, <1>3, <2>1 DEF Owning, NoneDangles
<1> HIDE DEF h1, x
(* where an element was before: the same place, or one further              *)
<1> DEFINE was(c, i) == IF c = a THEN i + 1 ELSE i
<1>8. \A c \in DOMAIN h : \A i \in DOMAIN h1[c] :
        was(c, i) \in DOMAIN h[c] /\ h1[c][i] = h[c][was(c, i)] /\ (c = a => was(c, i) # 1 /\ i \in Nat)
  <2> SUFFICES ASSUME NEW c \in DOMAIN h, NEW i \in DOMAIN h1[c]
               PROVE  /\ was(c, i) \in DOMAIN h[c] /\ h1[c][i] = h[c][was(c, i)]
                      /\ c = a => was(c, i) # 1 /\ i \in Nat
    OBVIOUS
  <2>1. CASE c = a
    <3>1. i \in 1 .. Len(h[a]) - 1
      BY <1>3, <1>5, <2>1
    <3>2. i + 1 \in DOMAIN h[a] /\ i + 1 # 1 /\ i \in Nat
      BY <1>2, <1>3, <3>1
    <3> QED
      BY <1>3, <1>5, <2>1, <3>1, <3>2
  <2>2. CASE c # a
    BY <1>5, <2>2
  <2> QED
    BY <2>1, <2>2
<1>9. \A c \in DOMAIN h : \A i \in DOMAIN h[c] :
        (c = a /\ i = 1) \/ \E j \in DOMAIN h1[c] : h1[c][j] = h[c][i]
  <2> SUFFICES ASSUME NEW c \in DOMAIN h, NEW i \in DOMAIN h[c], ~(c = a /\ i = 1)
               PROVE  \E j \in DOMAIN h1[c] : h1[c][j] = h[c][i]
    OBVIOUS
  <2>1. CASE c = a
    <3>1. i - 1 \in 1 .. Len(h[a]) - 1 /\ (i - 1) + 1 = i
      BY <1>2, <1>3, <2>1
    <3> QED
      BY <1>3, <1>5, <2>1, <3>1
  <2>2. CASE c # a
    BY <1>5, <2>2
  <2> QED
    BY <2>1, <2>2
<1>10. x.at # NoBlock =>
         /\ \A c \in DOMAIN h : \A i \in DOMAIN h[c] : h[c][i].at = x.at => c = a /\ i = 1
         /\ IsElement(x.at, h) /\ \A u \in Holders : s[u].at # x.at
  BY <1>3, <1>7 DEF Owning, ElementsApart, IsElement, KindsApart
<1>11. \A b : b # NoBlock => (IsElement(b, h1) => IsElement(b, h) /\ b # x.at)
  <2> SUFFICES ASSUME NEW b, b # NoBlock, NEW c \in DOMAIN h1, NEW i \in DOMAIN h1[c], h1[c][i].at = b
               PROVE  IsElement(b, h) /\ b # x.at
    BY DEF IsElement
  <2>1. c \in DOMAIN h /\ was(c, i) \in DOMAIN h[c] /\ h[c][was(c, i)].at = b
        /\ ~(c = a /\ was(c, i) = 1)
    BY <1>5, <1>8
  <2> HIDE DEF was
  <2> QED
    BY <1>10, <2>1 DEF IsElement
<1>12. \A b : IsElement(b, h) => IsElement(b, h1) \/ b = x.at
  <2> SUFFICES ASSUME NEW b, b # x.at, NEW c \in DOMAIN h, NEW i \in DOMAIN h[c], h[c][i].at = b
               PROVE  IsElement(b, h1)
    BY DEF IsElement
  <2>1. ~(c = a /\ i = 1)
    BY <1>3
  <2> QED
    BY <1>5, <1>9, <2>1 DEF IsElement
<1>13. Typed(s, h1, x, <<>>)
  BY <1>1, <1>5, <1>6, <1>7 DEF Owning, Typed
<1>14. ElementsApart(h1)
  <2> SUFFICES ASSUME NEW b \in DOMAIN h, NEW c \in DOMAIN h, NEW i \in DOMAIN h1[b], NEW j \in DOMAIN h1[c],
                      h1[b][i].at = h1[c][j].at, h1[b][i].at # NoBlock
               PROVE  b = c /\ i = j
    BY <1>5 DEF ElementsApart
  <2>1. /\ was(b, i) \in DOMAIN h[b] /\ was(c, j) \in DOMAIN h[c]
        /\ h[b][was(b, i)].at = h[c][was(c, j)].at /\ h[b][was(b, i)].at # NoBlock
        /\ b = a => i \in Nat
        /\ c = a => j \in Nat
    BY <1>8
  <2> HIDE DEF was
  <2>2. b = c /\ was(b, i) = was(c, j)
    BY <2>1 DEF Owning, ElementsApart
  <2> QED
    BY <2>1, <2>2 DEF was
<1>15. KindsApart(s, h1, x, <<>>)
  <2>1. \A b : ~OnStack(b, <<>>)
    BY DEF OnStack
  <2> QED
    BY <1>10, <1>11, <2>1 DEF Owning, KindsApart
<1>16. AllOwned(s, h1, x, <<>>)
  <2> SUFFICES ASSUME NEW b \in DOMAIN h PROVE IsHeld(b, s) \/ IsElement(b, h1) \/ x.at = b
    BY <1>5 DEF AllOwned
  <2>1. b # NoBlock /\ (IsHeld(b, s) \/ IsElement(b, h))
    BY <1>1 DEF Owning, AllOwned, OnStack
  <2> QED
    BY <1>12, <2>1
<1>17. NoneDangles(s, h1, x, <<>>)
  BY <1>5, <1>7, <1>8 DEF Owning, NoneDangles
<1>18. Rooted(h1)
  <2> SUFFICES ASSUME NEW S \in SUBSET DOMAIN h, S # {}
               PROVE  \E b \in S : \A c \in S : \A i \in DOMAIN h1[c] : h1[c][i].at # b
    BY <1>5 DEF Rooted
  <2>1. PICK b \in S : \A c \in S : \A i \in DOMAIN h[c] : h[c][i].at # b
    BY DEF Owning, Rooted
  <2> QED
    BY <1>8, <2>1
<1>19. Owning(s, h1, x, <<>>)
  BY <1>13, <1>14, <1>15, <1>16, <1>17, <1>18 DEF Owning, StackApart
<1> QED
  BY <1>19 DEF h1, x

-----------------------------------------------------------------------------
(* Variables and copies as holders                                          *)

Frames == [of : AnyValues, copy : AnyValues]
With(s, o, x) == [s EXCEPT ![o] = x]

LEMMA HolderKinds ==
  /\ \A v \in Variables : OfVariable(v) \in Holders
  /\ \A n \in Nat : OfCopy(n) \in Holders
  /\ \A v, n : OfVariable(v) # OfCopy(n)
  /\ \A v, w : OfVariable(v) = OfVariable(w) => v = w
  /\ \A m, n : OfCopy(m) = OfCopy(n) => m = n
  /\ \A o \in Holders : (\E v \in Variables : o = OfVariable(v)) \/ (\E n \in Nat : o = OfCopy(n))
BY DEF Holders, OfVariable, OfCopy

LEMMA HeldFacts ==
  ASSUME NEW sl \in [Variables -> AnyValues], NEW cs \in Seq(Frames)
  PROVE  /\ HeldBy(sl, cs) \in Slots
         /\ \A v \in Variables : HeldBy(sl, cs)[OfVariable(v)] = sl[v]
         /\ \A n \in Nat : HeldBy(sl, cs)[OfCopy(n)] = IF n \in DOMAIN cs THEN cs[n].copy ELSE Dead
<1>1. \A v \in Variables : HeldBy(sl, cs)[OfVariable(v)] = sl[v]
  BY HolderKinds DEF HeldBy, OfVariable
<1>2. \A n \in Nat : HeldBy(sl, cs)[OfCopy(n)] = IF n \in DOMAIN cs THEN cs[n].copy ELSE Dead
  BY HolderKinds DEF HeldBy, OfCopy
<1>3. \A n \in DOMAIN cs : cs[n].copy \in AnyValues
  <2>1. \A n \in DOMAIN cs : cs[n] \in Frames
    OBVIOUS
  <2> QED
    BY <2>1 DEF Frames
<1>4. \A o \in Holders : HeldBy(sl, cs)[o] \in AnyValues
  BY <1>1, <1>2, <1>3, HolderKinds, DeadType
<1>5. HeldBy(sl, cs) \in Slots
  BY <1>4 DEF HeldBy, Slots
<1> QED
  BY <1>1, <1>2, <1>5

LEMMA HeldAlone ==
  ASSUME NEW sl \in [Variables -> AnyValues]
  PROVE  /\ HeldBy(sl, <<>>) \in Slots
         /\ \A v \in Variables : HeldBy(sl, <<>>)[OfVariable(v)] = sl[v]
         /\ \A n \in Nat : HeldBy(sl, <<>>)[OfCopy(n)] = Dead
<1>1. PICK cs \in Seq(Frames) : cs = <<>>
  <2>1. <<>> \in Seq(Frames)
    OBVIOUS
  <2> QED
    BY <2>1
<1>2. \A n : n \notin DOMAIN cs
  BY <1>1
<1>3. /\ HeldBy(sl, cs) \in Slots
      /\ \A v \in Variables : HeldBy(sl, cs)[OfVariable(v)] = sl[v]
      /\ \A n \in Nat : HeldBy(sl, cs)[OfCopy(n)] = Dead
  BY <1>2, HeldFacts
<1> QED
  BY <1>1, <1>3

(* Two functions on the holders that agree on variables and copies.         *)
LEMMA SameSlots ==
  ASSUME NEW s \in Slots, NEW r \in Slots,
         \A v \in Variables : s[OfVariable(v)] = r[OfVariable(v)],
         \A n \in Nat : s[OfCopy(n)] = r[OfCopy(n)]
  PROVE  s = r
<1>1. \A o \in Holders : s[o] = r[o]
  BY HolderKinds
<1> QED
  BY <1>1 DEF Slots

LEMMA SlotChanged ==
  ASSUME NEW s \in Slots, NEW o \in Holders, NEW x \in AnyValues
  PROVE  /\ With(s, o, x) \in Slots /\ With(s, o, x)[o] = x
         /\ \A p \in Holders \ {o} : With(s, o, x)[p] = s[p]
BY DEF Slots, With

(* A variable changes.                                                      *)
LEMMA HeldSlot ==
  ASSUME NEW sl \in [Variables -> AnyValues], NEW v \in Variables, NEW x \in AnyValues
  PROVE  /\ With(sl, v, x) \in [Variables -> AnyValues]
         /\ HeldBy(With(sl, v, x), <<>>) = With(HeldBy(sl, <<>>), OfVariable(v), x)
<1> DEFINE sl1 == With(sl, v, x)
           s == HeldBy(sl, <<>>)
           r == With(s, OfVariable(v), x)
           s1 == HeldBy(sl1, <<>>)
<1>1. sl1 \in [Variables -> AnyValues] /\ sl1[v] = x /\ \A u \in Variables \ {v} : sl1[u] = sl[u]
  BY DEF With
<1> HIDE DEF sl1
<1>2. s \in Slots /\ s1 \in Slots
  BY <1>1, HeldAlone
<1>3. r \in Slots /\ r[OfVariable(v)] = x /\ \A p \in Holders \ {OfVariable(v)} : r[p] = s[p]
  BY <1>2, HolderKinds, SlotChanged
<1> HIDE DEF r
<1>4. ASSUME NEW u \in Variables PROVE s1[OfVariable(u)] = r[OfVariable(u)]
  <2>1. s1[OfVariable(u)] = sl1[u] /\ s[OfVariable(u)] = sl[u]
    BY <1>1, HeldAlone
  <2>2. u # v => OfVariable(u) \in Holders \ {OfVariable(v)}
    BY HolderKinds
  <2> QED
    BY <1>1, <1>3, <2>1, <2>2
<1>5. \A n \in Nat : s1[OfCopy(n)] = r[OfCopy(n)]
  BY <1>1, <1>3, HeldAlone, HolderKinds
<1>6. s1 = r
  BY <1>2, <1>3, <1>4, <1>5, SameSlots
<1> QED
  BY <1>1, <1>6 DEF r, sl1

(* The copies of cs and c1 differ in the one at n only.                     *)
LEMMA HeldCopies ==
  ASSUME NEW sl \in [Variables -> AnyValues], NEW cs \in Seq(Frames), NEW c1 \in Seq(Frames),
         NEW n \in Nat, NEW x \in AnyValues,
         (IF n \in DOMAIN c1 THEN c1[n].copy ELSE Dead) = x,
         \A i \in Nat \ {n} : (i \in DOMAIN c1 <=> i \in DOMAIN cs) /\ (i \in DOMAIN cs => c1[i] = cs[i])
  PROVE  HeldBy(sl, c1) = With(HeldBy(sl, cs), OfCopy(n), x)
<1> DEFINE s == HeldBy(sl, cs)
           r == With(s, OfCopy(n), x)
           s1 == HeldBy(sl, c1)
<1>1. s \in Slots /\ s1 \in Slots
  BY HeldFacts
<1>2. r \in Slots /\ r[OfCopy(n)] = x /\ \A p \in Holders \ {OfCopy(n)} : r[p] = s[p]
  BY <1>1, HolderKinds, SlotChanged
<1>3. \A u \in Variables : s1[OfVariable(u)] = r[OfVariable(u)]
  BY <1>2, HeldFacts, HolderKinds
<1>4. \A i \in Nat : s1[OfCopy(i)] = r[OfCopy(i)]
  <2> SUFFICES ASSUME NEW i \in Nat PROVE s1[OfCopy(i)] = r[OfCopy(i)]
    OBVIOUS
  <2>1. s1[OfCopy(i)] = (IF i \in DOMAIN c1 THEN c1[i].copy ELSE Dead)
    BY HeldFacts
  <2>2. s[OfCopy(i)] = (IF i \in DOMAIN cs THEN cs[i].copy ELSE Dead)
    BY HeldFacts
  <2>3. CASE i = n
    BY <1>2, <2>1, <2>3
  <2>4. CASE i # n
    <3>1. r[OfCopy(i)] = s[OfCopy(i)]
      BY <1>2, <2>4, HolderKinds
    <3> QED
      BY <2>1, <2>2, <2>4, <3>1
  <2> QED
    BY <2>3, <2>4
<1> HIDE DEF r
<1> QED
  BY <1>1, <1>2, <1>3, <1>4, SameSlots DEF r

LEMMA FramesPushed ==
  ASSUME NEW cs \in Seq(Frames), NEW f \in Frames
  PROVE  /\ Append(cs, f) \in Seq(Frames) /\ Len(Append(cs, f)) = Len(cs) + 1 /\ Len(cs) \in Nat
         /\ DOMAIN Append(cs, f) = 1 .. Len(cs) + 1 /\ DOMAIN cs = 1 .. Len(cs)
         /\ Append(cs, f)[Len(cs) + 1] = f /\ \A i \in DOMAIN cs : Append(cs, f)[i] = cs[i]
OBVIOUS

LEMMA NoneLeft ==
  ASSUME NEW S, NEW q \in Seq(S)
  PROVE  q = <<>> <=> Len(q) = 0
OBVIOUS

LEMMA FramesPopped ==
  ASSUME NEW cs \in Seq(Frames), cs # <<>>
  PROVE  /\ Len(cs) \in Nat \ {0} /\ DOMAIN cs = 1 .. Len(cs) /\ Last(cs) = cs[Len(cs)]
         /\ Front(cs) \in Seq(Frames) /\ Len(Front(cs)) = Len(cs) - 1
         /\ DOMAIN Front(cs) = 1 .. Len(cs) - 1
         /\ \A i \in 1 .. Len(cs) - 1 : Front(cs)[i] = cs[i]
         /\ Front(cs) = <<>> <=> (Len(cs) = 1)
<1>1. Len(cs) \in Nat \ {0} /\ DOMAIN cs = 1 .. Len(cs)
  OBVIOUS
<1>2. PICK m \in Nat : m = Len(cs) - 1
  <2>1. Len(cs) - 1 \in Nat
    BY <1>1
  <2> QED
    BY <2>1
<1>3. /\ SubSeq(cs, 1, m) \in Seq(Frames) /\ Len(SubSeq(cs, 1, m)) = m
      /\ DOMAIN SubSeq(cs, 1, m) = 1 .. m
      /\ \A i \in 1 .. m : SubSeq(cs, 1, m)[i] = cs[i]
  BY <1>1, <1>2
<1>4. SubSeq(cs, 1, m) = <<>> <=> m = 0
  BY <1>3, NoneLeft
<1>5. m = 0 <=> Len(cs) = 1
  BY <1>1, <1>2
<1> QED
  BY <1>1, <1>2, <1>3, <1>4, <1>5 DEF Front, Last

LEMMA HeldPushed ==
  ASSUME NEW sl \in [Variables -> AnyValues], NEW cs \in Seq(Frames), NEW f \in Frames
  PROVE  HeldBy(sl, Append(cs, f)) = With(HeldBy(sl, cs), OfCopy(Len(cs) + 1), f.copy)
<1>1. f.copy \in AnyValues
  BY DEF Frames
<1>2. Append(cs, f) \in Seq(Frames) /\ Len(cs) \in Nat
  BY FramesPushed
<1>3. \A i \in Nat \ {Len(cs) + 1} :
        /\ i \in DOMAIN Append(cs, f) <=> i \in DOMAIN cs
        /\ i \in DOMAIN cs => Append(cs, f)[i] = cs[i]
  BY FramesPushed
<1>4. (IF Len(cs) + 1 \in DOMAIN Append(cs, f) THEN Append(cs, f)[Len(cs) + 1].copy ELSE Dead) = f.copy
  BY FramesPushed
<1>5. PICK n \in Nat : n = Len(cs) + 1
  BY <1>2
<1>6. PICK x \in AnyValues : x = f.copy
  BY <1>1
<1>7. PICK c1 \in Seq(Frames) : c1 = Append(cs, f)
  BY <1>2
<1> QED
  <2>1. (IF n \in DOMAIN c1 THEN c1[n].copy ELSE Dead) = x
    BY <1>4, <1>5, <1>6, <1>7
  <2>2. \A i \in Nat \ {n} : (i \in DOMAIN c1 <=> i \in DOMAIN cs) /\ (i \in DOMAIN cs => c1[i] = cs[i])
    BY <1>3, <1>5, <1>7
  <2>3. HeldBy(sl, c1) = With(HeldBy(sl, cs), OfCopy(n), x)
    BY <2>1, <2>2, HeldCopies
  <2> QED
    BY <1>5, <1>6, <1>7, <2>3

LEMMA HeldPopped ==
  ASSUME NEW sl \in [Variables -> AnyValues], NEW cs \in Seq(Frames), cs # <<>>
  PROVE  HeldBy(sl, Front(cs)) = With(HeldBy(sl, cs), OfCopy(Len(cs)), Dead)
<1>1. Front(cs) \in Seq(Frames) /\ Len(cs) \in Nat
  BY FramesPopped
<1>2. \A i \in Nat \ {Len(cs)} :
        /\ i \in DOMAIN Front(cs) <=> i \in DOMAIN cs
        /\ i \in DOMAIN cs => Front(cs)[i] = cs[i]
  <2>1. \A i \in Nat \ {Len(cs)} : i \in 1 .. Len(cs) - 1 <=> i \in 1 .. Len(cs)
    BY <1>1
  <2> QED
    BY <2>1, FramesPopped
<1>3. Len(cs) \notin DOMAIN Front(cs)
  BY FramesPopped
<1> QED
  BY <1>1, <1>2, <1>3, DeadType, HeldCopies

LEMMA HeldTop ==
  ASSUME NEW sl \in [Variables -> AnyValues], NEW cs \in Seq(Frames), cs # <<>>,
         NEW c1 \in Seq(Frames), DOMAIN c1 = DOMAIN cs,
         \A i \in DOMAIN cs \ {Len(cs)} : c1[i] = cs[i]
  PROVE  HeldBy(sl, c1) = With(HeldBy(sl, cs), OfCopy(Len(cs)), c1[Len(cs)].copy)
<1>1. Len(cs) \in Nat /\ Len(cs) \in DOMAIN cs
  BY FramesPopped
<1>2. c1[Len(cs)] \in Frames
  BY <1>1
<1>3. PICK x \in AnyValues : x = c1[Len(cs)].copy
  BY <1>2 DEF Frames
<1>4. (IF Len(cs) \in DOMAIN c1 THEN c1[Len(cs)].copy ELSE Dead) = x
  BY <1>1, <1>3
<1>5. HeldBy(sl, c1) = With(HeldBy(sl, cs), OfCopy(Len(cs)), x)
  BY <1>1, <1>4, HeldCopies
<1> QED
  BY <1>3, <1>5

-----------------------------------------------------------------------------
(* Copies under way                                                         *)

ElementsValid(h) == \A b \in DOMAIN h : \A i \in DOMAIN h[b] : Valid(h[b][i])

(* What is there of each copy is like what it is of, but for the block; and *)
(* but for the last, something of it is still missing.                      *)
FrameFits(f, g) == f.of.at \in DOMAIN g /\ f.copy.type = f.of.type
Unfinished(f, h) == f.copy.at # NoBlock /\ Len(h[f.copy.at]) < Len(h[f.of.at])

(* With variables sl, copies cs and heap h, the variables and the heap that *)
(* the outermost copy found are there, as it found them.                    *)
Underway(sl, cs, o, h) ==
  /\ o.target \in Variables /\ o.slot = sl
  /\ Owning(HeldBy(sl, <<>>), o.heap, Dead, <<>>)
  /\ \A b \in DOMAIN o.heap : b \in DOMAIN h /\ h[b] = o.heap[b]
  /\ \A i \in DOMAIN cs : FrameFits(cs[i], o.heap)
  /\ \A i \in 1 .. Len(cs) - 1 : Unfinished(cs[i], h)

CopyState(sl, cs, o, t, h) ==
  /\ sl \in [Variables -> AnyValues] /\ cs \in Seq(Frames)
  /\ ElementsValid(h)
  /\ IF cs = <<>> THEN ~t ELSE Underway(sl, cs, o, h)

CopyInv == ended = "no" => CopyState(slot, copies, origin, throwing, heap)

LEMMA ValidKept ==
  ASSUME NEW h, h \in [DOMAIN h -> Payloads], ElementsValid(h), NEW a
  PROVE  /\ ElementsValid([c \in DOMAIN h \cup {a} |-> IF c = a THEN <<>> ELSE h[c]])
         /\ ElementsValid([c \in DOMAIN h \ {a} |-> h[c]])
         /\ ElementsValid([h EXCEPT ![a] = <<>>])
         /\ a \in DOMAIN h /\ h[a] # <<>> => ElementsValid([h EXCEPT ![a] = Tail(@)])
         /\ a \in DOMAIN h => \A x : Valid(x) => ElementsValid([h EXCEPT ![a] = Append(@, x)])
         /\ a \in DOMAIN h => \A m : ElementsValid([h EXCEPT ![a][m] = NullValue])
<1>1. \A c \in DOMAIN h : h[c] \in Seq(AnyValues)
  BY DEF Payloads
<1>2. ElementsValid([c \in DOMAIN h \cup {a} |-> IF c = a THEN <<>> ELSE h[c]])
  BY DEF ElementsValid
<1>3. ElementsValid([c \in DOMAIN h \ {a} |-> h[c]])
  BY DEF ElementsValid
<1>4. ElementsValid([h EXCEPT ![a] = <<>>])
  BY DEF ElementsValid
<1>5. ASSUME a \in DOMAIN h, h[a] # <<>> PROVE ElementsValid([h EXCEPT ![a] = Tail(@)])
  <2>1. h[a] \in Seq(AnyValues) /\ Len(h[a]) \in Nat
    BY <1>1, <1>5
  <2>2. \A i \in DOMAIN Tail(h[a]) : i + 1 \in DOMAIN h[a] /\ Tail(h[a])[i] = h[a][i + 1]
    BY <1>5, <2>1
  <2>3. [h EXCEPT ![a] = Tail(@)] = [h EXCEPT ![a] = Tail(h[a])]
    BY <1>5
  <2>4. PICK q : q = Tail(h[a])
    OBVIOUS
  <2>5. \A i \in DOMAIN q : i + 1 \in DOMAIN h[a] /\ q[i] = h[a][i + 1]
    BY <2>2, <2>4
  <2>6. ElementsValid([h EXCEPT ![a] = q])
    BY <1>5, <2>5 DEF ElementsValid
  <2> QED
    BY <2>3, <2>4, <2>6
<1>6. ASSUME a \in DOMAIN h, NEW x, Valid(x) PROVE ElementsValid([h EXCEPT ![a] = Append(@, x)])
  <2>1. h[a] \in Seq(AnyValues) /\ Len(h[a]) \in Nat
    BY <1>1, <1>6
  <2>2. \A i \in DOMAIN Append(h[a], x) : Append(h[a], x)[i] = x \/ (i \in DOMAIN h[a] /\ Append(h[a], x)[i] = h[a][i])
    BY <2>1
  <2>3. PICK q : q = Append(h[a], x)
    OBVIOUS
  <2>4. ElementsValid([h EXCEPT ![a] = q])
    BY <1>6, <2>2, <2>3 DEF ElementsValid
  <2> QED
    BY <1>6, <2>3, <2>4
<1>7. ASSUME a \in DOMAIN h, NEW m PROVE ElementsValid([h EXCEPT ![a][m] = NullValue])
  <2>1. Valid(NullValue)
    BY DEF Valid, NullValue, Value
  <2>2. h[a] \in Seq(AnyValues)
    BY <1>1, <1>7
  <2> QED
    BY <1>7, <2>1, <2>2 DEF ElementsValid
<1> QED
  BY <1>2, <1>3, <1>4, <1>5, <1>6, <1>7

(* What was there before the copy is no part of it, and does not die.       *)
LEMMA OldIsApart ==
  ASSUME NEW sl \in [Variables -> AnyValues], NEW cs \in Seq(Frames), NEW o, NEW h, NEW d, NEW k,
         Underway(sl, cs, o, h), Owning(HeldBy(sl, cs), h, d, k),
         NEW b \in DOMAIN o.heap
  PROVE  /\ b # NoBlock /\ b \in DOMAIN h
         /\ \A i \in DOMAIN cs : cs[i].copy.at # b
         /\ \A i \in DOMAIN k : k[i].at # b
         /\ d.at # b
         /\ \A c \in DOMAIN h \ DOMAIN o.heap : \A i \in DOMAIN h[c] : h[c][i].at # b
<1> DEFINE s == HeldBy(sl, cs)
           g == o.heap
<1>1. b # NoBlock /\ b \in DOMAIN h
  BY BlockAssumption DEF Underway, Owning, Typed
<1>3. (\E v \in Variables : sl[v].at = b) \/ IsElement(b, g)
  <2>1. IsHeld(b, HeldBy(sl, <<>>)) \/ IsElement(b, g)
    BY <1>1, DeadType DEF Underway, Owning, AllOwned, OnStack
  <2>2. ASSUME NEW u \in Holders, HeldBy(sl, <<>>)[u].at = b PROVE \E v \in Variables : sl[v].at = b
    <3>1. ASSUME NEW n \in Nat, u = OfCopy(n) PROVE FALSE
      BY <1>1, <2>2, <3>1, HeldAlone, DeadType
    <3>2. PICK v \in Variables : u = OfVariable(v)
      BY <3>1, HolderKinds
    <3> QED
      BY <2>2, <3>2, HeldAlone
  <2> QED
    BY <2>1, <2>2 DEF IsHeld
<1>4. \A v \in Variables : OfVariable(v) \in Holders /\ s[OfVariable(v)] = sl[v]
  BY HolderKinds, HeldFacts
<1>5. \A i \in DOMAIN cs : OfCopy(i) \in Holders /\ s[OfCopy(i)] = cs[i].copy /\ \A v : OfVariable(v) # OfCopy(i)
  <2>1. \A i \in DOMAIN cs : i \in Nat
    OBVIOUS
  <2> QED
    BY <2>1, HolderKinds, HeldFacts
<1>6. \A c \in DOMAIN g : c \in DOMAIN h /\ h[c] = g[c]
  BY DEF Underway
<1> HIDE DEF s, g
<1>7. Owning(s, h, d, k)
  BY DEF s
<1>8. CASE \E v \in Variables : sl[v].at = b
  <2>1. PICK v \in Variables : sl[v].at = b
    BY <1>8
  <2>2. s[OfVariable(v)].at = b /\ OfVariable(v) \in Holders
    BY <1>4, <2>1
  <2>3. ~IsElement(b, h) /\ ~OnStack(b, k) /\ d.at # b
    BY <1>1, <1>7, <2>2 DEF Owning, KindsApart
  <2>4. \A i \in DOMAIN cs : cs[i].copy.at # b
    BY <1>1, <1>5, <1>7, <2>2 DEF Owning, HoldersApart
  <2> QED
    BY <1>1, <2>3, <2>4 DEF IsElement, OnStack
<1>9. CASE IsElement(b, g)
  <2>1. PICK c \in DOMAIN g : \E i \in DOMAIN g[c] : g[c][i].at = b
    BY <1>9 DEF IsElement
  <2>2. PICK i \in DOMAIN h[c] : c \in DOMAIN h /\ h[c][i].at = b
    BY <1>6, <2>1
  <2>3. IsElement(b, h)
    BY <2>2 DEF IsElement
  <2>4. \A e \in DOMAIN h : \A j \in DOMAIN h[e] : h[e][j].at = b => e = c
    BY <1>1, <1>7, <2>2 DEF Owning, ElementsApart
  <2>5. \A j \in DOMAIN cs : cs[j].copy.at # b
    BY <1>1, <1>5, <1>7, <2>3 DEF Owning, KindsApart
  <2>6. ~OnStack(b, k) /\ d.at # b
    BY <1>1, <1>7, <2>3 DEF Owning, KindsApart, OnStack
  <2> QED
    BY <1>1, <2>1, <2>4, <2>5, <2>6 DEF OnStack, g
<1> QED
  BY <1>3, <1>8, <1>9

(* Copies own blocks of their own, on no stack and of no element.           *)
LEMMA CopiesApart ==
  ASSUME NEW sl \in [Variables -> AnyValues], NEW cs \in Seq(Frames), NEW h, NEW d, NEW k,
         Owning(HeldBy(sl, cs), h, d, k), NEW i \in DOMAIN cs, cs[i].copy.at # NoBlock
  PROVE  /\ cs[i].copy.at \in DOMAIN h
         /\ \A j \in DOMAIN cs : cs[j].copy.at = cs[i].copy.at => j = i
         /\ \A j \in DOMAIN k : k[j].at # cs[i].copy.at
         /\ d.at # cs[i].copy.at
         /\ \A c \in DOMAIN h : \A j \in DOMAIN h[c] : h[c][j].at # cs[i].copy.at
<1> DEFINE s == HeldBy(sl, cs)
<1>1. \A j \in DOMAIN cs : OfCopy(j) \in Holders /\ s[OfCopy(j)] = cs[j].copy
  <2>1. \A j \in DOMAIN cs : j \in Nat
    OBVIOUS
  <2> QED
    BY <2>1, HolderKinds, HeldFacts
<1> HIDE DEF s
<1>2. Owning(s, h, d, k)
  BY DEF s
<1>3. cs[i].copy.at \in DOMAIN h
  BY <1>1, <1>2 DEF Owning, NoneDangles
<1>4. \A j \in DOMAIN cs : cs[j].copy.at = cs[i].copy.at => j = i
  BY <1>1, <1>2, HolderKinds DEF Owning, HoldersApart
<1>5. ~IsElement(cs[i].copy.at, h) /\ ~OnStack(cs[i].copy.at, k) /\ d.at # cs[i].copy.at
  BY <1>1, <1>2 DEF Owning, KindsApart
<1> QED
  BY <1>3, <1>4, <1>5 DEF IsElement, OnStack

(* The heap changes where neither what was there before nor a copy is.      *)
LEMMA StillUnderway ==
  ASSUME NEW sl, NEW cs, NEW o, NEW h, NEW h1, Underway(sl, cs, o, h), cs \in Seq(Frames),
         \A b \in DOMAIN o.heap : b \in DOMAIN h1 /\ h1[b] = h[b],
         \A i \in 1 .. Len(cs) - 1 : h1[cs[i].copy.at] = h[cs[i].copy.at]
  PROVE  Underway(sl, cs, o, h1)
<1>1. \A i \in 1 .. Len(cs) - 1 : i \in DOMAIN cs
  OBVIOUS
<1>2. ASSUME NEW i \in 1 .. Len(cs) - 1 PROVE Unfinished(cs[i], h1)
  <2>1. cs[i].of.at \in DOMAIN o.heap
    BY <1>1 DEF Underway, FrameFits
  <2>2. h1[cs[i].of.at] = h[cs[i].of.at] /\ h1[cs[i].copy.at] = h[cs[i].copy.at]
    BY <2>1
  <2> QED
    BY <2>2 DEF Underway, Unfinished
<1> QED
  BY <1>2 DEF Underway

-----------------------------------------------------------------------------
(* Every step                                                               *)

LEMMA InitOwns == HeapInit => MemoryInv /\ CopyInv
<1> SUFFICES ASSUME HeapInit PROVE MemoryInv /\ CopyInv
  OBVIOUS
<1> USE DeadType
<1> DEFINE s == HeldBy(slot, copies)
<1>1. slot \in [Variables -> AnyValues] /\ copies = <<>> /\ \A v \in Variables : slot[v] = Dead
  BY DEF HeapInit
<1>2. copies \in Seq(Frames)
  BY <1>1
<1>3. s \in Slots /\ \A o \in Holders : s[o] = Dead
  BY <1>1, HeldAlone, HolderKinds
<1> HIDE DEF s
<1>4. Typed(s, heap, dying, stack)
  BY <1>3 DEF Typed, Slots, HeapInit
<1>5. HoldersApart(s) /\ ElementsApart(heap) /\ StackApart(stack)
  BY <1>3 DEF HoldersApart, ElementsApart, StackApart, HeapInit
<1>6. KindsApart(s, heap, dying, stack)
  BY <1>3 DEF KindsApart, HeapInit
<1>7. AllOwned(s, heap, dying, stack)
  BY DEF AllOwned, HeapInit
<1>8. NoneDangles(s, heap, dying, stack)
  BY <1>3 DEF NoneDangles, HeapInit
<1>9. Rooted(heap)
  BY DEF Rooted, HeapInit
<1>10. MemoryInv
  BY <1>4, <1>5, <1>6, <1>7, <1>8, <1>9 DEF Owning, Emptied, MemoryInv, HeapInit, s
<1>11. CopyInv
  BY <1>1, <1>2 DEF CopyInv, CopyState, ElementsValid, HeapInit
<1> QED
  BY <1>10, <1>11

(* Of what is dying with nothing on the stack, a destructor's first step.   *)
LEMMA GoneOwns ==
  ASSUME NEW s, NEW h, NEW d, Owning(s, h, d, <<>>),
         dying = Dead, stack = <<>>, ended = "no",
         HeldBy(slot', copies') = s, d.at \in DOMAIN h => h[d.at] = Content(d),
         Gone(d, h)
  PROVE  MemoryInv'
<1> USE DeadType
<1>1. CASE ~Valid(d)
  <2>1. ended' = "assertion"
    BY <1>1 DEF Gone
  <2> QED
    BY <2>1 DEF MemoryInv
<1>2. CASE Valid(d) /\ d.at = NoBlock
  <2>1. heap' = h /\ dying' = Dead /\ stack' = <<>>
    BY <1>2 DEF Gone, destroy
  <2>2. Owning(s, h, Dead, <<>>)
    BY <1>2, NothingDies
  <2> QED
    BY <2>1, <2>2 DEF MemoryInv, Emptied
<1>3. CASE Valid(d) /\ d.at # NoBlock
  <2>1. heap' = [h EXCEPT ![d.at] = <<>>] /\ dying' = d /\ stack' = Content(d)
    BY <1>3 DEF Gone, destroy
  <2>2. d.at \in DOMAIN h
    BY <1>3 DEF Owning, NoneDangles
  <2>3. Owning(s, [h EXCEPT ![d.at] = <<>>], d, h[d.at])
    BY <1>3, DestroyBegins
  <2>4. heap'[d.at] = <<>>
    BY <2>1, <2>2
  <2> QED
    BY <1>3, <2>1, <2>2, <2>3, <2>4 DEF MemoryInv, Emptied
<1> QED
  BY <1>1, <1>2, <1>3

LEMMA GoneValid ==
  ASSUME NEW h, h \in [DOMAIN h -> Payloads], ElementsValid(h), NEW d, Gone(d, h)
  PROVE  ElementsValid(heap')
<1>1. ElementsValid([h EXCEPT ![d.at] = <<>>])
  BY ValidKept
<1> QED
  BY <1>1 DEF Gone, destroy

(* Where no copy is under way,                                              *)
LEMMA RunFacts ==
  ASSUME MemoryInv, CopyInv, Runs
  PROVE  /\ Owning(HeldBy(slot, <<>>), heap, Dead, <<>>)
         /\ dying = Dead /\ stack = <<>> /\ copies = <<>> /\ ~throwing /\ ended = "no"
         /\ slot \in [Variables -> AnyValues] /\ <<>> \in Seq(Frames)
         /\ ElementsValid(heap) /\ heap \in [DOMAIN heap -> Payloads]
         /\ \A v \in Variables : OfVariable(v) \in Holders /\ HeldBy(slot, <<>>)[OfVariable(v)] = slot[v]
         /\ \A n \in Nat : OfCopy(n) \in Holders /\ HeldBy(slot, <<>>)[OfCopy(n)] = Dead
<1>1. copies = <<>> /\ dying = Dead /\ ended = "no"
  BY DEF Runs
<1>2. stack = <<>> /\ Owning(HeldBy(slot, <<>>), heap, Dead, <<>>)
  BY <1>1 DEF MemoryInv, Emptied
<1>3. slot \in [Variables -> AnyValues] /\ ~throwing /\ ElementsValid(heap)
  BY <1>1 DEF CopyInv, CopyState
<1>4. heap \in [DOMAIN heap -> Payloads]
  BY <1>2 DEF Owning, Typed
<1>5. <<>> \in Seq(Frames)
  OBVIOUS
<1> QED
  BY <1>1, <1>2, <1>3, <1>4, <1>5, HeldAlone, HolderKinds

(* and none is after the step, the invariants hold of the new state.        *)
LEMMA RunEnds ==
  ASSUME NEW s, s = HeldBy(slot', copies'), Owning(s, heap', Dead, <<>>),
         dying' = Dead, stack' = <<>>, copies' = <<>>, ~throwing',
         slot' \in [Variables -> AnyValues], ElementsValid(heap')
  PROVE  MemoryInv' /\ CopyInv'
<1>1. <<>> \in Seq(Frames)
  OBVIOUS
<1>2. MemoryInv'
  BY DEF MemoryInv, Emptied
<1>3. CopyInv'
  BY <1>1 DEF CopyInv, CopyState
<1> QED
  BY <1>2, <1>3

(* A variable becomes x, and what it was dies.                              *)
LEMMA SlotGone ==
  ASSUME MemoryInv, CopyInv, Runs, NEW v \in Variables, NEW x \in AnyValues, x.at = NoBlock,
         slot' = With(slot, v, x), Gone(slot[v], heap), UNCHANGED copyVars
  PROVE  MemoryInv' /\ CopyInv'
<1>1. PICK s : s = HeldBy(slot, <<>>)
  OBVIOUS
<1>2. PICK h : h = heap
  OBVIOUS
<1>3. PICK o : o = OfVariable(v)
  OBVIOUS
<1>4. PICK d : d = slot[v]
  OBVIOUS
<1>5. Owning(s, h, Dead, <<>>) /\ s[o] = d /\ o \in Holders /\ s \in Slots
  BY <1>1, <1>2, <1>3, <1>4, RunFacts DEF Owning, Typed, Slots
<1>6. Owning([s EXCEPT ![o] = Dead], h, d, <<>>)
  BY <1>5, HolderGoes
<1>7. [s EXCEPT ![o] = Dead][o].at = NoBlock
  BY <1>5, DeadType DEF Slots
<1>8. Owning([[s EXCEPT ![o] = Dead] EXCEPT ![o] = x], h, d, <<>>)
  BY <1>5, <1>6, <1>7, NothingGained
<1>9. [[s EXCEPT ![o] = Dead] EXCEPT ![o] = x] = With(s, o, x)
  BY <1>5 DEF Slots, With
<1>10. HeldBy(slot', copies') = With(s, o, x) /\ slot' \in [Variables -> AnyValues]
  <2>1. copies' = <<>> /\ slot \in [Variables -> AnyValues]
    BY RunFacts DEF copyVars
  <2> QED
    BY <1>1, <1>3, <2>1, HeldSlot
<1>11. d.at \in DOMAIN h => h[d.at] = Content(d)
  BY <1>2, <1>5, BlockAssumption DEF Content, Owning, Typed
<1>12. MemoryInv'
  <2>1. Owning(With(s, o, x), h, d, <<>>)
    BY <1>8, <1>9
  <2>2. Gone(d, h) /\ dying = Dead /\ stack = <<>> /\ ended = "no"
    BY <1>2, <1>4, RunFacts
  <2> QED
    BY <1>10, <1>11, <2>1, <2>2, GoneOwns
<1>13. ElementsValid(heap')
  BY RunFacts, GoneValid
<1>14. CopyInv'
  BY <1>10, <1>13, RunFacts DEF CopyInv, CopyState, copyVars
<1> QED
  BY <1>12, <1>14

LEMMA DestructOwns ==
  ASSUME MemoryInv, CopyInv, NEW v \in Variables, Destruct(v)
  PROVE  MemoryInv' /\ CopyInv'
BY SlotGone, DeadType DEF Destruct, With

(* A variable that owns nothing becomes x,                                  *)
LEMMA SlotFilled ==
  ASSUME MemoryInv, CopyInv, Runs, NEW v \in Variables, slot[v].at = NoBlock,
         NEW x \in AnyValues, x.at = NoBlock,
         slot' = With(slot, v, x), UNCHANGED <<heap, dying, stack, copyVars>>
  PROVE  MemoryInv' /\ CopyInv'
<1>1. PICK s : s = HeldBy(slot, <<>>)
  OBVIOUS
<1>2. PICK o : o = OfVariable(v)
  OBVIOUS
<1>3. Owning(s, heap, Dead, <<>>) /\ s[o].at = NoBlock /\ o \in Holders
  BY <1>1, <1>2, RunFacts
<1>4. Owning(With(s, o, x), heap, Dead, <<>>)
  BY <1>3, NothingGained DEF With
<1>5. HeldBy(slot', copies') = With(s, o, x) /\ slot' \in [Variables -> AnyValues]
  <2>1. copies' = <<>> /\ slot \in [Variables -> AnyValues]
    BY RunFacts DEF copyVars
  <2> QED
    BY <1>1, <1>2, <2>1, HeldSlot
<1> QED
  BY <1>4, <1>5, RunFacts, RunEnds DEF copyVars

(* with or without a new payload.                                           *)
LEMMA SlotMade ==
  ASSUME MemoryInv, CopyInv, Runs, NEW v \in Variables, slot[v].at = NoBlock,
         NEW t \in Types \ Scalars, NEW b \in Free,
         slot' = With(slot, v, Value(t, b)), heap' = WithBlock(b),
         UNCHANGED <<dying, stack, copyVars>>
  PROVE  MemoryInv' /\ CopyInv'
<1>1. PICK s : s = HeldBy(slot, <<>>)
  OBVIOUS
<1>2. PICK o : o = OfVariable(v)
  OBVIOUS
<1>3. PICK h : h = heap
  OBVIOUS
<1>4. Owning(s, h, Dead, <<>>) /\ s[o].at = NoBlock /\ o \in Holders
  BY <1>1, <1>2, <1>3, RunFacts
<1>5. b \in Blocks \ DOMAIN h /\ heap' = [c \in DOMAIN h \cup {b} |-> IF c = b THEN <<>> ELSE h[c]]
  BY <1>3 DEF Free, Allocated, WithBlock
<1>6. Owning(With(s, o, Value(t, b)), heap', Dead, <<>>)
  BY <1>4, <1>5, PayloadMade DEF With
<1>7. Value(t, b) \in AnyValues
  <2>1. t \notin Scalars \cup {"none"}
    BY DEF Types, Scalars
  <2> QED
    BY <2>1, <1>5 DEF Value, AnyValues
<1>8. HeldBy(slot', copies') = With(s, o, Value(t, b)) /\ slot' \in [Variables -> AnyValues]
  <2>1. copies' = <<>> /\ slot \in [Variables -> AnyValues]
    BY RunFacts DEF copyVars
  <2> QED
    BY <1>1, <1>2, <1>7, <2>1, HeldSlot
<1>9. ElementsValid(heap')
  <2>1. h \in [DOMAIN h -> Payloads] /\ ElementsValid(h)
    BY <1>3, RunFacts
  <2>2. ElementsValid([c \in DOMAIN h \cup {b} |-> IF c = b THEN <<>> ELSE h[c]])
    BY <2>1, ValidKept
  <2> QED
    BY <1>5, <2>2
<1> QED
  BY <1>6, <1>7, <1>8, <1>9, RunFacts, RunEnds DEF copyVars

LEMMA MakeArrayOwns ==
  ASSUME MemoryInv, CopyInv, NEW v \in Variables, MakeArray(v)
  PROVE  MemoryInv' /\ CopyInv'
<1>1. Runs /\ slot[v].type = "null" /\ UNCHANGED <<dying, stack, copyVars>>
  BY DEF MakeArray
<1>2. slot[v].at = NoBlock
  <2>1. slot[v] \in AnyValues
    BY <1>1, RunFacts
  <2> QED
    BY <1>1, <2>1 DEF AnyValues, Scalars
<1>3. "array" \in Types \ Scalars
  BY DEF Types, Scalars
<1>4. Value("array", NoBlock) \in AnyValues /\ Value("array", NoBlock).at = NoBlock
  BY DEF Value, AnyValues, Types
<1>5. ASSUME NEW b \in Free, slot' = With(slot, v, Value("array", b)), heap' = WithBlock(b)
      PROVE  MemoryInv' /\ CopyInv'
  BY <1>1, <1>2, <1>3, <1>5, SlotMade
<1>6. ASSUME slot' = With(slot, v, Value("array", NoBlock)), UNCHANGED heap
      PROVE  MemoryInv' /\ CopyInv'
  BY <1>1, <1>2, <1>4, <1>6, SlotFilled
<1> QED
  BY <1>5, <1>6 DEF MakeArray, With

LEMMA ConstructOwns ==
  ASSUME MemoryInv, CopyInv, NEW v \in Variables, NEW t \in Types, Construct(v, t)
  PROVE  MemoryInv' /\ CopyInv'
<1>1. Runs /\ slot[v].at = NoBlock /\ UNCHANGED <<dying, stack, copyVars>>
  BY DeadType DEF Construct
<1>2. CASE t \in Scalars
  <2>1. Value(t, NoBlock) \in AnyValues /\ Value(t, NoBlock).at = NoBlock
    BY DEF Value, AnyValues
  <2>2. slot' = With(slot, v, Value(t, NoBlock)) /\ UNCHANGED heap
    BY <1>2 DEF Construct, With
  <2> QED
    BY <1>1, <2>1, <2>2, SlotFilled
<1>3. CASE t \notin Scalars
  <2>1. PICK b \in Free : slot' = With(slot, v, Value(t, b)) /\ heap' = WithBlock(b)
    BY <1>3 DEF Construct, With
  <2> QED
    BY <1>1, <1>3, <2>1, SlotMade
<1> QED
  BY <1>2, <1>3

LEMMA MoveToOwns ==
  ASSUME MemoryInv, CopyInv, NEW v \in Variables, NEW w \in Variables, MoveTo(v, w)
  PROVE  MemoryInv' /\ CopyInv'
<1> USE DeadType
<1>1. PICK s : s = HeldBy(slot, <<>>)
  OBVIOUS
<1>2. PICK o : o = OfVariable(v)
  OBVIOUS
<1>3. PICK p : p = OfVariable(w)
  OBVIOUS
<1>4. /\ Runs /\ slot[v] # Dead /\ slot[w] = Dead /\ UNCHANGED <<heap, dying, stack, copyVars>>
      /\ slot' = [slot EXCEPT ![w] = slot[v], ![v] = NullValue]
  BY DEF MoveTo
<1>5. Owning(s, heap, Dead, <<>>) /\ s[o] = slot[v] /\ s[p].at = NoBlock /\ o \in Holders /\ p \in Holders /\ o # p
  BY <1>1, <1>2, <1>3, <1>4, RunFacts, HolderKinds
<1>6. Owning([s EXCEPT ![p] = s[o], ![o] = NullValue], heap, Dead, <<>>)
  BY <1>5, Moved
<1>7. slot[v] \in AnyValues /\ slot \in [Variables -> AnyValues] /\ <<>> \in Seq(Frames)
  BY <1>4, RunFacts
<1>8. PICK r : r = With(slot, w, slot[v])
  OBVIOUS
<1>9. r \in [Variables -> AnyValues] /\ HeldBy(r, <<>>) = With(s, p, s[o])
  <2>1. PICK x \in AnyValues : x = slot[v]
    BY <1>7
  <2>2. r = With(slot, w, x)
    BY <1>8, <2>1
  <2>3. r \in [Variables -> AnyValues] /\ HeldBy(r, <<>>) = With(s, p, x)
    BY <1>1, <1>3, <1>7, <2>2, HeldSlot
  <2> QED
    BY <1>5, <2>1, <2>3
<1>10. slot' = With(r, v, NullValue) /\ copies' = <<>>
  BY <1>4, <1>8, RunFacts DEF copyVars, With
<1>11. slot' \in [Variables -> AnyValues] /\ HeldBy(slot', copies') = With(With(s, p, s[o]), o, NullValue)
  BY <1>2, <1>9, <1>10, HeldSlot
<1>12. Owning(With(With(s, p, s[o]), o, NullValue), heap, Dead, <<>>)
  BY <1>6 DEF With
<1> QED
  BY <1>4, <1>10, <1>11, <1>12, RunFacts, RunEnds DEF copyVars

LEMMA MoveIntoOwns ==
  ASSUME MemoryInv, CopyInv, NEW v \in Variables, NEW w \in Variables, MoveInto(v, w)
  PROVE  MemoryInv' /\ CopyInv'
<1> USE DeadType
<1>1. PICK s : s = HeldBy(slot, <<>>)
  OBVIOUS
<1>2. PICK o : o = OfVariable(v)
  OBVIOUS
<1>3. PICK p : p = OfVariable(w)
  OBVIOUS
<1>4. PICK h : h = heap
  OBVIOUS
<1>5. /\ Runs /\ v # w /\ Valid(slot[v]) /\ Valid(slot[w]) /\ slot[v].type = "array"
      /\ UNCHANGED <<dying, stack, copyVars>>
      /\ Len(Content(slot[v])) < MaxElements
      /\ slot' = [slot EXCEPT ![w] = NullValue]
      /\ heap' = [h EXCEPT ![slot[v].at] = Append(@, slot[w])]
  BY <1>4 DEF MoveInto
<1>6. /\ Owning(s, h, Dead, <<>>) /\ s[o] = slot[v] /\ s[p] = slot[w]
      /\ o \in Holders /\ p \in Holders /\ o # p
  BY <1>1, <1>2, <1>3, <1>4, <1>5, RunFacts, HolderKinds
<1>7. s[o].at \in DOMAIN h /\ Content(slot[v]) = h[s[o].at]
  <2>1. slot[v].at # NoBlock
    BY <1>5 DEF Valid
  <2> QED
    BY <1>4, <1>6, <2>1 DEF Content, Owning, NoneDangles
<1>8. Owning(With(s, p, NullValue), heap', Dead, <<>>)
  <2>1. Owning([s EXCEPT ![p] = NullValue], [h EXCEPT ![s[o].at] = Append(@, s[p])], Dead, <<>>)
    BY <1>5, <1>6, <1>7, MovedIn
  <2> QED
    BY <1>5, <1>6, <2>1 DEF With
<1>9. HeldBy(slot', copies') = With(s, p, NullValue) /\ slot' \in [Variables -> AnyValues]
  <2>1. copies' = <<>> /\ slot \in [Variables -> AnyValues]
    BY <1>5, RunFacts DEF copyVars
  <2>2. slot' = With(slot, w, NullValue)
    BY <1>5 DEF With
  <2> QED
    BY <1>1, <1>3, <2>1, <2>2, HeldSlot
<1>10. ElementsValid(heap')
  BY <1>4, <1>5, <1>6, <1>7, RunFacts, ValidKept
<1> QED
  BY <1>5, <1>8, <1>9, <1>10, RunFacts, RunEnds DEF copyVars

LEMMA MoveOutOwns ==
  ASSUME MemoryInv, CopyInv, NEW v \in Variables, NEW w \in Variables, NEW i, MoveOut(v, i, w)
  PROVE  MemoryInv' /\ CopyInv'
<1> USE DeadType
<1>1. PICK s : s = HeldBy(slot, <<>>)
  OBVIOUS
<1>2. PICK p : p = OfVariable(w)
  OBVIOUS
<1>3. PICK h : h = heap
  OBVIOUS
<1>4. PICK a : a = slot[v].at
  OBVIOUS
<1>5. /\ Runs /\ i \in DOMAIN Content(slot[v]) /\ slot[w] = Dead
      /\ UNCHANGED <<dying, stack, copyVars>>
      /\ slot' = [slot EXCEPT ![w] = Content(slot[v])[i]]
      /\ heap' = [h EXCEPT ![a][i] = NullValue]
  BY <1>3, <1>4 DEF MoveOut
<1>6. Owning(s, h, Dead, <<>>) /\ s[p].at = NoBlock /\ p \in Holders
  BY <1>1, <1>2, <1>3, <1>5, RunFacts
<1>7. a \in DOMAIN h /\ Content(slot[v]) = h[a]
  <2>1. a # NoBlock
    BY <1>4, <1>5 DEF Content
  <2>2. s[OfVariable(v)].at = a /\ OfVariable(v) \in Holders
    BY <1>1, <1>4, <1>5, RunFacts
  <2> QED
    BY <1>3, <1>4, <1>6, <2>1, <2>2 DEF Content, Owning, NoneDangles
<1>8. Owning(With(s, p, h[a][i]), heap', Dead, <<>>)
  BY <1>5, <1>6, <1>7, MovedOut DEF With
<1>9. h[a][i] \in AnyValues
  BY <1>5, <1>6, <1>7, HeapFacts DEF Owning
<1>10. HeldBy(slot', copies') = With(s, p, h[a][i]) /\ slot' \in [Variables -> AnyValues]
  <2>1. copies' = <<>> /\ slot \in [Variables -> AnyValues]
    BY <1>5, RunFacts DEF copyVars
  <2>2. slot' = With(slot, w, h[a][i])
    BY <1>5, <1>7 DEF With
  <2> QED
    BY <1>1, <1>2, <1>9, <2>1, <2>2, HeldSlot
<1>11. ElementsValid(heap')
  BY <1>3, <1>5, <1>7, RunFacts, ValidKept
<1> QED
  BY <1>5, <1>8, <1>10, <1>11, RunFacts, RunEnds DEF copyVars

(* Where a copy is under way and nothing dies,                              *)
LEMMA CopyFacts ==
  ASSUME MemoryInv, CopyInv, Copying
  PROVE  /\ Owning(HeldBy(slot, copies), heap, Dead, <<>>)
         /\ dying = Dead /\ stack = <<>> /\ ended = "no"
         /\ slot \in [Variables -> AnyValues] /\ copies \in Seq(Frames) /\ copies # <<>>
         /\ Underway(slot, copies, origin, heap)
         /\ ElementsValid(heap) /\ heap \in [DOMAIN heap -> Payloads] /\ NoBlock \notin DOMAIN heap
         /\ HeldBy(slot, copies) \in Slots
<1>1. copies # <<>> /\ dying = Dead /\ ended = "no"
  BY DEF Copying
<1>2. stack = <<>> /\ Owning(HeldBy(slot, copies), heap, Dead, <<>>)
  BY <1>1 DEF MemoryInv, Emptied
<1>3. /\ slot \in [Variables -> AnyValues] /\ copies \in Seq(Frames)
      /\ ElementsValid(heap) /\ Underway(slot, copies, origin, heap)
  BY <1>1 DEF CopyInv, CopyState
<1>4. heap \in [DOMAIN heap -> Payloads] /\ NoBlock \notin DOMAIN heap
  BY <1>2, BlockAssumption DEF Owning, Typed
<1> QED
  BY <1>1, <1>2, <1>3, <1>4, HeldFacts

(* the innermost copy,                                                      *)
LEMMA InnerFacts ==
  ASSUME MemoryInv, CopyInv, Copying
  PROVE  /\ Len(copies) \in Nat \ {0} /\ DOMAIN copies = 1 .. Len(copies) /\ Inner = copies[Len(copies)]
         /\ Inner \in Frames /\ Inner.of \in AnyValues /\ Inner.copy \in AnyValues
         /\ OfCopy(Len(copies)) \in Holders /\ HeldBy(slot, copies)[OfCopy(Len(copies))] = Inner.copy
         /\ OfCopy(Len(copies) + 1) \in Holders /\ HeldBy(slot, copies)[OfCopy(Len(copies) + 1)] = Dead
         /\ Inner.of.at \in DOMAIN origin.heap /\ Inner.of.at \in DOMAIN heap
         /\ Inner.copy.type = Inner.of.type /\ Inner.of.type \in Types \ Scalars
         /\ Content(Inner.of) = heap[Inner.of.at]
         /\ Inner.copy.at # NoBlock => Inner.copy.at \in DOMAIN heap /\ Content(Inner.copy) = heap[Inner.copy.at]
<1>1. /\ Len(copies) \in Nat \ {0} /\ DOMAIN copies = 1 .. Len(copies) /\ Inner = copies[Len(copies)]
  BY CopyFacts, FramesPopped DEF Inner
<1>2. Len(copies) \in DOMAIN copies /\ Len(copies) + 1 \notin DOMAIN copies /\ Len(copies) + 1 \in Nat
  BY <1>1
<1>3. Inner \in Frames
  BY <1>1, <1>2, CopyFacts
<1>4. Inner.of \in AnyValues /\ Inner.copy \in AnyValues
  BY <1>3 DEF Frames
<1>5. /\ OfCopy(Len(copies)) \in Holders /\ HeldBy(slot, copies)[OfCopy(Len(copies))] = Inner.copy
      /\ OfCopy(Len(copies) + 1) \in Holders /\ HeldBy(slot, copies)[OfCopy(Len(copies) + 1)] = Dead
  BY <1>1, <1>2, CopyFacts, HeldFacts, HolderKinds
<1>6. Inner.of.at \in DOMAIN origin.heap /\ Inner.copy.type = Inner.of.type /\ Inner.of.at \in DOMAIN heap
  BY <1>1, <1>2, CopyFacts DEF Underway, FrameFits
<1>7. Inner.of.at # NoBlock
  BY <1>6, CopyFacts
<1>8. Inner.of.type \in Types \ Scalars
  BY <1>4, <1>7 DEF AnyValues
<1>9. Inner.copy.at # NoBlock => Inner.copy.at \in DOMAIN heap
  BY <1>1, <1>2, CopyFacts, CopiesApart
<1> QED
  BY <1>1, <1>3, <1>4, <1>5, <1>6, <1>7, <1>8, <1>9 DEF Content

(* and what must be shown of a state in which it still is.                  *)
LEMMA StillCopying ==
  ASSUME NEW s, s = HeldBy(slot', copies'), Owning(s, heap', Dead, <<>>),
         dying' = Dead, stack' = <<>>,
         slot' \in [Variables -> AnyValues], copies' \in Seq(Frames), copies' # <<>>,
         ElementsValid(heap'), Underway(slot', copies', origin', heap')
  PROVE  MemoryInv' /\ CopyInv'
<1>1. MemoryInv'
  BY DEF MemoryInv, Emptied
<1>2. CopyInv'
  BY DEF CopyInv, CopyState
<1> QED
  BY <1>1, <1>2

LEMMA WithoutBlock ==
  ASSUME NEW e \in AnyValues
  PROVE  /\ [e EXCEPT !.at = NoBlock] \in AnyValues /\ [e EXCEPT !.at = NoBlock].at = NoBlock
         /\ [e EXCEPT !.at = NoBlock].type = e.type
BY DEF AnyValues

LEMMA FreshFrame ==
  ASSUME NEW e \in AnyValues
  PROVE  /\ [of |-> e, copy |-> [e EXCEPT !.at = NoBlock]] \in Frames
         /\ [of |-> e, copy |-> [e EXCEPT !.at = NoBlock]].copy.at = NoBlock
         /\ \A g : e.at \in DOMAIN g => FrameFits([of |-> e, copy |-> [e EXCEPT !.at = NoBlock]], g)
BY WithoutBlock DEF Frames, FrameFits

LEMMA CopyBeginsOwns ==
  ASSUME MemoryInv, CopyInv, NEW v \in Variables, NEW w \in Variables, CopyBegins(v, w)
  PROVE  MemoryInv' /\ CopyInv'
<1>1. Runs /\ slot[v] # Dead /\ Valid(slot[v])
  BY DEF CopyBegins
<1>2. slot[v] \in AnyValues
  BY <1>1, RunFacts
<1>3. CASE slot[v].at = NoBlock
  <2>1. slot' = With(slot, w, slot[v]) /\ Gone(slot[w], heap) /\ UNCHANGED copyVars
    BY <1>3 DEF CopyBegins, With
  <2> QED
    BY <1>1, <1>2, <1>3, <2>1, SlotGone
<1>4. CASE slot[v].at # NoBlock
  <2>1. PICK f : f = [of |-> slot[v], copy |-> [slot[v] EXCEPT !.at = NoBlock]]
    OBVIOUS
  <2>2. /\ copies' = <<f>> /\ origin' = [target |-> w, slot |-> slot, heap |-> heap]
        /\ UNCHANGED <<slot, heap, dying, stack, throwing, ended>>
    BY <1>4, <2>1 DEF CopyBegins
  <2>3. f \in Frames /\ f.copy \in AnyValues /\ f.copy.at = NoBlock /\ f.of = slot[v]
    BY <1>2, <2>1, FreshFrame, WithoutBlock
  <2>4. PICK cs \in Seq(Frames) : cs = <<>>
    BY <1>1, RunFacts
  <2>5. PICK s : s = HeldBy(slot, cs)
    OBVIOUS
  <2>6. Owning(s, heap, Dead, <<>>) /\ OfCopy(1) \in Holders /\ s[OfCopy(1)].at = NoBlock
    BY <1>1, <2>4, <2>5, RunFacts, DeadType
  <2>7. Owning(With(s, OfCopy(1), f.copy), heap, Dead, <<>>)
    BY <2>3, <2>6, NothingGained DEF With
  <2>8. copies' = Append(cs, f) /\ Len(cs) + 1 = 1
    BY <2>2, <2>4
  <2>9. copies' \in Seq(Frames) /\ copies' # <<>> /\ DOMAIN copies' = {1} /\ copies'[1] = f /\ Len(copies') = 1
    BY <2>2, <2>3
  <2>10. HeldBy(slot', copies') = With(s, OfCopy(1), f.copy)
    <3>1. HeldBy(slot, Append(cs, f)) = With(HeldBy(slot, cs), OfCopy(Len(cs) + 1), f.copy)
      BY <1>1, <2>3, RunFacts, HeldPushed
    <3> QED
      BY <2>2, <2>5, <2>8, <3>1
  <2>11. FrameFits(f, heap)
    <3>1. s[OfVariable(v)] = slot[v] /\ OfVariable(v) \in Holders
      BY <1>1, <2>4, <2>5, RunFacts
    <3>2. slot[v].at \in DOMAIN heap
      BY <1>4, <2>6, <3>1 DEF Owning, NoneDangles
    <3> QED
      BY <1>2, <2>1, <3>2, FreshFrame
  <2>12. Underway(slot', copies', origin', heap')
    <3>1. origin'.target = w /\ origin'.slot = slot /\ origin'.heap = heap
      BY <2>2
    <3>2. Owning(HeldBy(slot, <<>>), heap, Dead, <<>>)
      BY <2>4, <2>5, <2>6
    <3>3. \A i \in 1 .. Len(copies') - 1 : FALSE
      BY <2>9
    <3> QED
      BY <2>2, <2>9, <2>11, <3>1, <3>2, <3>3 DEF Underway
  <2> QED
    BY <1>1, <2>2, <2>7, <2>9, <2>10, <2>12, RunFacts, StillCopying
<1> QED
  BY <1>3, <1>4

(* The last of the copies changes, or is no more.                           *)
LEMMA TopChanged ==
  ASSUME NEW sl, NEW cs, NEW o, NEW h, Underway(sl, cs, o, h), cs \in Seq(Frames), cs # <<>>,
         NEW c1, DOMAIN c1 = DOMAIN cs, Len(c1) = Len(cs),
         \A i \in DOMAIN cs \ {Len(cs)} : c1[i] = cs[i], FrameFits(c1[Len(cs)], o.heap)
  PROVE  Underway(sl, c1, o, h)
<1>1. DOMAIN cs = 1 .. Len(cs) /\ Len(cs) \in Nat \ {0}
  BY FramesPopped
<1>2. \A i \in DOMAIN c1 : FrameFits(c1[i], o.heap)
  BY DEF Underway
<1>3. ASSUME NEW i \in 1 .. Len(c1) - 1 PROVE Unfinished(c1[i], h)
  <2>1. i \in 1 .. Len(cs) - 1
    OBVIOUS
  <2>2. i \in DOMAIN cs \ {Len(cs)}
    <3>1. PICK n \in Nat : n = Len(cs)
      BY <1>1
    <3>2. i \in 1 .. n - 1
      BY <2>1, <3>1
    <3>3. i \in 1 .. n /\ i # n
      BY ONLY <3>2
    <3> QED
      BY <1>1, <3>1, <3>3
  <2>3. Unfinished(cs[i], h) /\ c1[i] = cs[i]
    BY <2>1, <2>2 DEF Underway
  <2> QED
    BY <2>3
<1> QED
  BY <1>2, <1>3 DEF Underway

LEMMA TopGone ==
  ASSUME NEW sl, NEW cs, NEW o, NEW h, Underway(sl, cs, o, h), cs \in Seq(Frames), cs # <<>>
  PROVE  Underway(sl, Front(cs), o, h)
<1>1. PICK c1 : c1 = Front(cs)
  OBVIOUS
<1>2. PICK n \in Nat : n = Len(cs) - 1
  <2>1. Len(cs) - 1 \in Nat
    BY FramesPopped
  <2> QED
    BY <2>1
<1>3. DOMAIN c1 = 1 .. n /\ Len(c1) = n /\ DOMAIN cs = 1 .. n + 1 /\ \A i \in 1 .. n : c1[i] = cs[i]
  <2>1. Len(cs) = n + 1
    BY <1>2, FramesPopped
  <2> QED
    BY <1>1, <1>2, <2>1, FramesPopped
<1>4. \A i \in DOMAIN c1 : FrameFits(c1[i], o.heap)
  <2>1. \A i \in 1 .. n : i \in 1 .. n + 1
    OBVIOUS
  <2> QED
    BY <1>3, <2>1 DEF Underway
<1>5. \A i \in 1 .. n - 1 : i \in 1 .. n
  OBVIOUS
<1>6. ASSUME NEW i \in 1 .. Len(c1) - 1 PROVE Unfinished(c1[i], h)
  <2>1. i \in 1 .. n
    BY <1>3, <1>5
  <2> QED
    BY <1>2, <1>3, <2>1 DEF Underway
<1> QED
  BY <1>1, <1>4, <1>6 DEF Underway

LEMMA MakesPayloadOwns ==
  ASSUME MemoryInv, CopyInv, MakesPayload
  PROVE  MemoryInv' /\ CopyInv'
<1>1. Copying /\ Inner.copy.at = NoBlock /\ UNCHANGED <<slot, dying, stack, origin, throwing, ended>>
  BY DEF MakesPayload
<1>2. PICK b \in Free : copies' = [copies EXCEPT ![Len(copies)].copy.at = b] /\ heap' = WithBlock(b)
  BY DEF MakesPayload
<1>3. PICK n \in Nat : n = Len(copies)
  BY <1>1, InnerFacts
<1>4. PICK h : h = heap
  OBVIOUS
<1>5. PICK s : s = HeldBy(slot, copies)
  OBVIOUS
<1>6. PICK t : t = Inner.copy.type
  OBVIOUS
<1>7. PICK cs : cs = copies
  OBVIOUS
<1>8. Owning(s, h, Dead, <<>>) /\ OfCopy(n) \in Holders /\ s[OfCopy(n)].at = NoBlock /\ t \in Types \ Scalars
  BY <1>1, <1>3, <1>4, <1>5, <1>6, CopyFacts, InnerFacts
<1>9. b \in Blocks \ DOMAIN h /\ heap' = [c \in DOMAIN h \cup {b} |-> IF c = b THEN <<>> ELSE h[c]]
  BY <1>2, <1>4 DEF Free, Allocated, WithBlock
<1>10. Owning(With(s, OfCopy(n), Value(t, b)), heap', Dead, <<>>)
  BY <1>8, <1>9, PayloadMade DEF With
<1>11. cs \in Seq(Frames) /\ cs # <<>> /\ Len(cs) = n /\ cs[n] = Inner
  BY <1>1, <1>3, <1>7, CopyFacts, InnerFacts
<1>12. [cs[n].copy EXCEPT !.at = b] = Value(t, b) /\ Value(t, b) \in AnyValues
  <2>1. cs[n].copy \in AnyValues /\ cs[n].copy.type = t
    BY <1>1, <1>6, <1>11, InnerFacts
  <2>2. t \notin Scalars \cup {"none"}
    BY <1>8 DEF Types, Scalars
  <2> QED
    BY <1>8, <1>9, <2>1, <2>2 DEF AnyValues, Value
<1>13. /\ copies' \in Seq(Frames) /\ Len(copies') = n /\ DOMAIN copies' = DOMAIN cs
       /\ copies'[n] = [of |-> cs[n].of, copy |-> Value(t, b)]
       /\ \A i \in DOMAIN cs \ {n} : copies'[i] = cs[i]
       /\ HeldBy(slot, copies') = With(HeldBy(slot, cs), OfCopy(n), Value(t, b))
  <2>1. n \in DOMAIN cs /\ cs[n] \in Frames
    BY <1>11, FramesPopped
  <2>2. PICK f : f = [of |-> cs[n].of, copy |-> Value(t, b)]
    OBVIOUS
  <2>3. f \in Frames /\ [cs[n] EXCEPT !.copy.at = b] = f
    BY <1>12, <2>1, <2>2 DEF Frames
  <2>4. copies' = [cs EXCEPT ![n] = f]
    BY <1>2, <1>3, <1>7, <2>3
  <2>5. copies' \in Seq(Frames) /\ Len(copies') = n /\ DOMAIN copies' = DOMAIN cs /\ copies'[n] = f
        /\ \A i \in DOMAIN cs \ {n} : copies'[i] = cs[i]
    BY <1>11, <2>1, <2>3, <2>4
  <2>6. HeldBy(slot, copies') = With(HeldBy(slot, cs), OfCopy(n), copies'[n].copy)
    <3>1. slot \in [Variables -> AnyValues]
      BY <1>1, CopyFacts
    <3>2. PICK c1 \in Seq(Frames) : c1 = copies'
      BY <2>5
    <3>3. HeldBy(slot, c1) = With(HeldBy(slot, cs), OfCopy(Len(cs)), c1[Len(cs)].copy)
      BY <1>11, <2>5, <3>1, <3>2, HeldTop
    <3> QED
      BY <1>11, <3>2, <3>3
  <2> QED
    BY <2>2, <2>5, <2>6
<1>14. HeldBy(slot', copies') = With(s, OfCopy(n), Value(t, b))
  BY <1>1, <1>5, <1>7, <1>13
<1>15. ElementsValid(heap')
  <2>1. h \in [DOMAIN h -> Payloads] /\ ElementsValid(h)
    BY <1>1, <1>4, CopyFacts
  <2>2. ElementsValid([c \in DOMAIN h \cup {b} |-> IF c = b THEN <<>> ELSE h[c]])
    BY <2>1, ValidKept
  <2> QED
    BY <1>9, <2>2
<1>16. Underway(slot, cs, origin, heap')
  <2>1. Underway(slot, cs, origin, h) /\ slot \in [Variables -> AnyValues] /\ Owning(HeldBy(slot, cs), h, Dead, <<>>)
    BY <1>1, <1>4, <1>7, CopyFacts
  <2>2. \A c \in DOMAIN h : c \in DOMAIN heap' /\ heap'[c] = h[c]
    BY <1>9
  <2>3. \A c \in DOMAIN origin.heap : c \in DOMAIN heap' /\ heap'[c] = h[c]
    BY <2>1, <2>2 DEF Underway
  <2>4. ASSUME NEW i \in 1 .. Len(cs) - 1 PROVE heap'[cs[i].copy.at] = h[cs[i].copy.at]
    <3>1. i \in DOMAIN cs /\ cs[i].copy.at # NoBlock
      BY <1>11, <2>1 DEF Underway, Unfinished
    <3> QED
      BY <1>11, <2>1, <2>2, <3>1, CopiesApart
  <2> QED
    BY <1>11, <2>1, <2>3, <2>4, StillUnderway
<1>17. Underway(slot', copies', origin', heap')
  <2>1. FrameFits(copies'[n], origin.heap)
    <3>1. copies'[n].of = Inner.of /\ copies'[n].copy.type = t
      BY <1>11, <1>13 DEF Value
    <3> QED
      BY <1>1, <1>6, <3>1, InnerFacts DEF FrameFits
  <2>2. Underway(slot, copies', origin, heap')
    BY <1>11, <1>13, <1>16, <2>1, TopChanged
  <2> QED
    BY <1>1, <2>2
<1>18. copies' # <<>>
  BY <1>11, <1>13
<1> QED
  BY <1>1, <1>10, <1>13, <1>14, <1>15, <1>17, <1>18, CopyFacts, StillCopying

LEMMA CopiesElementOwns ==
  ASSUME MemoryInv, CopyInv, CopiesElement
  PROVE  MemoryInv' /\ CopyInv'
<1>1. /\ Copying /\ Inner.copy.at # NoBlock /\ Left > 0
      /\ UNCHANGED <<slot, dying, stack, origin, throwing, ended>>
  BY DEF CopiesElement
<1>2. PICK n \in Nat : n = Len(copies)
  BY <1>1, InnerFacts
<1>3. PICK h : h = heap
  OBVIOUS
<1>4. PICK s : s = HeldBy(slot, copies)
  OBVIOUS
<1>5. PICK cs : cs = copies
  OBVIOUS
<1>6. PICK a : a = Inner.copy.at
  OBVIOUS
<1>7. PICK c : c = Inner.of.at
  OBVIOUS
<1>8. PICK e : e = h[c][Len(h[a]) + 1]
  OBVIOUS
<1>9. Owning(s, h, Dead, <<>>) /\ Underway(slot, cs, origin, h) /\ slot \in [Variables -> AnyValues]
      /\ cs \in Seq(Frames) /\ cs # <<>> /\ Owning(HeldBy(slot, cs), h, Dead, <<>>) /\ s \in Slots
  BY <1>1, <1>3, <1>4, <1>5, CopyFacts
<1>10. /\ Len(cs) = n /\ cs[n] = Inner /\ DOMAIN cs = 1 .. n /\ n \in DOMAIN cs
       /\ OfCopy(n) \in Holders /\ OfCopy(n + 1) \in Holders
       /\ s[OfCopy(n)].at = a /\ s[OfCopy(n + 1)] = Dead /\ OfCopy(n) # OfCopy(n + 1)
  <2>1. n # n + 1 /\ (n # 0 => n \in 1 .. n)
    BY <1>2
  <2> QED
    BY <1>1, <1>2, <1>4, <1>5, <1>6, <2>1, InnerFacts, HolderKinds
<1>11. /\ a \in DOMAIN h /\ c \in DOMAIN h /\ c \in DOMAIN origin.heap
       /\ Content(Inner.copy) = h[a] /\ Content(Inner.of) = h[c]
  BY <1>1, <1>3, <1>6, <1>7, InnerFacts
<1>12. /\ Len(h[a]) \in Nat /\ Len(h[c]) \in Nat /\ Len(h[c]) <= MaxElements
       /\ DOMAIN h[c] = 1 .. Len(h[c])
  BY <1>9, <1>11, HeapFacts DEF Owning
<1>13. Len(h[a]) < Len(h[c])
  BY <1>1, <1>11, <1>12 DEF Left
<1>14. Len(h[a]) < MaxElements /\ Len(h[a]) + 1 \in DOMAIN h[c]
  BY <1>12, <1>13, BlockAssumption
<1>15. e \in AnyValues /\ Valid(e)
  <2>1. ElementsValid(h)
    BY <1>1, <1>3, CopyFacts
  <2> QED
    BY <1>8, <1>9, <1>11, <1>14, <2>1, HeapFacts DEF Owning, ElementsValid
<1>16. e.at \in DOMAIN origin.heap \cup {NoBlock}
  <2>1. h[c] = origin.heap[c]
    BY <1>9, <1>11 DEF Underway
  <2> QED
    BY <1>8, <1>9, <1>11, <1>14, <2>1 DEF Underway, Owning, NoneDangles
<1>17. CASE e.at = NoBlock
  <2>1. heap' = [h EXCEPT ![a] = Append(@, e)] /\ copies' = cs
    BY <1>3, <1>5, <1>6, <1>8, <1>11, <1>17 DEF CopiesElement
  <2>2. PICK r : r = With(s, OfCopy(n + 1), e)
    OBVIOUS
  <2>3. Owning(r, h, Dead, <<>>) /\ r[OfCopy(n)].at = a /\ r[OfCopy(n + 1)] = e
    <3>1. Owning(r, h, Dead, <<>>)
      BY <1>9, <1>10, <1>15, <1>17, <2>2, DeadType, NothingGained DEF With
    <3>2. r[OfCopy(n)] = s[OfCopy(n)] /\ r[OfCopy(n + 1)] = e
      BY <1>9, <1>10, <2>2 DEF With, Slots
    <3> QED
      BY <1>10, <3>1, <3>2
  <2>4. Owning(With(r, OfCopy(n + 1), NullValue), heap', Dead, <<>>)
    <3>1. Owning([r EXCEPT ![OfCopy(n + 1)] = NullValue],
                 [h EXCEPT ![r[OfCopy(n)].at] = Append(@, r[OfCopy(n + 1)])], Dead, <<>>)
      BY <1>10, <1>11, <1>14, <2>3, MovedIn
    <3> QED
      BY <2>1, <2>3, <3>1 DEF With
  <2>5. PICK q : q = With(r, OfCopy(n + 1), NullValue)
    OBVIOUS
  <2>6. Owning(With(q, OfCopy(n + 1), Dead), heap', Dead, <<>>)
    <3>1. q \in Slots /\ q[OfCopy(n + 1)].at = NoBlock
      BY <1>10, <2>3, <2>5, DeadType DEF With, Slots, Owning, Typed
    <3> QED
      BY <1>10, <2>4, <2>5, <3>1, DeadType, NothingGained DEF With
  <2>7. With(q, OfCopy(n + 1), Dead) = s
    <3> DEFINE y == OfCopy(n + 1)
    <3>1. PICK z : z = With(q, y, Dead)
      OBVIOUS
    <3>2. q = With(r, y, NullValue) /\ y \in Holders /\ s[y] = Dead
      BY <1>10, <2>5
    <3> HIDE DEF y
    <3>3. r \in Slots /\ \A p \in Holders \ {y} : r[p] = s[p]
      BY <1>9, <1>10, <1>15, <2>2, SlotChanged DEF y
    <3>4. q \in Slots /\ \A p \in Holders \ {y} : q[p] = r[p]
      BY <3>2, <3>3, DeadType, SlotChanged
    <3>5. z \in Slots /\ z[y] = Dead /\ \A p \in Holders \ {y} : z[p] = q[p]
      BY <3>1, <3>2, <3>4, DeadType, SlotChanged
    <3>6. \A p \in Holders \ {y} : z[p] = s[p]
      BY <3>3, <3>4, <3>5
    <3>7. z = s
      BY <1>9, <3>2, <3>5, <3>6 DEF Slots
    <3> QED
      BY <3>1, <3>7 DEF y
  <2>8. ElementsValid(heap')
    <3>1. h \in [DOMAIN h -> Payloads] /\ ElementsValid(h)
      BY <1>1, <1>3, CopyFacts
    <3> QED
      BY <1>11, <1>15, <2>1, <3>1, ValidKept
  <2>9. Underway(slot, cs, origin, heap')
    <3>1. DOMAIN heap' = DOMAIN h /\ \A b \in DOMAIN h \ {a} : heap'[b] = h[b]
      BY <2>1
    <3>2. ASSUME NEW b \in DOMAIN origin.heap PROVE b \in DOMAIN heap' /\ heap'[b] = h[b]
      BY <1>6, <1>9, <1>10, <3>1, OldIsApart
    <3>3. ASSUME NEW i \in 1 .. Len(cs) - 1 PROVE heap'[cs[i].copy.at] = h[cs[i].copy.at]
      <4>1. i \in DOMAIN cs /\ i # n
        BY <1>10
      <4>2. cs[i].copy.at # NoBlock
        BY <1>9 DEF Underway, Unfinished
      <4>3. cs[i].copy.at \in DOMAIN h /\ cs[i].copy.at # a
        BY <1>1, <1>6, <1>9, <1>10, <4>1, <4>2, CopiesApart
      <4> QED
        BY <3>1, <4>3
    <3> QED
      BY <1>9, <3>2, <3>3, StillUnderway
  <2>10. s = HeldBy(slot', copies') /\ Underway(slot', copies', origin', heap')
    BY <1>1, <1>4, <1>5, <2>1, <2>9
  <2>11. Owning(s, heap', Dead, <<>>)
    BY <2>6, <2>7
  <2> QED
    BY <1>1, <1>9, <2>1, <2>8, <2>10, <2>11, CopyFacts, StillCopying
<1>18. CASE e.at # NoBlock
  <2>1. PICK f : f = [of |-> e, copy |-> [e EXCEPT !.at = NoBlock]]
    OBVIOUS
  <2>2. heap' = h /\ copies' = Append(cs, f)
    BY <1>3, <1>5, <1>6, <1>8, <1>11, <1>18, <2>1 DEF CopiesElement
  <2>3. f \in Frames /\ f.copy \in AnyValues /\ f.copy.at = NoBlock /\ FrameFits(f, origin.heap)
    BY <1>15, <1>16, <1>18, <2>1, FreshFrame, WithoutBlock
  <2>4. Owning(With(s, OfCopy(n + 1), f.copy), heap', Dead, <<>>)
    BY <1>9, <1>10, <2>2, <2>3, DeadType, NothingGained DEF With
  <2>5. HeldBy(slot', copies') = With(s, OfCopy(n + 1), f.copy)
    <3>1. HeldBy(slot, Append(cs, f)) = With(HeldBy(slot, cs), OfCopy(Len(cs) + 1), f.copy)
      BY <1>9, <2>3, HeldPushed
    <3> QED
      BY <1>1, <1>4, <1>5, <1>10, <2>2, <3>1
  <2>6. PICK c1 : c1 = copies'
    OBVIOUS
  <2>7. /\ c1 \in Seq(Frames) /\ Len(c1) = n + 1 /\ DOMAIN c1 = 1 .. n + 1
        /\ c1[n + 1] = f /\ \A i \in 1 .. n : c1[i] = cs[i]
    BY <1>9, <1>10, <2>2, <2>3, <2>6, FramesPushed
  <2>8. Underway(slot, c1, origin, h)
    <3>1. ASSUME NEW i \in DOMAIN c1 PROVE FrameFits(c1[i], origin.heap)
      <4>1. i \in 1 .. n \/ i = n + 1
        BY <2>7
      <4> QED
        BY <1>9, <1>10, <2>3, <2>7, <4>1 DEF Underway
    <3>2. ASSUME NEW i \in 1 .. n PROVE Unfinished(c1[i], h)
      <4>1. i \in 1 .. n - 1 \/ i = n
        OBVIOUS
      <4>2. CASE i = n
        BY <1>1, <1>6, <1>7, <1>10, <1>13, <2>7, <4>2 DEF Unfinished
      <4>3. CASE i \in 1 .. n - 1
        BY <1>9, <1>10, <2>7, <4>3 DEF Underway
      <4> QED
        BY <4>1, <4>2, <4>3
    <3>3. 1 .. Len(c1) - 1 = 1 .. n
      BY <2>7
    <3> QED
      BY <1>9, <3>1, <3>2, <3>3 DEF Underway
  <2>9. c1 # <<>>
    BY <2>7
  <2>10. Underway(slot', copies', origin', heap')
    BY <1>1, <2>2, <2>6, <2>8
  <2>11. ElementsValid(heap')
    BY <1>1, <1>3, <2>2, CopyFacts
  <2> QED
    BY <1>1, <1>9, <2>4, <2>5, <2>6, <2>7, <2>9, <2>10, <2>11, CopyFacts, StillCopying
<1> QED
  BY <1>17, <1>18

(* A copy that is whole becomes an element of the one around it,            *)
LEMMA InnerReturns ==
  ASSUME MemoryInv, CopyInv, CopyReturns, copies' # <<>>
  PROVE  MemoryInv' /\ CopyInv'
<1>1. /\ Copying /\ Inner.copy.at # NoBlock /\ copies' = Front(copies)
      /\ heap' = [heap EXCEPT ![Outer.copy.at] = Append(@, Inner.copy)]
      /\ UNCHANGED <<slot, dying, stack, origin, throwing, ended>>
  BY DEF CopyReturns
<1>2. PICK n \in Nat : n = Len(copies)
  BY <1>1, InnerFacts
<1>3. PICK h : h = heap
  OBVIOUS
<1>4. PICK s : s = HeldBy(slot, copies)
  OBVIOUS
<1>5. PICK cs : cs = copies
  OBVIOUS
<1>6. PICK c1 : c1 = Front(cs)
  OBVIOUS
<1>7. PICK x : x = Inner.copy
  OBVIOUS
<1>8. /\ Owning(s, h, Dead, <<>>) /\ Underway(slot, cs, origin, h) /\ slot \in [Variables -> AnyValues]
      /\ cs \in Seq(Frames) /\ cs # <<>> /\ Owning(HeldBy(slot, cs), h, Dead, <<>>) /\ s \in Slots
  BY <1>1, <1>3, <1>4, <1>5, CopyFacts
<1>9. PICK m \in Nat : n = m + 1 /\ m # 0
  <2>1. n # 0 /\ n # 1 /\ n - 1 \in Nat
    BY <1>1, <1>2, <1>5, <1>8, FramesPopped
  <2> QED
    BY <2>1
<1>10. /\ Len(cs) = n /\ cs[n] = Inner /\ DOMAIN cs = 1 .. n
       /\ c1 \in Seq(Frames) /\ Len(c1) = m /\ DOMAIN c1 = 1 .. m /\ \A i \in 1 .. m : c1[i] = cs[i]
  <2>1. Len(cs) = n /\ cs[n] = Inner /\ DOMAIN cs = 1 .. n
    BY <1>1, <1>2, <1>5, InnerFacts
  <2>2. n - 1 = m
    BY <1>9
  <2>3. /\ Front(cs) \in Seq(Frames) /\ Len(Front(cs)) = n - 1 /\ DOMAIN Front(cs) = 1 .. n - 1
        /\ \A i \in 1 .. n - 1 : Front(cs)[i] = cs[i]
    BY <1>8, <2>1, FramesPopped
  <2> QED
    BY <1>6, <2>1, <2>2, <2>3
<1>11. m \in 1 .. n /\ n \in 1 .. n /\ m \in 1 .. m /\ m \in 1 .. n - 1 /\ m # n /\ n - 1 = m
  BY <1>9
<1>12. PICK a : a = cs[m].copy.at
  OBVIOUS
<1>13. /\ OfCopy(n) \in Holders /\ OfCopy(m) \in Holders /\ OfCopy(m) # OfCopy(n)
       /\ s[OfCopy(n)] = x /\ s[OfCopy(m)].at = a /\ x \in AnyValues
  <2>1. s[OfCopy(n)] = x /\ x \in AnyValues
    BY <1>1, <1>2, <1>4, <1>7, InnerFacts
  <2>2. s[OfCopy(m)] = cs[m].copy
    BY <1>4, <1>5, <1>8, <1>10, <1>11, HeldFacts
  <2> QED
    BY <1>11, <1>12, <2>1, <2>2, HolderKinds
<1>14. Outer = cs[m]
  BY <1>2, <1>5, <1>11 DEF Outer
<1>15. Unfinished(cs[m], h)
  BY <1>8, <1>10, <1>11 DEF Underway
<1>16. a # NoBlock /\ a \in DOMAIN h /\ Len(h[a]) < MaxElements
  <2>1. a # NoBlock /\ Len(h[a]) < Len(h[cs[m].of.at])
    BY <1>12, <1>15 DEF Unfinished
  <2>2. a \in DOMAIN h
    BY <1>8, <1>10, <1>11, <1>12, <2>1, CopiesApart
  <2>3. cs[m].of.at \in DOMAIN h
    BY <1>8, <1>10, <1>11 DEF Underway, FrameFits
  <2>4. Len(h[a]) \in Nat /\ Len(h[cs[m].of.at]) \in Nat /\ Len(h[cs[m].of.at]) <= MaxElements
    BY <1>8, <2>2, <2>3, HeapFacts DEF Owning
  <2> QED
    BY <2>1, <2>2, <2>4, BlockAssumption
<1>17. heap' = [h EXCEPT ![a] = Append(@, x)]
  BY <1>1, <1>3, <1>7, <1>12, <1>14
<1>18. PICK r : r = With(s, OfCopy(n), NullValue)
  OBVIOUS
<1>19. Owning(r, heap', Dead, <<>>)
  <2>1. Owning([s EXCEPT ![OfCopy(n)] = NullValue], [h EXCEPT ![s[OfCopy(m)].at] = Append(@, s[OfCopy(n)])], Dead, <<>>)
    BY <1>8, <1>13, <1>16, MovedIn
  <2> QED
    BY <1>13, <1>17, <1>18, <2>1 DEF With
<1>20. r \in Slots /\ r[OfCopy(n)] = NullValue
  BY <1>8, <1>13, <1>18, DeadType, SlotChanged
<1>21. Owning(With(r, OfCopy(n), Dead), heap', Dead, <<>>)
  BY <1>13, <1>19, <1>20, DeadType, NothingGained DEF With
<1>22. With(r, OfCopy(n), Dead) = With(s, OfCopy(n), Dead)
  BY <1>8, <1>13, <1>18 DEF With, Slots
<1>23. HeldBy(slot', copies') = With(s, OfCopy(n), Dead)
  <2>1. HeldBy(slot, Front(cs)) = With(HeldBy(slot, cs), OfCopy(Len(cs)), Dead)
    BY <1>8, HeldPopped
  <2> QED
    BY <1>1, <1>4, <1>5, <1>10, <2>1
<1>24. ElementsValid(heap')
  <2>1. h \in [DOMAIN h -> Payloads] /\ ElementsValid(h) /\ Valid(x)
    BY <1>1, <1>3, <1>7, CopyFacts DEF Valid
  <2> QED
    BY <1>16, <1>17, <2>1, ValidKept
<1>25. Underway(slot, c1, origin, heap')
  <2>1. Underway(slot, c1, origin, h)
    BY <1>6, <1>8, TopGone
  <2>2. DOMAIN heap' = DOMAIN h /\ \A b \in DOMAIN h \ {a} : heap'[b] = h[b]
    BY <1>17
  <2>3. ASSUME NEW b \in DOMAIN origin.heap PROVE b \in DOMAIN heap' /\ heap'[b] = h[b]
    BY <1>8, <1>10, <1>11, <1>12, <2>2, OldIsApart
  <2>4. ASSUME NEW i \in 1 .. Len(c1) - 1 PROVE heap'[c1[i].copy.at] = h[c1[i].copy.at]
    <3>1. i \in 1 .. m - 1
      BY <1>10
    <3>2. i \in 1 .. m /\ i # m /\ i \in 1 .. n - 1 /\ i \in 1 .. n
      BY <1>9, <3>1
    <3>3. c1[i] = cs[i] /\ cs[i].copy.at # NoBlock
      BY <1>8, <1>10, <3>2 DEF Underway, Unfinished
    <3>4. cs[i].copy.at \in DOMAIN h /\ cs[i].copy.at # a
      BY <1>8, <1>10, <1>11, <1>12, <1>16, <3>2, <3>3, CopiesApart
    <3> QED
      BY <2>2, <3>3, <3>4
  <2> QED
    BY <1>10, <2>1, <2>3, <2>4, StillUnderway
<1>26. copies' \in Seq(Frames) /\ Underway(slot', copies', origin', heap')
  BY <1>1, <1>5, <1>6, <1>10, <1>25
<1>27. Owning(With(s, OfCopy(n), Dead), heap', Dead, <<>>)
  BY <1>21, <1>22
<1> QED
  BY <1>1, <1>8, <1>23, <1>24, <1>26, <1>27, CopyFacts, StillCopying

(* or what the variable is.                                                 *)
LEMMA OuterReturns ==
  ASSUME MemoryInv, CopyInv, CopyReturns, copies' = <<>>
  PROVE  MemoryInv' /\ CopyInv'
<1>1. /\ Copying /\ ~throwing /\ Inner.copy.at # NoBlock /\ copies' = Front(copies)
      /\ slot' = With(slot, origin.target, Inner.copy) /\ Gone(slot[origin.target], heap)
      /\ UNCHANGED throwing
  BY DEF CopyReturns, With
<1>2. PICK h : h = heap
  OBVIOUS
<1>3. PICK s : s = HeldBy(slot, copies)
  OBVIOUS
<1>4. PICK cs : cs = copies
  OBVIOUS
<1>5. PICK x : x = Inner.copy
  OBVIOUS
<1>6. PICK t : t = origin.target
  OBVIOUS
<1>7. PICK o : o = OfVariable(t)
  OBVIOUS
<1>8. PICK p : p = OfCopy(1)
  OBVIOUS
<1>9. PICK d : d = slot[t]
  OBVIOUS
<1>10. /\ Owning(s, h, Dead, <<>>) /\ slot \in [Variables -> AnyValues] /\ cs \in Seq(Frames) /\ cs # <<>>
       /\ s \in Slots /\ t \in Variables /\ dying = Dead /\ stack = <<>> /\ ended = "no"
  BY <1>1, <1>2, <1>3, <1>4, <1>6, CopyFacts DEF Underway
<1>11. Len(cs) = 1
  BY <1>1, <1>4, <1>10, FramesPopped
<1>12. /\ o \in Holders /\ p \in Holders /\ o # p /\ s[o] = d /\ s[p] = x /\ x \in AnyValues
  <2>1. s[o] = d
    BY <1>3, <1>4, <1>7, <1>9, <1>10, HeldFacts
  <2>2. s[p] = x /\ x \in AnyValues
    BY <1>1, <1>3, <1>4, <1>5, <1>8, <1>11, InnerFacts
  <2> QED
    BY <1>7, <1>8, <1>10, <2>1, <2>2, HolderKinds
<1>13. PICK s1 : s1 = With(s, o, Dead)
  OBVIOUS
<1>14. s1 \in Slots /\ s1[o] = Dead /\ \A q \in Holders \ {o} : s1[q] = s[q]
  <2>1. s \in Slots /\ o \in Holders /\ Dead \in AnyValues
    BY <1>10, <1>12, DeadType
  <2> QED
    BY <1>13, <2>1, SlotChanged
<1>15. Owning(s1, h, d, <<>>)
  BY <1>10, <1>12, <1>13, HolderGoes DEF With
<1>16. PICK s2 : s2 = With(s1, o, s1[p])
  OBVIOUS
<1>17. s2 \in Slots /\ s2[o] = x /\ \A q \in Holders \ {o} : s2[q] = s[q]
  BY <1>12, <1>14, <1>16, SlotChanged
<1>18. PICK s3 : s3 = With(s2, p, NullValue)
  OBVIOUS
<1>19. s3 \in Slots /\ s3[p] = NullValue /\ s3[o] = x /\ \A q \in Holders \ {o, p} : s3[q] = s[q]
  <2>1. s3 \in Slots /\ s3[p] = NullValue /\ \A q \in Holders \ {p} : s3[q] = s2[q]
    BY <1>12, <1>17, <1>18, DeadType, SlotChanged
  <2> QED
    BY <1>12, <1>17, <2>1
<1>20. Owning(s3, h, d, <<>>)
  <2>1. s1[o].at = NoBlock
    BY <1>14, DeadType
  <2>2. Owning([s1 EXCEPT ![o] = s1[p], ![p] = NullValue], h, d, <<>>)
    BY <1>12, <1>15, <2>1, Moved
  <2> QED
    BY <1>16, <1>18, <2>2 DEF With
<1>21. PICK s4 : s4 = With(s3, p, Dead)
  OBVIOUS
<1>22. Owning(s4, h, d, <<>>)
  BY <1>12, <1>19, <1>20, <1>21, DeadType, NothingGained DEF With
<1>23. s4 \in Slots /\ s4[p] = Dead /\ s4[o] = x /\ \A q \in Holders \ {o, p} : s4[q] = s[q]
  <2>1. s4 \in Slots /\ s4[p] = Dead /\ \A q \in Holders \ {p} : s4[q] = s3[q]
    BY <1>12, <1>19, <1>21, DeadType, SlotChanged
  <2> QED
    BY <1>12, <1>19, <2>1
<1>24. PICK r : r = HeldBy(slot', copies')
  OBVIOUS
<1>25. r = With(HeldBy(slot, <<>>), o, x) /\ slot' \in [Variables -> AnyValues]
  <2>1. slot' = With(slot, t, x)
    BY <1>1, <1>5, <1>6
  <2> QED
    BY <1>7, <1>10, <1>12, <1>24, <2>1, HeldSlot
<1>26. HeldBy(slot, <<>>) = With(s, p, Dead)
  <2>1. HeldBy(slot, Front(cs)) = With(HeldBy(slot, cs), OfCopy(Len(cs)), Dead)
    BY <1>10, HeldPopped
  <2> QED
    BY <1>1, <1>3, <1>4, <1>8, <1>11, <2>1
<1>27. r \in Slots /\ r[o] = x /\ r[p] = Dead /\ \A q \in Holders \ {o, p} : r[q] = s[q]
  <2>1. PICK z : z = With(s, p, Dead)
    OBVIOUS
  <2>2. z \in Slots /\ z[p] = Dead /\ \A q \in Holders \ {p} : z[q] = s[q]
    BY <1>10, <1>12, <2>1, DeadType, SlotChanged
  <2>3. r = With(z, o, x)
    BY <1>25, <1>26, <2>1
  <2>4. r \in Slots /\ r[o] = x /\ \A q \in Holders \ {o} : r[q] = z[q]
    BY <1>12, <2>2, <2>3, SlotChanged
  <2> QED
    BY <1>12, <2>2, <2>4
<1>28. r = s4
  BY <1>23, <1>27 DEF Slots
<1>29. d.at \in DOMAIN h => h[d.at] = Content(d)
  BY <1>1, <1>2, CopyFacts DEF Content
<1>30. MemoryInv'
  <2>1. Gone(d, h) /\ HeldBy(slot', copies') = s4
    BY <1>1, <1>2, <1>6, <1>9, <1>24, <1>28
  <2> QED
    BY <1>10, <1>22, <1>29, <2>1, GoneOwns
<1>31. ElementsValid(heap')
  <2>1. Gone(d, h) /\ h \in [DOMAIN h -> Payloads] /\ ElementsValid(h)
    BY <1>1, <1>2, <1>6, <1>9, CopyFacts
  <2> QED
    BY <2>1, GoneValid
<1>32. copies' \in Seq(Frames)
  BY <1>1, <1>4, <1>10, FramesPopped
<1>33. CopyInv'
  BY <1>1, <1>25, <1>31, <1>32 DEF CopyInv, CopyState
<1> QED
  BY <1>30, <1>33

-----------------------------------------------------------------------------
(* Destruction, with or without a copy under way                            *)

(* What is dying is nothing of the copies, nor of what they found.          *)
LEMMA DyingIsApart ==
  ASSUME NEW sl \in [Variables -> AnyValues], NEW cs \in Seq(Frames), NEW o, NEW h, NEW d, NEW k,
         Underway(sl, cs, o, h), Owning(HeldBy(sl, cs), h, d, k),
         NEW a, a = d.at \/ OnStack(a, k),
         NEW h1, \A c \in DOMAIN h \ {a} : c \in DOMAIN h1 /\ h1[c] = h[c]
  PROVE  Underway(sl, cs, o, h1)
<1>1. \A b \in DOMAIN o.heap : b \in DOMAIN h /\ b # a
  BY OldIsApart DEF OnStack
<1>2. ASSUME NEW i \in 1 .. Len(cs) - 1 PROVE h1[cs[i].copy.at] = h[cs[i].copy.at]
  <2>1. i \in DOMAIN cs /\ cs[i].copy.at # NoBlock
    BY DEF Underway, Unfinished
  <2>2. cs[i].copy.at \in DOMAIN h /\ cs[i].copy.at # a
    BY <2>1, CopiesApart DEF OnStack
  <2> QED
    BY <2>2
<1>3. \A b \in DOMAIN o.heap : b \in DOMAIN h1 /\ h1[b] = h[b]
  BY <1>1
<1> QED
  BY <1>2, <1>3, StillUnderway

LEMMA DestroyNextOwns ==
  ASSUME MemoryInv, CopyInv, DestroyNext
  PROVE  MemoryInv' /\ CopyInv'
<1>1. ended = "no" /\ stack # <<>> /\ UNCHANGED <<slot, dying, ended>> /\ UNCHANGED <<copies, origin, throwing>>
  BY DEF DestroyNext, copyVars
<1>2. PICK k : k = stack
  OBVIOUS
<1>3. PICK d : d = dying
  OBVIOUS
<1>4. PICK h : h = heap
  OBVIOUS
<1>5. PICK s : s = HeldBy(slot, copies)
  OBVIOUS
<1>6. PICK cs : cs = copies
  OBVIOUS
<1>7. /\ Owning(s, h, d, k) /\ Emptied /\ k # <<>> /\ Len(k) \in Nat /\ k \in Seq(AnyValues)
      /\ h \in [DOMAIN h -> Payloads]
  BY <1>1, <1>2, <1>3, <1>4, <1>5 DEF MemoryInv, Owning, Typed
<1>8. PICK a : a = k[Len(k)].at
  OBVIOUS
<1>9. stack' = SubSeq(k, 1, Len(k) - 1) \o (IF a = NoBlock THEN <<>> ELSE h[a])
  BY <1>2, <1>4, <1>8 DEF DestroyNext, Front, Last, Content
<1>10. heap' = [c \in DOMAIN h \ {a} |-> h[c]]
  BY <1>2, <1>4, <1>8 DEF DestroyNext, Last, FreeBlock, Allocated
<1>11. Owning(s, heap', d, stack')
  BY <1>7, <1>8, <1>9, <1>10, NextDies
<1>12. OnStack(a, k)
  BY <1>7, <1>8 DEF OnStack
<1>13. Emptied'
  <2>1. d # Dead /\ d.at # NoBlock /\ h[d.at] = <<>>
    BY <1>1, <1>3, <1>4, <1>7 DEF Emptied
  <2>2. d.at # a /\ d.at \in DOMAIN h
    BY <1>7, <1>12, <2>1 DEF Owning, KindsApart, NoneDangles
  <2> QED
    BY <1>1, <1>3, <1>10, <2>1, <2>2 DEF Emptied
<1>14. MemoryInv'
  <2>1. HeldBy(slot', copies') = s /\ dying' = d
    BY <1>1, <1>3, <1>5
  <2> QED
    BY <1>11, <1>13, <2>1 DEF MemoryInv
<1>15. CopyState(slot, cs, origin, throwing, h)
  BY <1>1, <1>4, <1>6 DEF CopyInv
<1>16. ElementsValid(heap')
  BY <1>7, <1>10, <1>15, ValidKept DEF CopyState
<1>17. cs # <<>> => Underway(slot, cs, origin, heap')
  <2> SUFFICES ASSUME cs # <<>> PROVE Underway(slot, cs, origin, heap')
    OBVIOUS
  <2>1. slot \in [Variables -> AnyValues] /\ cs \in Seq(Frames) /\ Underway(slot, cs, origin, h)
    BY <1>15 DEF CopyState
  <2>2. Owning(HeldBy(slot, cs), h, d, k)
    BY <1>5, <1>6, <1>7
  <2>3. \A c \in DOMAIN h \ {a} : c \in DOMAIN heap' /\ heap'[c] = h[c]
    BY <1>10
  <2> QED
    BY <1>12, <2>1, <2>2, <2>3, DyingIsApart
<1>18. CopyState(slot, cs, origin, throwing, heap')
  BY <1>15, <1>16, <1>17 DEF CopyState
<1>19. CopyInv'
  BY <1>1, <1>6, <1>18 DEF CopyInv
<1> QED
  BY <1>14, <1>19

LEMMA DestroyEndOwns ==
  ASSUME MemoryInv, CopyInv, DestroyEnd
  PROVE  MemoryInv' /\ CopyInv'
<1>1. /\ ended = "no" /\ dying # Dead /\ stack = <<>> /\ dying' = Dead
      /\ UNCHANGED <<slot, stack, ended>> /\ UNCHANGED <<copies, origin, throwing>>
  BY DEF DestroyEnd, copyVars
<1>2. PICK d : d = dying
  OBVIOUS
<1>3. PICK h : h = heap
  OBVIOUS
<1>4. PICK s : s = HeldBy(slot, copies)
  OBVIOUS
<1>5. PICK cs : cs = copies
  OBVIOUS
<1>6. /\ Owning(s, h, d, <<>>) /\ d.at # NoBlock /\ h[d.at] = <<>> /\ h \in [DOMAIN h -> Payloads]
  BY <1>1, <1>2, <1>3, <1>4 DEF MemoryInv, Emptied, Owning, Typed
<1>7. heap' = [c \in DOMAIN h \ {d.at} |-> h[c]]
  BY <1>2, <1>3 DEF DestroyEnd, FreeBlock, Allocated
<1>8. Owning(s, heap', Dead, <<>>)
  BY <1>6, <1>7, DestroyEnds
<1>9. MemoryInv'
  <2>1. HeldBy(slot', copies') = s
    BY <1>1, <1>4
  <2> QED
    BY <1>1, <1>8, <2>1 DEF MemoryInv, Emptied
<1>10. CopyState(slot, cs, origin, throwing, h)
  BY <1>1, <1>3, <1>5 DEF CopyInv
<1>11. ElementsValid(heap')
  BY <1>6, <1>7, <1>10, ValidKept DEF CopyState
<1>12. cs # <<>> => Underway(slot, cs, origin, heap')
  <2> SUFFICES ASSUME cs # <<>> PROVE Underway(slot, cs, origin, heap')
    OBVIOUS
  <2>1. slot \in [Variables -> AnyValues] /\ cs \in Seq(Frames) /\ Underway(slot, cs, origin, h)
    BY <1>10 DEF CopyState
  <2>2. Owning(HeldBy(slot, cs), h, d, <<>>)
    BY <1>4, <1>5, <1>6
  <2>3. \A c \in DOMAIN h \ {d.at} : c \in DOMAIN heap' /\ heap'[c] = h[c]
    BY <1>7
  <2> QED
    BY <2>1, <2>2, <2>3, DyingIsApart
<1>13. CopyState(slot, cs, origin, throwing, heap')
  BY <1>10, <1>11, <1>12 DEF CopyState
<1>14. CopyInv'
  BY <1>1, <1>5, <1>13 DEF CopyInv
<1> QED
  BY <1>9, <1>14

-----------------------------------------------------------------------------
(* An exception on its way out of the copies                                *)

LEMMA CopyThrowsOwns ==
  ASSUME MemoryInv, CopyInv, CopyThrows
  PROVE  MemoryInv' /\ CopyInv'
<1>1. Copying /\ UNCHANGED <<slot, heap, dying, stack, copies, origin, ended>>
  BY DEF CopyThrows
<1>2. MemoryInv'
  BY <1>1 DEF MemoryInv, Emptied
<1>3. CopyInv'
  BY <1>1, CopyFacts DEF CopyInv, CopyState
<1> QED
  BY <1>2, <1>3

LEMMA ElementGoesOwns ==
  ASSUME MemoryInv, CopyInv, ElementGoes
  PROVE  MemoryInv' /\ CopyInv'
<1>1. Copying /\ throwing /\ UNCHANGED slot /\ UNCHANGED <<copies, origin, throwing>>
  BY DEF ElementGoes, copyVars
<1>2. PICK n \in Nat : n = Len(copies)
  BY <1>1, InnerFacts
<1>3. PICK h : h = heap
  OBVIOUS
<1>4. PICK s : s = HeldBy(slot, copies)
  OBVIOUS
<1>5. PICK cs : cs = copies
  OBVIOUS
<1>6. PICK a : a = Inner.copy.at
  OBVIOUS
<1>7. /\ Owning(s, h, Dead, <<>>) /\ Underway(slot, cs, origin, h) /\ slot \in [Variables -> AnyValues]
      /\ cs \in Seq(Frames) /\ cs # <<>> /\ Owning(HeldBy(slot, cs), h, Dead, <<>>)
      /\ h \in [DOMAIN h -> Payloads] /\ ElementsValid(h)
      /\ dying = Dead /\ stack = <<>> /\ ended = "no"
  BY <1>1, <1>3, <1>4, <1>5, CopyFacts
<1>8. Len(cs) = n /\ n \in DOMAIN cs /\ cs[n].copy.at = a
  <2>1. n # 0 /\ DOMAIN cs = 1 .. n /\ Len(cs) = n /\ cs[n] = Inner
    BY <1>1, <1>2, <1>5, InnerFacts
  <2> QED
    BY <1>6, <2>1
<1>9. a # NoBlock /\ a \in DOMAIN h /\ h[a] # <<>>
  <2>1. a # NoBlock
    BY <1>6 DEF ElementGoes, Content
  <2> QED
    BY <1>1, <1>3, <1>6, <2>1, InnerFacts DEF ElementGoes
<1>10. PICK d : d = Head(h[a])
  OBVIOUS
<1>11. PICK g : g = [h EXCEPT ![a] = Tail(@)]
  OBVIOUS
<1>12. Gone(d, g)
  BY <1>3, <1>6, <1>10, <1>11 DEF ElementGoes
<1>13. Owning(s, g, d, <<>>)
  BY <1>7, <1>9, <1>10, <1>11, ElementDies
<1>14. ElementsValid(g) /\ g \in [DOMAIN g -> Payloads]
  BY <1>7, <1>9, <1>11, <1>13, ValidKept DEF Owning, Typed
<1>15. DOMAIN g = DOMAIN h /\ \A c \in DOMAIN h \ {a} : g[c] = h[c]
  BY <1>11
<1>16. d.at # a
  <2>1. Owning(HeldBy(slot, cs), g, d, <<>>)
    BY <1>4, <1>5, <1>13
  <2> QED
    BY <1>7, <1>8, <1>9, <2>1, CopiesApart
<1>17. d.at \in DOMAIN g => g[d.at] = Content(d)
  BY <1>3, <1>7, <1>15, <1>16, CopyFacts, <1>1 DEF Content
<1>18. MemoryInv'
  <2>1. HeldBy(slot', copies') = s
    BY <1>1, <1>4
  <2> QED
    BY <1>7, <1>12, <1>13, <1>17, <2>1, GoneOwns
<1>19. ElementsValid(heap')
  BY <1>12, <1>14, GoneValid
<1>20. Underway(slot, cs, origin, g)
  <2>1. ASSUME NEW b \in DOMAIN origin.heap PROVE b \in DOMAIN g /\ g[b] = h[b]
    BY <1>7, <1>8, <1>15, OldIsApart
  <2>2. ASSUME NEW i \in 1 .. Len(cs) - 1 PROVE g[cs[i].copy.at] = h[cs[i].copy.at]
    <3>1. i \in DOMAIN cs /\ i # n
      BY <1>7, <1>8
    <3>2. cs[i].copy.at # NoBlock
      BY <1>7 DEF Underway, Unfinished
    <3>3. cs[i].copy.at \in DOMAIN h /\ cs[i].copy.at # a
      BY <1>7, <1>8, <1>9, <3>1, <3>2, CopiesApart
    <3> QED
      BY <1>15, <3>3
  <2> QED
    BY <1>7, <2>1, <2>2, StillUnderway
<1>21. Underway(slot, cs, origin, heap')
  <2>1. \A c \in DOMAIN g \ {d.at} : c \in DOMAIN heap' /\ heap'[c] = g[c]
    BY <1>12 DEF Gone, destroy
  <2>2. Owning(HeldBy(slot, cs), g, d, <<>>)
    BY <1>4, <1>5, <1>13
  <2> QED
    BY <1>7, <1>20, <2>1, <2>2, DyingIsApart
<1>22. CopyState(slot, cs, origin, throwing, heap')
  BY <1>7, <1>19, <1>21 DEF CopyState
<1>23. CopyInv'
  BY <1>1, <1>5, <1>22 DEF CopyInv
<1> QED
  BY <1>18, <1>23

LEMMA CopyFailsOwns ==
  ASSUME MemoryInv, CopyInv, CopyFails
  PROVE  MemoryInv' /\ CopyInv'
<1>1. /\ Copying /\ throwing /\ Content(Inner.copy) = <<>>
      /\ heap' = FreeBlock(Inner.copy.at) /\ copies' = Front(copies)
      /\ throwing' = (copies' # <<>>) /\ (copies' # <<>> => origin' = origin)
      /\ UNCHANGED <<slot, dying, stack, ended>>
  BY WithoutBlock, InnerFacts DEF CopyFails, destroy
<1>2. PICK n \in Nat : n = Len(copies)
  BY <1>1, InnerFacts
<1>3. PICK h : h = heap
  OBVIOUS
<1>4. PICK s : s = HeldBy(slot, copies)
  OBVIOUS
<1>5. PICK cs : cs = copies
  OBVIOUS
<1>6. PICK c1 : c1 = Front(cs)
  OBVIOUS
<1>7. PICK x : x = Inner.copy
  OBVIOUS
<1>8. /\ Owning(s, h, Dead, <<>>) /\ Underway(slot, cs, origin, h) /\ slot \in [Variables -> AnyValues]
      /\ cs \in Seq(Frames) /\ cs # <<>> /\ Owning(HeldBy(slot, cs), h, Dead, <<>>)
      /\ h \in [DOMAIN h -> Payloads] /\ ElementsValid(h) /\ NoBlock \notin DOMAIN h
      /\ dying = Dead /\ stack = <<>> /\ ended = "no"
  BY <1>1, <1>3, <1>4, <1>5, CopyFacts
<1>9. Len(cs) = n /\ n \in DOMAIN cs /\ cs[n].copy = x /\ OfCopy(n) \in Holders /\ s[OfCopy(n)] = x
  <2>1. /\ n # 0 /\ DOMAIN cs = 1 .. n /\ Len(cs) = n /\ cs[n] = Inner
        /\ OfCopy(n) \in Holders /\ s[OfCopy(n)] = x
    BY <1>1, <1>2, <1>4, <1>5, <1>7, InnerFacts
  <2> QED
    BY <1>7, <2>1
<1>10. heap' = [c \in DOMAIN h \ {x.at} |-> h[c]]
  BY <1>1, <1>3, <1>7 DEF FreeBlock, Allocated
<1>11. Owning(With(s, OfCopy(n), Dead), h, x, <<>>)
  <2>1. Owning([s EXCEPT ![OfCopy(n)] = Dead], h, s[OfCopy(n)], <<>>)
    BY <1>8, <1>9, HolderGoes
  <2> QED
    BY <1>9, <2>1 DEF With
<1>12. Owning(With(s, OfCopy(n), Dead), heap', Dead, <<>>)
  <2>1. CASE x.at = NoBlock
    <3>1. heap' = h
      BY <1>8, <1>10, <2>1
    <3> QED
      BY <1>11, <2>1, <3>1, NothingDies
  <2>2. CASE x.at # NoBlock
    <3>1. h[x.at] = <<>>
      BY <1>1, <1>3, <1>7, <2>2 DEF Content
    <3> QED
      BY <1>10, <1>11, <2>2, <3>1, DestroyEnds
  <2> QED
    BY <2>1, <2>2
<1>13. HeldBy(slot', copies') = With(s, OfCopy(n), Dead)
  <2>1. HeldBy(slot, Front(cs)) = With(HeldBy(slot, cs), OfCopy(Len(cs)), Dead)
    BY <1>8, HeldPopped
  <2> QED
    BY <1>1, <1>4, <1>5, <1>9, <2>1
<1>14. ElementsValid(heap')
  BY <1>8, <1>10, ValidKept
<1>15. c1 \in Seq(Frames) /\ Len(c1) = n - 1 /\ DOMAIN c1 = 1 .. n - 1 /\ \A i \in 1 .. n - 1 : c1[i] = cs[i]
  BY <1>6, <1>8, <1>9, FramesPopped
<1>16. Underway(slot, c1, origin, heap')
  <2>1. Underway(slot, c1, origin, h)
    BY <1>6, <1>8, TopGone
  <2>2. DOMAIN heap' = DOMAIN h \ {x.at} /\ \A c \in DOMAIN h \ {x.at} : heap'[c] = h[c]
    BY <1>10
  <2>3. ASSUME NEW b \in DOMAIN origin.heap PROVE b \in DOMAIN heap' /\ heap'[b] = h[b]
    <3>1. b \in DOMAIN h /\ cs[n].copy.at # b
      BY <1>8, <1>9, OldIsApart
    <3> QED
      BY <1>9, <2>2, <3>1
  <2>4. ASSUME NEW i \in 1 .. Len(c1) - 1 PROVE heap'[c1[i].copy.at] = h[c1[i].copy.at]
    <3>1. n \in Nat /\ i \in 1 .. (n - 1) - 1
      BY <1>15
    <3>2. i \in 1 .. n - 1 /\ i # n /\ i \in 1 .. n
      BY <3>1
    <3>3. DOMAIN cs = 1 .. n
      BY <1>8, <1>9
    <3>4. c1[i] = cs[i] /\ i \in DOMAIN cs /\ cs[i].copy.at # NoBlock
      BY <1>8, <1>9, <1>15, <3>2, <3>3 DEF Underway, Unfinished
    <3>5. cs[i].copy.at \in DOMAIN h /\ \A j \in DOMAIN cs : cs[j].copy.at = cs[i].copy.at => j = i
      BY <1>8, <3>4, CopiesApart
    <3>6. cs[i].copy.at # x.at
      BY <1>9, <3>2, <3>5
    <3> QED
      BY <2>2, <3>4, <3>5, <3>6
  <2> QED
    BY <1>15, <2>1, <2>3, <2>4, StillUnderway
<1>17. MemoryInv'
  <2>1. dying' = Dead /\ stack' = <<>>
    BY <1>1, <1>8
  <2> QED
    BY <1>12, <1>13, <2>1 DEF MemoryInv, Emptied
<1>18. CopyInv'
  <2>1. copies' = c1
    BY <1>1, <1>5, <1>6
  <2>2. CopyState(slot', copies', origin', throwing', heap')
    BY <1>1, <1>8, <1>14, <1>15, <1>16, <2>1 DEF CopyState
  <2> QED
    BY <2>2 DEF CopyInv
<1> QED
  BY <1>17, <1>18

-----------------------------------------------------------------------------
LEMMA OwnersStep ==
  ASSUME MemoryInv, CopyInv, [HeapNext]_heapVars
  PROVE  MemoryInv' /\ CopyInv'
<1>1. CASE UNCHANGED heapVars
  BY <1>1 DEF heapVars, copyVars, MemoryInv, Emptied, CopyInv
<1>2. ASSUME ended' # "no" PROVE MemoryInv' /\ CopyInv'
  BY <1>2 DEF MemoryInv, CopyInv
<1>3. CASE StackFails \/ \E v \in Variables : UseInvalid(v)
  <2>1. ended' # "no"
    BY <1>3 DEF StackFails, UseInvalid
  <2> QED
    BY <1>2, <2>1
<1>4. CASE DestroyNext \/ DestroyEnd
  BY <1>4, DestroyNextOwns, DestroyEndOwns
<1>5. CASE MakesPayload \/ CopiesElement
  BY <1>5, MakesPayloadOwns, CopiesElementOwns
<1>6. CASE CopyReturns
  BY <1>6, InnerReturns, OuterReturns
<1>7. CASE CopyThrows \/ ElementGoes \/ CopyFails
  BY <1>7, CopyThrowsOwns, ElementGoesOwns, CopyFailsOwns
<1>8. ASSUME NEW v \in Variables, Destruct(v) \/ MakeArray(v) PROVE MemoryInv' /\ CopyInv'
  BY <1>8, DestructOwns, MakeArrayOwns
<1>9. ASSUME NEW v \in Variables, NEW t \in Types, Construct(v, t) PROVE MemoryInv' /\ CopyInv'
  BY <1>9, ConstructOwns
<1>10. ASSUME NEW v \in Variables, NEW w \in Variables, Copy(v, w) \/ Assign(v, w)
       PROVE  MemoryInv' /\ CopyInv'
  BY <1>10, CopyBeginsOwns DEF Copy, Assign
<1>11. ASSUME NEW v \in Variables, NEW w \in Variables, MoveTo(v, w) \/ MoveInto(v, w)
       PROVE  MemoryInv' /\ CopyInv'
  BY <1>11, MoveToOwns, MoveIntoOwns
<1>12. ASSUME NEW v \in Variables, NEW w \in Variables, NEW i \in 1 .. MaxElements, MoveOut(v, i, w)
       PROVE  MemoryInv' /\ CopyInv'
  BY <1>12, MoveOutOwns
<1> QED
  BY <1>1, <1>3, <1>4, <1>5, <1>6, <1>7, <1>8, <1>9, <1>10, <1>11, <1>12 DEF HeapNext

-----------------------------------------------------------------------------
(* From owners to their number                                              *)

LEMMA NoneOrOne ==
  ASSUME NEW S, \A x, y \in S : x = y
  PROVE  Cardinality(S) = IF S = {} THEN 0 ELSE 1
<1>1. CASE S = {}
  BY <1>1, FS_EmptySet
<1>2. CASE S # {}
  <2>1. PICK x \in S : TRUE
    BY <1>2
  <2>2. S = {x}
    BY <2>1
  <2> QED
    BY <1>2, <2>2, FS_Singleton
<1> QED
  BY <1>1, <1>2

LEMMA OwnersCounted ==
  ASSUME ended = "no", MemoryInv, CopyInv, NEW b \in Allocated
  PROVE  Owners(b) = 1
<1> DEFINE V == {v \in Variables : slot[v].at = b}
           E == {p \in Allocated \X (1 .. MaxElements) :
                   p[2] \in DOMAIN heap[p[1]] /\ heap[p[1]][p[2]].at = b}
           C == {i \in DOMAIN copies : copies[i].copy.at = b}
           K == {i \in DOMAIN stack : stack[i].at = b}
<1>1. PICK s : s = HeldBy(slot, copies)
  OBVIOUS
<1>2. Owning(s, heap, dying, stack) /\ slot \in [Variables -> AnyValues] /\ copies \in Seq(Frames)
  BY <1>1 DEF MemoryInv, CopyInv, CopyState
<1>3. b # NoBlock /\ b \in DOMAIN heap
  BY <1>2, BlockAssumption DEF Owning, Typed, Allocated
<1>4. \A v \in Variables : OfVariable(v) \in Holders /\ s[OfVariable(v)] = slot[v]
  BY <1>1, <1>2, HeldFacts, HolderKinds
<1>5. \A n \in Nat : OfCopy(n) \in Holders /\ s[OfCopy(n)] = IF n \in DOMAIN copies THEN copies[n].copy ELSE Dead
  BY <1>1, <1>2, HeldFacts, HolderKinds
<1>6. \A i \in DOMAIN copies : i \in Nat /\ OfCopy(i) \in Holders /\ s[OfCopy(i)] = copies[i].copy
  <2>1. \A i \in DOMAIN copies : i \in Nat
    BY <1>2
  <2> QED
    BY <1>5, <2>1
<1>7. \A o, p \in Holders : s[o].at = b /\ s[p].at = b => o = p
  BY <1>2, <1>3 DEF Owning, HoldersApart
<1>8. \A x, y \in V : x = y
  <2> SUFFICES ASSUME NEW x \in V, NEW y \in V PROVE x = y
    OBVIOUS
  <2>1. OfVariable(x) = OfVariable(y)
    BY <1>4, <1>7
  <2> QED
    BY <2>1, HolderKinds
<1>9. \A x, y \in C : x = y
  <2> SUFFICES ASSUME NEW x \in C, NEW y \in C PROVE x = y
    OBVIOUS
  <2>1. OfCopy(x) = OfCopy(y)
    BY <1>6, <1>7
  <2> QED
    BY <2>1, HolderKinds
<1>10. V = {} \/ C = {}
  <2> SUFFICES ASSUME NEW v \in V, NEW i \in C PROVE FALSE
    OBVIOUS
  <2>1. OfVariable(v) = OfCopy(i)
    BY <1>4, <1>6, <1>7
  <2> QED
    BY <2>1, HolderKinds
<1>11. \A x, y \in E : x = y
  <2> SUFFICES ASSUME NEW x \in E, NEW y \in E PROVE x = y
    OBVIOUS
  <2>1. PICK c \in Allocated, i \in 1 .. MaxElements : x = <<c, i>>
    OBVIOUS
  <2>2. PICK e \in Allocated, j \in 1 .. MaxElements : y = <<e, j>>
    OBVIOUS
  <2>3. i \in DOMAIN heap[c] /\ j \in DOMAIN heap[e] /\ heap[c][i].at = b /\ heap[e][j].at = b
    BY <2>1, <2>2
  <2>4. c = e /\ i = j
    BY <1>2, <1>3, <2>3 DEF Owning, ElementsApart, Allocated
  <2> QED
    BY <2>1, <2>2, <2>4
<1>12. \A x, y \in K : x = y
  BY <1>2, <1>3 DEF Owning, StackApart
<1>13. V # {} \/ C # {} <=> IsHeld(b, s)
  <2>1. ASSUME NEW o \in Holders, s[o].at = b PROVE V # {} \/ C # {}
    <3>1. ASSUME NEW v \in Variables, o = OfVariable(v) PROVE V # {}
      BY <1>4, <2>1, <3>1
    <3>2. ASSUME NEW n \in Nat, o = OfCopy(n) PROVE C # {}
      BY <1>3, <1>5, <2>1, <3>2, DeadType
    <3> QED
      BY <3>1, <3>2, HolderKinds
  <2>2. ASSUME NEW v \in V PROVE IsHeld(b, s)
    BY <1>4 DEF IsHeld
  <2>3. ASSUME NEW i \in C PROVE IsHeld(b, s)
    BY <1>6 DEF IsHeld
  <2>4. IsHeld(b, s) => V # {} \/ C # {}
    BY <2>1 DEF IsHeld
  <2>5. V # {} => IsHeld(b, s)
    BY <2>2
  <2>6. C # {} => IsHeld(b, s)
    BY <2>3
  <2> HIDE DEF V, C
  <2> QED
    BY <2>4, <2>5, <2>6
<1>14. E # {} <=> IsElement(b, heap)
  <2>1. ASSUME NEW c \in DOMAIN heap, NEW i \in DOMAIN heap[c], heap[c][i].at = b PROVE E # {}
    <3>1. i \in 1 .. MaxElements
      BY <1>2, HeapFacts, BlockAssumption DEF Owning
    <3>2. <<c, i>> \in E
      BY <2>1, <3>1 DEF Allocated
    <3> QED
      BY <3>2
  <2>2. ASSUME NEW p \in E PROVE IsElement(b, heap)
    BY DEF IsElement, Allocated
  <2> QED
    BY <2>1, <2>2 DEF IsElement
<1>15. K # {} <=> OnStack(b, stack)
  BY DEF OnStack
<1>16. /\ IsHeld(b, s) \/ IsElement(b, heap) \/ OnStack(b, stack) \/ dying.at = b
       /\ ~(IsHeld(b, s) /\ IsElement(b, heap)) /\ ~(IsHeld(b, s) /\ OnStack(b, stack))
       /\ ~(IsElement(b, heap) /\ OnStack(b, stack))
       /\ dying.at = b => ~IsHeld(b, s) /\ ~IsElement(b, heap) /\ ~OnStack(b, stack)
  <2>1. IsHeld(b, s) => ~IsElement(b, heap) /\ ~OnStack(b, stack) /\ dying.at # b
    BY <1>2, <1>3 DEF Owning, KindsApart, IsHeld
  <2>2. OnStack(b, stack) => ~IsElement(b, heap)
    BY <1>2, <1>3 DEF Owning, KindsApart, OnStack
  <2>3. dying.at = b => ~IsElement(b, heap) /\ ~OnStack(b, stack)
    BY <1>2, <1>3 DEF Owning, KindsApart
  <2> QED
    BY <1>2, <1>3, <2>1, <2>2, <2>3 DEF Owning, AllOwned
<1>17. Owners(b) = Cardinality(V) + Cardinality(E) + Cardinality(C) + Cardinality(K)
                     + (IF dying.at = b THEN 1 ELSE 0)
  BY DEF Owners
<1> HIDE DEF V, E, C, K
<1>18. /\ Cardinality(V) = IF V = {} THEN 0 ELSE 1
       /\ Cardinality(E) = IF E = {} THEN 0 ELSE 1
       /\ Cardinality(C) = IF C = {} THEN 0 ELSE 1
       /\ Cardinality(K) = IF K = {} THEN 0 ELSE 1
  BY <1>8, <1>9, <1>11, <1>12, NoneOrOne
<1> QED
  BY <1>10, <1>13, <1>14, <1>15, <1>16, <1>17, <1>18

-----------------------------------------------------------------------------
(* Whatever is constructed, copied, moved, assigned and destroyed, and      *)
(* whatever allocation fails: every allocated payload has one owner, and    *)
(* none is kept by payloads that nothing else owns, in the middle of a copy *)
(* or of its undoing too.  So none leaks, none is freed twice and no two    *)
(* values share one (json.hpp:400-664, 1154-1286).                          *)
THEOREM EveryPayloadHasOneOwner == HeapSpec => []OneOwner
<1>1. HeapInit => MemoryInv /\ CopyInv
  BY InitOwns
<1>2. MemoryInv /\ CopyInv /\ [HeapNext]_heapVars => MemoryInv' /\ CopyInv'
  BY OwnersStep
<1>3. MemoryInv /\ CopyInv => OneOwner
  <2> SUFFICES ASSUME MemoryInv, CopyInv, ended = "no"
               PROVE  NoIsland /\ \A b \in Allocated : Owners(b) = 1
    BY DEF OneOwner
  <2>1. NoIsland
    <3> SUFFICES ASSUME NEW S \in SUBSET DOMAIN heap, S # {}
                 PROVE  \E b \in S : \A c \in S : b \notin Children(c)
      BY DEF NoIsland, Allocated
    <3>1. PICK b \in S : \A c \in S : \A i \in DOMAIN heap[c] : heap[c][i].at # b
      BY DEF MemoryInv, Owning, Rooted
    <3> QED
      BY <3>1 DEF Children
  <2> QED
    BY <2>1, OwnersCounted
<1> QED
  BY <1>1, <1>2, <1>3, PTL DEF HeapSpec

-----------------------------------------------------------------------------
(* A heap that has grown, and holds no more for the same holders, has not.  *)
LEMMA SameHeap ==
  ASSUME NEW s, NEW g, NEW h, Owning(s, g, Dead, <<>>), Owning(s, h, Dead, <<>>),
         \A b \in DOMAIN g : b \in DOMAIN h /\ h[b] = g[b]
  PROVE  h = g
<1> USE DeadType
<1>1. g \in [DOMAIN g -> Payloads] /\ h \in [DOMAIN h -> Payloads] /\ NoBlock \notin DOMAIN h
  BY BlockAssumption DEF Owning, Typed
<1>2. DOMAIN h \subseteq DOMAIN g
  <2> DEFINE S == DOMAIN h \ DOMAIN g
  <2> SUFFICES ASSUME S # {} PROVE FALSE
    OBVIOUS
  <2>1. PICK b \in S : \A c \in S : \A i \in DOMAIN h[c] : h[c][i].at # b
    BY DEF Owning, Rooted
  <2>2. b \in DOMAIN h /\ b \notin DOMAIN g /\ b # NoBlock
    BY <1>1
  <2>3. ~IsHeld(b, s)
    BY <2>2 DEF Owning, NoneDangles, IsHeld
  <2>4. IsElement(b, h)
    BY <2>2, <2>3 DEF Owning, AllOwned, OnStack
  <2>5. PICK c \in DOMAIN h : \E i \in DOMAIN h[c] : h[c][i].at = b
    BY <2>4 DEF IsElement
  <2>6. c \in DOMAIN g
    BY <2>1, <2>5
  <2> QED
    BY <2>2, <2>5, <2>6 DEF Owning, NoneDangles
<1> QED
  BY <1>1, <1>2

LEMMA UndoneStep ==
  ASSUME MemoryInv, CopyInv, HeapNext, throwing \/ throwing'
  PROVE  /\ ended' \in {"no", "terminate"}
         /\ ~throwing' => slot' = origin.slot /\ heap' = origin.heap
<1>1. ASSUME Runs, throwing' = throwing PROVE FALSE
  BY <1>1, RunFacts
<1>2. CASE DestroyNext \/ DestroyEnd \/ StackFails
  BY <1>2 DEF DestroyNext, DestroyEnd, StackFails, copyVars
<1>3. CASE MakesPayload \/ CopiesElement \/ CopyReturns
  BY <1>3 DEF MakesPayload, CopiesElement, CopyReturns
<1>4. CASE CopyThrows
  BY <1>4 DEF CopyThrows, Copying
<1>5. CASE ElementGoes
  <2>1. Copying /\ throwing' = throwing /\ throwing
    BY <1>5 DEF ElementGoes, copyVars
  <2>2. PICK b : b = Inner.copy.at
    OBVIOUS
  <2>3. b \in DOMAIN heap /\ heap[b] # <<>>
    <3>1. b # NoBlock
      BY <1>5, <2>2 DEF ElementGoes, Content
    <3> QED
      BY <1>5, <2>1, <2>2, <3>1, InnerFacts DEF ElementGoes
  <2>4. Valid(Head(heap[b]))
    <3>1. heap[b] \in Seq(AnyValues) /\ ElementsValid(heap)
      BY <2>1, <2>3, CopyFacts, HeapFacts DEF Owning
    <3>2. 1 \in DOMAIN heap[b] /\ Head(heap[b]) = heap[b][1]
      BY <2>3, <3>1
    <3> QED
      BY <2>3, <3>1, <3>2 DEF ElementsValid
  <2>5. Gone(Head(heap[b]), [heap EXCEPT ![b] = Tail(@)])
    BY <1>5, <2>2 DEF ElementGoes
  <2>6. ended' = ended
    BY <2>4, <2>5 DEF Gone, destroy
  <2> QED
    BY <2>1, <2>6 DEF Copying
<1>6. CASE CopyFails
  <2>1. /\ Copying /\ heap' = FreeBlock(Inner.copy.at) /\ copies' = Front(copies)
        /\ throwing' = (copies' # <<>>) /\ UNCHANGED <<slot, dying, stack, ended>>
    BY <1>6, WithoutBlock, InnerFacts DEF CopyFails, destroy
  <2>2. ended' = "no"
    BY <2>1 DEF Copying
  <2> SUFFICES ASSUME ~throwing' PROVE slot' = origin.slot /\ heap' = origin.heap
    BY <2>2
  <2>3. copies' = <<>>
    BY <2>1
  <2>4. PICK cs : cs = copies
    OBVIOUS
  <2>5. PICK h : h = heap
    OBVIOUS
  <2>6. PICK g : g = origin.heap
    OBVIOUS
  <2>7. /\ slot \in [Variables -> AnyValues] /\ cs \in Seq(Frames) /\ cs # <<>>
        /\ Underway(slot, cs, origin, h) /\ Owning(HeldBy(slot, cs), h, Dead, <<>>)
        /\ dying = Dead /\ stack = <<>>
    BY <2>1, <2>4, <2>5, CopyFacts
  <2>8. Len(cs) = 1 /\ 1 \in DOMAIN cs /\ cs[1] = Inner
    <3>1. Len(cs) = 1
      BY <2>1, <2>3, <2>4, <2>7, FramesPopped
    <3> QED
      BY <2>1, <2>4, <3>1, InnerFacts
  <2>9. heap' = [c \in DOMAIN h \ {Inner.copy.at} |-> h[c]]
    BY <2>1, <2>5 DEF FreeBlock, Allocated
  <2>10. ASSUME NEW b \in DOMAIN g PROVE b \in DOMAIN heap' /\ heap'[b] = g[b]
    <3>1. b \in DOMAIN h /\ cs[1].copy.at # b
      BY <2>6, <2>7, <2>8, OldIsApart
    <3>2. h[b] = g[b]
      BY <2>6, <2>7 DEF Underway
    <3> QED
      BY <2>8, <2>9, <3>1, <3>2
  <2>11. PICK s : s = HeldBy(slot, <<>>)
    OBVIOUS
  <2>12. Owning(s, g, Dead, <<>>) /\ slot = origin.slot
    BY <2>6, <2>7, <2>11 DEF Underway
  <2>13. Owning(s, heap', Dead, <<>>)
    <3>1. MemoryInv'
      BY <1>6, CopyFailsOwns
    <3>2. Owning(HeldBy(slot', copies'), heap', dying', stack')
      BY <2>2, <3>1 DEF MemoryInv
    <3>3. HeldBy(slot', copies') = s /\ dying' = Dead /\ stack' = <<>>
      BY <2>1, <2>3, <2>7, <2>11
    <3> QED
      BY <3>2, <3>3
  <2>14. heap' = g
    BY <2>10, <2>12, <2>13, SameHeap
  <2> QED
    BY <2>1, <2>6, <2>12, <2>14
<1>7. ASSUME NEW v \in Variables, Destruct(v) \/ MakeArray(v) \/ UseInvalid(v) PROVE FALSE
  BY <1>1, <1>7 DEF Destruct, MakeArray, UseInvalid, copyVars
<1>8. ASSUME NEW v \in Variables, NEW t \in Types, Construct(v, t) PROVE FALSE
  BY <1>1, <1>8 DEF Construct, copyVars
<1>9. ASSUME NEW v \in Variables, NEW w \in Variables, Copy(v, w) \/ Assign(v, w) PROVE FALSE
  BY <1>1, <1>9 DEF Copy, Assign, CopyBegins, copyVars
<1>10. ASSUME NEW v \in Variables, NEW w \in Variables, MoveTo(v, w) \/ MoveInto(v, w) PROVE FALSE
  BY <1>1, <1>10 DEF MoveTo, MoveInto, copyVars
<1>11. ASSUME NEW v \in Variables, NEW w \in Variables, NEW i \in 1 .. MaxElements, MoveOut(v, i, w)
       PROVE  FALSE
  BY <1>1, <1>11 DEF MoveOut, copyVars
<1> QED
  BY <1>2, <1>3, <1>4, <1>5, <1>6, <1>7, <1>8, <1>9, <1>10, <1>11 DEF HeapNext

(* However deep in it the exception comes, a copy that fails leaves no      *)
(* trace: the elements that were there, and theirs, have been destroyed and *)
(* every payload made for them is free again when the caller has the        *)
(* exception, and all else is what it was.  Nothing asserts on the way      *)
(* (json.hpp:382-395, :560-569, :1154-1226).                                *)
THEOREM FailedCopiesAreUndone == HeapSpec => CopyIsUndone
<1>1. HeapInit => MemoryInv /\ CopyInv
  BY InitOwns
<1>2. MemoryInv /\ CopyInv /\ [HeapNext]_heapVars => MemoryInv' /\ CopyInv'
  BY OwnersStep
<1>3. MemoryInv /\ CopyInv /\ [HeapNext]_heapVars =>
        [throwing \/ throwing' =>
           /\ ended' \in {"no", "terminate"}
           /\ ~throwing' => slot' = origin.slot /\ heap' = origin.heap]_heapVars
  BY UndoneStep
<1> QED
  BY <1>1, <1>2, <1>3, PTL DEF HeapSpec, CopyIsUndone

(***************************************************************************)
(* JsonOrder                                                               *)
(***************************************************************************)

-----------------------------------------------------------------------------
(* Induction                                                                *)

NatOrder == {ab \in Nat \X Nat : ab[1] < ab[2]}

LEMMA NatOrderEnds == IsWellFoundedOn(NatOrder, Nat)
<1>1. NatOrder = OpToRel(<, Nat)
  BY DEF OpToRel, NatOrder
<1> QED
  BY <1>1, NatLessThanWellFounded

LEMMA Least ==
  ASSUME NEW B \in SUBSET Nat, B # {}
  PROVE  \E l \in B : \A b \in B : l <= b
<1>1. PICK l \in B : \A b \in B : ~(<<b, l>> \in NatOrder)
  BY NatOrderEnds, WFMin
<1>2. ASSUME NEW b \in B PROVE l <= b
  <2>1. ~(<<b, l>> \in NatOrder) /\ b \in Nat /\ l \in Nat
    BY <1>1
  <2>2. ~(b < l)
    BY <2>1 DEF NatOrder
  <2> QED
    BY <2>1, <2>2
<1> QED
  BY <1>2

(* Course of values: what holds of n if it holds of all below n holds of    *)
(* every number.                                                            *)
LEMMA FromAllBelow ==
  ASSUME NEW P \in SUBSET Nat,
         ASSUME NEW n \in Nat, \A k \in Nat : k < n => k \in P PROVE n \in P
  PROVE  P = Nat
<1> SUFFICES ASSUME Nat \ P # {} PROVE FALSE
  OBVIOUS
<1>1. PICK n \in Nat \ P : \A k \in Nat \ P : n <= k
  BY Least
<1>2. \A k \in Nat : k < n => k \in P
  BY <1>1
<1> QED
  BY <1>1, <1>2

LEMMA FromOneBelow ==
  ASSUME NEW P \in SUBSET Nat, 0 \in P, \A n \in P : n + 1 \in P
  PROVE  P = Nat
<1>1. ASSUME NEW n \in Nat, \A k \in Nat : k < n => k \in P PROVE n \in P
  <2>1. CASE n = 0
    BY <2>1
  <2>2. CASE n # 0
    <3>1. n - 1 \in Nat /\ n - 1 < n
      BY <2>2
    <3>2. n - 1 \in P
      BY <1>1, <3>1
    <3>3. (n - 1) + 1 \in P
      BY <3>2
    <3> QED
      BY <3>3
  <2> QED
    BY <2>1, <2>2
<1> QED
  BY <1>1, FromAllBelow

-----------------------------------------------------------------------------
(* Recursion over values.  A recursive definition asks h of what is nested  *)
(* less deep; G is its right-hand side, m how deep an argument is nested.   *)

Recursion(S, X, m, G) ==
  /\ m \in [S -> Nat] /\ G \in [[S -> X] -> [S -> X]]
  /\ \A f, g \in [S -> X] : \A p \in S :
       (\A q \in S : m[q] < m[p] => f[q] = g[q]) => G[f][p] = G[g][p]

SolvedBelow(S, X, m, G, n, f) ==
  f \in [S -> X] /\ \A p \in S : m[p] < n => G[f][p] = f[p]

LEMMA SolvedStep ==
  ASSUME NEW S, NEW X, NEW m, NEW G, Recursion(S, X, m, G),
         NEW n \in Nat, NEW f, SolvedBelow(S, X, m, G, n, f)
  PROVE  SolvedBelow(S, X, m, G, n + 1, G[f])
<1>1. f \in [S -> X] /\ G[f] \in [S -> X] /\ \A p \in S : m[p] \in Nat
  BY DEF Recursion, SolvedBelow
<1>2. ASSUME NEW p \in S, m[p] < n + 1 PROVE G[G[f]][p] = G[f][p]
  <2>1. ASSUME NEW q \in S, m[q] < m[p] PROVE G[f][q] = f[q]
    <3>1. m[q] < n
      BY <1>1, <1>2, <2>1
    <3> QED
      BY <3>1 DEF SolvedBelow
  <2> QED
    BY <1>1, <2>1 DEF Recursion
<1> QED
  BY <1>1, <1>2 DEF SolvedBelow

LEMMA SolvedAlike ==
  ASSUME NEW S, NEW X, NEW m, NEW G, Recursion(S, X, m, G), NEW a \in Nat, NEW b \in Nat,
         NEW f, SolvedBelow(S, X, m, G, a, f), NEW g, SolvedBelow(S, X, m, G, b, g),
         NEW r \in S, m[r] < a, m[r] < b
  PROVE  f[r] = g[r]
<1> DEFINE P == {k \in Nat : \A p \in S : m[p] = k /\ k < a /\ k < b => f[p] = g[p]}
<1>1. f \in [S -> X] /\ g \in [S -> X] /\ \A p \in S : m[p] \in Nat
  BY DEF Recursion, SolvedBelow
<1>2. ASSUME NEW n \in Nat, \A k \in Nat : k < n => k \in P PROVE n \in P
  <2> SUFFICES ASSUME NEW p \in S, m[p] = n, n < a, n < b PROVE f[p] = g[p]
    OBVIOUS
  <2>1. ASSUME NEW q \in S, m[q] < m[p] PROVE f[q] = g[q]
    <3>1. m[q] \in Nat /\ m[q] < n
      BY <1>1, <2>1
    <3>2. m[q] \in P
      BY <1>2, <3>1
    <3>3. m[q] < a /\ m[q] < b
      BY <3>1
    <3> QED
      BY <3>2, <3>3
  <2>2. G[f][p] = G[g][p]
    BY <1>1, <2>1 DEF Recursion
  <2>3. G[f][p] = f[p] /\ G[g][p] = g[p]
    BY DEF SolvedBelow
  <2> QED
    BY <2>2, <2>3
<1>3. P = Nat
  <2>1. P \in SUBSET Nat
    OBVIOUS
  <2> HIDE DEF P
  <2> QED
    BY <1>2, <2>1, FromAllBelow
<1>4. m[r] \in P
  BY <1>1, <1>3
<1> QED
  BY <1>4

HasSolution(S, X, G) == \E h \in [S -> X] : h = G[h]

LEMMA RecursionExists ==
  ASSUME NEW S, NEW X, X # {}, NEW m, NEW G, Recursion(S, X, m, G)
  PROVE  HasSolution(S, X, G)
<1> PICK x \in X : TRUE
  OBVIOUS
<1> DEFINE P == {n \in Nat : \E f : SolvedBelow(S, X, m, G, n, f)}
<1>0. \A p \in S : m[p] \in Nat /\ m[p] + 1 \in Nat /\ m[p] < m[p] + 1
  BY DEF Recursion
<1>1. 0 \in P
  <2>1. SolvedBelow(S, X, m, G, 0, [p \in S |-> x])
    BY <1>0 DEF SolvedBelow
  <2> QED
    BY <2>1
<1>2. ASSUME NEW n \in P PROVE n + 1 \in P
  <2>1. PICK f : SolvedBelow(S, X, m, G, n, f)
    OBVIOUS
  <2>2. SolvedBelow(S, X, m, G, n + 1, G[f])
    BY <2>1, SolvedStep
  <2> QED
    BY <2>2
<1>3. P = Nat
  <2>1. P \in SUBSET Nat
    OBVIOUS
  <2> HIDE DEF P
  <2> QED
    BY <1>1, <1>2, <2>1, FromOneBelow
<1> DEFINE F(n) == CHOOSE f : SolvedBelow(S, X, m, G, n, f)
           h == [p \in S |-> F(m[p] + 1)[p]]
<1>4. ASSUME NEW n \in Nat PROVE SolvedBelow(S, X, m, G, n, F(n))
  <2>1. \E f : SolvedBelow(S, X, m, G, n, f)
    BY <1>3
  <2> QED
    BY <2>1
<1> HIDE DEF F
<1>5. h \in [S -> X]
  <2>1. ASSUME NEW p \in S PROVE F(m[p] + 1)[p] \in X
    <3>1. PICK n \in Nat : n = m[p] + 1
      BY <1>0
    <3>2. F(n) \in [S -> X]
      BY <1>4 DEF SolvedBelow
    <3> QED
      BY <3>1, <3>2
  <2> QED
    BY <2>1
<1>6. \A p \in S : h[p] = F(m[p] + 1)[p]
  OBVIOUS
<1> HIDE DEF h
<1>7. ASSUME NEW p \in S PROVE G[h][p] = h[p]
  <2>1. PICK n \in Nat : n = m[p] + 1
    BY <1>0
  <2>2. PICK f : f = F(n)
    OBVIOUS
  <2>3. SolvedBelow(S, X, m, G, n, f)
    BY <1>4, <2>2
  <2>4. ASSUME NEW q \in S, m[q] < m[p] PROVE h[q] = f[q]
    <3>1. PICK k \in Nat : k = m[q] + 1
      BY <1>0
    <3>2. PICK g : g = F(k)
      OBVIOUS
    <3>3. SolvedBelow(S, X, m, G, k, g)
      BY <1>4, <3>2
    <3>4. m[q] < k /\ m[q] < n
      BY <1>0, <2>1, <2>4, <3>1
    <3>5. g[q] = f[q]
      BY <2>3, <3>3, <3>4, SolvedAlike
    <3> QED
      BY <1>6, <2>2, <3>1, <3>2, <3>5
  <2>5. G[h][p] = G[f][p]
    BY <1>5, <2>3, <2>4 DEF Recursion, SolvedBelow
  <2>6. G[f][p] = f[p]
    BY <1>0, <2>1, <2>3 DEF SolvedBelow
  <2> QED
    BY <1>6, <2>1, <2>2, <2>5, <2>6
<1>8. G[h] \in [S -> X]
  BY <1>5 DEF Recursion
<1> QED
  BY <1>5, <1>7, <1>8 DEF HasSolution

-----------------------------------------------------------------------------
(* The recursive definitions hold of what they define                       *)

Depth(p) == Nesting[p[1]] + Nesting[p[2]]
Depths   == [p \in Pairs |-> Depth(p)]

IsValue(v) ==
  \/ v = Discarded
  \/ v.type \in Numbers \cup {"null", "boolean", "string"} /\ v.rank \in Int
  \/ /\ v.type \in Containers /\ v.items \in Seq(Compared)
     /\ \A i \in DOMAIN v.items : Nesting[v.items[i]] < Nesting[v]

LEMMA ValueFacts ==
  /\ Discarded \in Compared /\ Discarded.type = "discarded"
  /\ \A v \in Compared : IsValue(v) /\ Nesting[v] \in Nat
  /\ \A p \in Pairs : p[1] \in Compared /\ p[2] \in Compared /\ p = <<p[1], p[2]>>
  /\ \A l, r \in Compared : <<l, r>> \in Pairs
  BY OrderAssumption DEF IsValue, Pairs, Discarded

(* What is in a container is nested less deep.                              *)
LEMMA ItemFacts ==
  ASSUME NEW v \in Compared, v.type \in Containers
  PROVE  /\ v.items \in Seq(Compared) /\ Len(v.items) \in Nat
         /\ DOMAIN v.items = 1 .. Len(v.items)
         /\ \A i \in DOMAIN v.items :
              v.items[i] \in Compared /\ Nesting[v.items[i]] < Nesting[v]
<1>1. v # Discarded /\ v.type \notin Numbers \cup {"null", "boolean", "string"}
  BY DEF Discarded, Containers, Numbers
<1>2. v.items \in Seq(Compared) /\ \A i \in DOMAIN v.items : Nesting[v.items[i]] < Nesting[v]
  BY <1>1, ValueFacts DEF IsValue
<1>3. Len(v.items) \in Nat /\ DOMAIN v.items = 1 .. Len(v.items)
  BY <1>2, LenProperties
<1> QED
  BY <1>2, <1>3, ElementOfSeq

LEMMA DepthFacts ==
  /\ Depths \in [Pairs -> Nat]
  /\ \A l, r, i, j \in Compared :
       Nesting[i] < Nesting[l] /\ Nesting[j] < Nesting[r] =>
         Depths[<<i, j>>] < Depths[<<l, r>>] /\ Depths[<<j, i>>] < Depths[<<l, r>>]
<1>1. ASSUME NEW l \in Compared, NEW r \in Compared
      PROVE  /\ <<l, r>> \in Pairs /\ Depths[<<l, r>>] = Nesting[l] + Nesting[r]
             /\ Nesting[l] \in Nat /\ Nesting[r] \in Nat
  BY ValueFacts DEF Depths, Depth
<1>2. Depths \in [Pairs -> Nat]
  <2>1. \A p \in Pairs : Depth(p) \in Nat
    BY ValueFacts DEF Depth
  <2> QED
    BY <2>1 DEF Depths
<1>3. ASSUME NEW l \in Compared, NEW r \in Compared, NEW i \in Compared, NEW j \in Compared,
             Nesting[i] < Nesting[l], Nesting[j] < Nesting[r]
      PROVE  Depths[<<i, j>>] < Depths[<<l, r>>] /\ Depths[<<j, i>>] < Depths[<<l, r>>]
  <2>1. PICK a \in Nat, b \in Nat, c \in Nat, d \in Nat :
          a = Nesting[l] /\ b = Nesting[r] /\ c = Nesting[i] /\ d = Nesting[j]
    BY <1>1
  <2>2. c + d < a + b /\ d + c < a + b
    BY <1>3, <2>1
  <2> QED
    BY <1>1, <2>1, <2>2
<1> QED
  BY <1>2, <1>3

EqualsOf(f) == [p \in Pairs |-> EqualBy(f, p[1], p[2])]
LessOf(f)   == [p \in Pairs |-> LessBy(f, p[1], p[2])]
Answers     == [Pairs -> BOOLEAN]

LEMMA EqualByType == \A f, l, r : EqualBy(f, l, r) \in BOOLEAN
  BY DEF EqualBy

LEMMA LessByType == \A f, l, r : LessBy(f, l, r) \in BOOLEAN
<1> SUFFICES ASSUME NEW f, NEW l, NEW r PROVE LessBy(f, l, r) \in BOOLEAN
  OBVIOUS
<1>1. LessItems(f, l.items, r.items) \in BOOLEAN /\ TypeLess(l.type, r.type) \in BOOLEAN
  BY DEF LessItems, TypeLess
<1> QED
  BY <1>1 DEF LessBy

LEMMA EqualsIs == Equals = CHOOSE f : f = EqualsOf(f)
  BY DEF Equals, EqualsOf

LEMMA LessIs == Less = CHOOSE f : f = LessOf(f)
  BY DEF Less, LessOf

LEMMA EqualsAsked ==
  ASSUME NEW f \in Answers, NEW g \in Answers, NEW l \in Compared, NEW r \in Compared,
         \A q \in Pairs : Depths[q] < Depths[<<l, r>>] => f[q] = g[q]
  PROVE  EqualBy(f, l, r) = EqualBy(g, l, r)
<1>1. CASE /\ ~(IsNumber(l) /\ IsNumber(r))
           /\ l.type = r.type /\ l.type \in Containers /\ Len(l.items) = Len(r.items)
  <2>1. ASSUME NEW i \in DOMAIN l.items PROVE f[<<l.items[i], r.items[i]>>] = g[<<l.items[i], r.items[i]>>]
    <3>1. i \in DOMAIN r.items
      BY <1>1, ItemFacts
    <3>2. PICK a \in Compared, b \in Compared : a = l.items[i] /\ b = r.items[i]
      BY <1>1, <3>1, ItemFacts
    <3>3. Nesting[a] < Nesting[l] /\ Nesting[b] < Nesting[r]
      BY <1>1, <3>1, <3>2, ItemFacts
    <3>4. <<a, b>> \in Pairs /\ Depths[<<a, b>>] < Depths[<<l, r>>]
      BY <3>3, DepthFacts, ValueFacts
    <3> QED
      BY <3>2, <3>4
  <2> QED
    BY <1>1, <2>1 DEF EqualBy
<1>2. CASE ~(/\ ~(IsNumber(l) /\ IsNumber(r))
             /\ l.type = r.type /\ l.type \in Containers /\ Len(l.items) = Len(r.items))
  BY <1>2 DEF EqualBy
<1> QED
  BY <1>1, <1>2

LEMMA LessAsked ==
  ASSUME NEW f \in Answers, NEW g \in Answers, NEW l \in Compared, NEW r \in Compared,
         \A q \in Pairs : Depths[q] < Depths[<<l, r>>] => f[q] = g[q]
  PROVE  LessBy(f, l, r) = LessBy(g, l, r)
<1>1. CASE /\ ~(IsNumber(l) /\ IsNumber(r)) /\ l.type = r.type /\ l.type \in Containers
  <2>1. ASSUME NEW i \in DOMAIN l.items, i \in DOMAIN r.items
        PROVE  /\ f[<<l.items[i], r.items[i]>>] = g[<<l.items[i], r.items[i]>>]
               /\ f[<<r.items[i], l.items[i]>>] = g[<<r.items[i], l.items[i]>>]
    <3>2. PICK a \in Compared, b \in Compared : a = l.items[i] /\ b = r.items[i]
      BY <1>1, <2>1, ItemFacts
    <3>3. Nesting[a] < Nesting[l] /\ Nesting[b] < Nesting[r]
      BY <1>1, <2>1, <3>2, ItemFacts
    <3>4. /\ <<a, b>> \in Pairs /\ Depths[<<a, b>>] < Depths[<<l, r>>]
          /\ <<b, a>> \in Pairs /\ Depths[<<b, a>>] < Depths[<<l, r>>]
      BY <3>3, DepthFacts, ValueFacts
    <3> QED
      BY <3>2, <3>4
  <2>2. LessItems(f, l.items, r.items) <=> LessItems(g, l.items, r.items)
    <3>1. \A i \in DOMAIN r.items : \A j \in 1 .. i - 1 : j \in DOMAIN r.items
      BY <1>1, ItemFacts
    <3> QED
      BY <2>1, <3>1 DEF LessItems
  <2> QED
    BY <1>1, <2>2 DEF LessBy
<1>2. CASE ~(~(IsNumber(l) /\ IsNumber(r)) /\ l.type = r.type /\ l.type \in Containers)
  BY <1>2 DEF LessBy
<1> QED
  BY <1>1, <1>2

LEMMA EqualsEquation ==
  \A l, r \in Compared : Equal(l, r) \in BOOLEAN /\ Equal(l, r) = EqualBy(Equals, l, r)
<1> DEFINE G == [f \in Answers |-> EqualsOf(f)]
<1>1. \A f \in Answers : G[f] = EqualsOf(f) /\ EqualsOf(f) \in Answers
  BY EqualByType DEF EqualsOf, Answers
<1>2. \A f : \A l, r \in Compared : EqualsOf(f)[<<l, r>>] = EqualBy(f, l, r)
  BY ValueFacts DEF EqualsOf
<1>3. Recursion(Pairs, BOOLEAN, Depths, G)
  <2>1. G \in [[Pairs -> BOOLEAN] -> [Pairs -> BOOLEAN]]
    BY <1>1 DEF Answers
  <2>2. ASSUME NEW f \in Answers, NEW g \in Answers, NEW p \in Pairs,
               \A q \in Pairs : Depths[q] < Depths[p] => f[q] = g[q]
        PROVE  G[f][p] = G[g][p]
    <3>1. PICK l \in Compared, r \in Compared : p = <<l, r>>
      BY ValueFacts
    <3>2. EqualBy(f, l, r) = EqualBy(g, l, r)
      BY <2>2, <3>1, EqualsAsked
    <3> QED
      BY <1>1, <1>2, <3>1, <3>2
  <2> HIDE DEF G
  <2> QED
    BY <2>1, <2>2, DepthFacts DEF Recursion, Answers
<1>4. \E h \in Answers : h = EqualsOf(h)
  <2> HIDE DEF G
  <2>1. BOOLEAN # {}
    OBVIOUS
  <2>2. HasSolution(Pairs, BOOLEAN, G)
    BY <1>3, <2>1, RecursionExists
  <2> QED
    BY <1>1, <2>2 DEF Answers, HasSolution
<1>5. Equals = EqualsOf(Equals)
  BY <1>4, EqualsIs
<1>6. PICK e : e = Equals
  OBVIOUS
<1>7. e = EqualsOf(e)
  BY <1>5, <1>6
<1>8. \A l, r \in Compared : e[<<l, r>>] = EqualBy(e, l, r)
  BY <1>2, <1>7
<1> SUFFICES ASSUME NEW l \in Compared, NEW r \in Compared
             PROVE  Equal(l, r) \in BOOLEAN /\ Equal(l, r) = EqualBy(Equals, l, r)
  OBVIOUS
<1>9. Equal(l, r) = EqualBy(Equals, l, r)
  BY <1>6, <1>8 DEF Equal
<1>10. EqualBy(Equals, l, r) \in BOOLEAN
  BY EqualByType
<1> QED
  BY <1>9, <1>10

LEMMA LessEquation ==
  \A l, r \in Compared : LessThan(l, r) \in BOOLEAN /\ LessThan(l, r) = LessBy(Less, l, r)
<1> DEFINE G == [f \in Answers |-> LessOf(f)]
<1>1. \A f \in Answers : G[f] = LessOf(f) /\ LessOf(f) \in Answers
  BY LessByType DEF LessOf, Answers
<1>2. \A f : \A l, r \in Compared : LessOf(f)[<<l, r>>] = LessBy(f, l, r)
  BY ValueFacts DEF LessOf
<1>3. Recursion(Pairs, BOOLEAN, Depths, G)
  <2>1. G \in [[Pairs -> BOOLEAN] -> [Pairs -> BOOLEAN]]
    BY <1>1 DEF Answers
  <2>2. ASSUME NEW f \in Answers, NEW g \in Answers, NEW p \in Pairs,
               \A q \in Pairs : Depths[q] < Depths[p] => f[q] = g[q]
        PROVE  G[f][p] = G[g][p]
    <3>1. PICK l \in Compared, r \in Compared : p = <<l, r>>
      BY ValueFacts
    <3>2. LessBy(f, l, r) = LessBy(g, l, r)
      BY <2>2, <3>1, LessAsked
    <3> QED
      BY <1>1, <1>2, <3>1, <3>2
  <2> HIDE DEF G
  <2> QED
    BY <2>1, <2>2, DepthFacts DEF Recursion, Answers
<1>4. \E h \in Answers : h = LessOf(h)
  <2> HIDE DEF G
  <2>1. BOOLEAN # {}
    OBVIOUS
  <2>2. HasSolution(Pairs, BOOLEAN, G)
    BY <1>3, <2>1, RecursionExists
  <2> QED
    BY <1>1, <2>2 DEF Answers, HasSolution
<1>5. Less = LessOf(Less)
  BY <1>4, LessIs
<1>6. PICK e : e = Less
  OBVIOUS
<1>7. e = LessOf(e)
  BY <1>5, <1>6
<1>8. \A l, r \in Compared : e[<<l, r>>] = LessBy(e, l, r)
  BY <1>2, <1>7
<1> SUFFICES ASSUME NEW l \in Compared, NEW r \in Compared
             PROVE  LessThan(l, r) \in BOOLEAN /\ LessThan(l, r) = LessBy(Less, l, r)
  OBVIOUS
<1>9. LessThan(l, r) = LessBy(Less, l, r)
  BY <1>6, <1>8 DEF LessThan
<1>10. LessBy(Less, l, r) \in BOOLEAN
  BY LessByType
<1> QED
  BY <1>9, <1>10

AtomsBy(f, v) ==
  IF v.type \in Containers THEN UNION {f[v.items[i]] : i \in DOMAIN v.items} ELSE {v}
AtomsOf(f) == [v \in Compared |-> AtomsBy(f, v)]
AtomSets   == [Compared -> SUBSET Compared]

LEMMA AtomsIs == Atoms = CHOOSE f : f = AtomsOf(f)
  BY DEF Atoms, AtomsOf, AtomsBy

LEMMA AtomsEquation == \A v \in Compared : Atoms[v] = AtomsBy(Atoms, v)
<1> DEFINE G == [f \in AtomSets |-> AtomsOf(f)]
<1>1. ASSUME NEW f \in AtomSets PROVE G[f] = AtomsOf(f) /\ AtomsOf(f) \in AtomSets
  <2>1. ASSUME NEW v \in Compared PROVE AtomsBy(f, v) \in SUBSET Compared
    <3>1. CASE v.type \in Containers
      <4>1. \A i \in DOMAIN v.items : v.items[i] \in Compared
        BY <3>1, ItemFacts
      <4>2. \A i \in DOMAIN v.items : f[v.items[i]] \in SUBSET Compared
        BY <4>1 DEF AtomSets
      <4> QED
        BY <3>1, <4>2 DEF AtomsBy
    <3>2. CASE v.type \notin Containers
      BY <3>2 DEF AtomsBy
    <3> QED
      BY <3>1, <3>2
  <2> QED
    BY <2>1 DEF AtomsOf, AtomSets
<1>2. Recursion(Compared, SUBSET Compared, Nesting, G)
  <2>1. G \in [[Compared -> SUBSET Compared] -> [Compared -> SUBSET Compared]]
    BY <1>1 DEF AtomSets
  <2>2. ASSUME NEW f \in AtomSets, NEW g \in AtomSets, NEW v \in Compared,
               \A q \in Compared : Nesting[q] < Nesting[v] => f[q] = g[q]
        PROVE  G[f][v] = G[g][v]
    <3>1. CASE v.type \in Containers
      <4>1. \A i \in DOMAIN v.items : f[v.items[i]] = g[v.items[i]]
        BY <2>2, <3>1, ItemFacts
      <4>2. {f[v.items[i]] : i \in DOMAIN v.items} = {g[v.items[i]] : i \in DOMAIN v.items}
        BY <4>1
      <4>3. AtomsBy(f, v) = AtomsBy(g, v)
        BY <4>2 DEF AtomsBy
      <4> QED
        BY <1>1, <4>3 DEF AtomsOf
    <3>2. CASE v.type \notin Containers
      BY <1>1, <3>2 DEF AtomsOf, AtomsBy
    <3> QED
      BY <3>1, <3>2
  <2>3. Nesting \in [Compared -> Nat]
    BY OrderAssumption
  <2> HIDE DEF G
  <2> QED
    BY <2>1, <2>2, <2>3 DEF Recursion, AtomSets
<1>3. \E h \in AtomSets : h = AtomsOf(h)
  <2> HIDE DEF G
  <2>1. PICK X : X = SUBSET Compared
    OBVIOUS
  <2>2. X # {} /\ Recursion(Compared, X, Nesting, G)
    BY <1>2, <2>1
  <2>3. HasSolution(Compared, X, G)
    BY <2>2, RecursionExists
  <2> QED
    BY <1>1, <2>1, <2>3 DEF AtomSets, HasSolution
<1>4. PICK a : a = Atoms
  OBVIOUS
<1>5. a = AtomsOf(a)
  BY <1>3, <1>4, AtomsIs
<1>6. \A v \in Compared : a[v] = AtomsBy(a, v)
  BY <1>5 DEF AtomsOf
<1> QED
  BY <1>4, <1>6

ExactAtom(a) ==
  /\ ~IsNaN(a) /\ a # Discarded
  /\ IsNumber(a) => a.rank \in -(2 ^ Precision) .. 2 ^ Precision - 1

(* What is exact has exact values in it.                                    *)
LEMMA ExactFacts ==
  ASSUME NEW v \in Compared, Exact(v)
  PROVE  /\ v.type \notin Containers => ExactAtom(v)
         /\ v.type \in Containers => \A i \in DOMAIN v.items : Exact(v.items[i])
<1>1. \A a \in Atoms[v] : ExactAtom(a)
  BY DEF Exact, ExactAtom
<1>2. CASE v.type \notin Containers
  <2>1. Atoms[v] = {v}
    BY <1>2, AtomsEquation DEF AtomsBy
  <2> QED
    BY <1>1, <1>2, <2>1
<1>3. CASE v.type \in Containers
  <2>1. Atoms[v] = UNION {Atoms[v.items[i]] : i \in DOMAIN v.items}
    BY <1>3, AtomsEquation DEF AtomsBy
  <2>2. ASSUME NEW i \in DOMAIN v.items PROVE Exact(v.items[i])
    <3>1. Atoms[v.items[i]] \subseteq Atoms[v]
      BY <2>1
    <3>2. \A a \in Atoms[v.items[i]] : ExactAtom(a)
      BY <1>1, <3>1
    <3> QED
      BY <3>2 DEF Exact, ExactAtom
  <2> QED
    BY <1>3, <2>2
<1> QED
  BY <1>2, <1>3

-----------------------------------------------------------------------------
(* How exact values compare: by the rank of their types, then by their own  *)
(* rank or by what is in them.                                              *)

Class(v) == TypeRank(v.type)

LEMMA PowerIsInt == 2 ^ Precision \in Int
  BY OrderAssumption

LEMMA ConvertedIs ==
  ASSUME NEW v \in Compared, Exact(v), IsNumber(v), NEW type \in Numbers
  PROVE  Converted(v, type) = v.rank /\ v.rank \in Int
<1>1. v.type \notin Containers
  BY DEF IsNumber, Numbers, Containers
<1>2. ExactAtom(v)
  BY <1>1, ExactFacts
<1>3. PICK q \in Int : q = 2 ^ Precision
  BY PowerIsInt
<1>4. v.rank \in -q .. q - 1
  BY <1>2, <1>3 DEF ExactAtom
<1>5. v.rank \in Int /\ v.rank < q /\ v.rank \in -q .. q
  BY <1>4
<1>6. Float(v.rank) = v.rank /\ Signed(v.rank) = v.rank
  BY <1>3, <1>5 DEF Float, Signed
<1> QED
  BY <1>5, <1>6 DEF Converted

LEMMA ClassIs ==
  ASSUME NEW v \in Compared, Exact(v)
  PROVE  /\ Class(v) \in 0 .. 5 /\ v.type # "discarded" /\ v # Discarded
         /\ IsNumber(v) <=> Class(v) = 2
         /\ Class(v) \in {3, 4} <=> v.type \in Containers
         /\ v.type = "null" <=> Class(v) = 0
         /\ v.type = "boolean" <=> Class(v) = 1
         /\ v.type = "object" <=> Class(v) = 3
         /\ v.type = "array" <=> Class(v) = 4
         /\ v.type = "string" <=> Class(v) = 5
         /\ Class(v) \notin {3, 4} => v.rank \in Int
         /\ ~IsNaN(v)
<1>1. v # Discarded
  BY ExactFacts, ValueFacts DEF ExactAtom, Containers, Discarded
<1>2. v.type \in {"integer", "unsigned", "float", "null", "boolean", "string", "object", "array"}
  BY <1>1, ValueFacts DEF IsValue, Numbers, Containers
<1>3. v.type \notin Containers => v.rank \in Int
  BY <1>1, ValueFacts DEF IsValue
<1>4. ~IsNaN(v)
  BY ExactFacts DEF ExactAtom, IsNaN, Containers
<1>5. /\ v.type \in {"integer", "unsigned", "float"} => Class(v) = 2
      /\ v.type = "null" => Class(v) = 0
      /\ v.type = "boolean" => Class(v) = 1
      /\ v.type = "object" => Class(v) = 3
      /\ v.type = "array" => Class(v) = 4
      /\ v.type = "string" => Class(v) = 5
  BY DEF Class, TypeRank, Numbers
<1> QED
  BY <1>1, <1>2, <1>3, <1>4, <1>5 DEF Containers, IsNumber, Numbers

EqualItems(a, b) == Len(a) = Len(b) /\ \A i \in DOMAIN a : Equal(a[i], b[i])

LEMMA OtherClass ==
  ASSUME NEW u \in Compared, Exact(u), NEW v \in Compared, Exact(v), Class(u) # Class(v)
  PROVE  (LessThan(u, v) <=> Class(u) < Class(v)) /\ ~Equal(u, v)
<1>1. u.type # v.type /\ ~(IsNumber(u) /\ IsNumber(v))
  BY ClassIs
<1>2. "discarded" \notin {u.type, v.type}
  BY ClassIs
<1>3. LessThan(u, v) = TypeLess(u.type, v.type)
  BY <1>1, LessEquation DEF LessBy
<1>4. Equal(u, v) = FALSE
  BY <1>1, EqualsEquation DEF EqualBy
<1> QED
  BY <1>2, <1>3, <1>4 DEF TypeLess, Class

LEMMA SameClass ==
  ASSUME NEW u \in Compared, Exact(u), NEW v \in Compared, Exact(v),
         Class(u) = Class(v), Class(u) \notin {3, 4}
  PROVE  /\ LessThan(u, v) <=> u.rank < v.rank
         /\ Equal(u, v) <=> u.rank = v.rank
         /\ u.rank \in Int /\ v.rank \in Int
<1>1. CASE IsNumber(u)
  <2>1. IsNumber(v) /\ ~IsNaN(u) /\ ~IsNaN(v) /\ u.type \in Numbers /\ v.type \in Numbers
    BY <1>1, ClassIs DEF IsNumber
  <2>2. /\ Converted(u, v.type) = u.rank /\ Converted(v, u.type) = v.rank
        /\ u.rank \in Int /\ v.rank \in Int
    BY <1>1, <2>1, ConvertedIs
  <2>3. LessThan(u, v) <=> u.rank < v.rank
    <3>1. LessBy(Less, u, v) <=> Converted(u, v.type) < Converted(v, u.type)
      BY <1>1, <2>1 DEF LessBy, IsNumber, Numbers, Containers
    <3>2. LessThan(u, v) <=> LessBy(Less, u, v)
      BY LessEquation
    <3> QED
      BY <2>2, <3>1, <3>2
  <2>4. Equal(u, v) <=> u.rank = v.rank
    <3>1. EqualBy(Equals, u, v) <=> Converted(u, v.type) = Converted(v, u.type)
      BY <1>1, <2>1 DEF EqualBy, IsNumber, Numbers, Containers
    <3>2. Equal(u, v) <=> EqualBy(Equals, u, v)
      BY EqualsEquation
    <3> QED
      BY <2>2, <3>1, <3>2
  <2> QED
    BY <2>2, <2>3, <2>4
<1>2. CASE ~IsNumber(u)
  <2>1. u.type = v.type /\ u.type \notin Containers \cup Numbers /\ u # Discarded
    BY <1>2, ClassIs DEF IsNumber
  <2>2. u.rank \in Int /\ v.rank \in Int
    BY ClassIs
  <2>3. LessThan(u, v) <=> u.rank < v.rank
    BY <1>2, <2>1, LessEquation DEF LessBy
  <2>4. Equal(u, v) <=> u.rank = v.rank
    BY <1>2, <2>1, EqualsEquation DEF EqualBy
  <2> QED
    BY <2>2, <2>3, <2>4
<1> QED
  BY <1>1, <1>2

LEMMA SameContainer ==
  ASSUME NEW u \in Compared, Exact(u), NEW v \in Compared, Exact(v),
         Class(u) = Class(v), Class(u) \in {3, 4}
  PROVE  /\ u.type \in Containers /\ v.type \in Containers
         /\ LessThan(u, v) <=> LessItems(Less, u.items, v.items)
         /\ Equal(u, v) <=> EqualItems(u.items, v.items)
<1>1. u.type = v.type /\ u.type \in Containers /\ ~IsNumber(u)
  BY ClassIs
<1>2. LessThan(u, v) <=> LessItems(Less, u.items, v.items)
  BY <1>1, LessEquation DEF LessBy
<1>3. Equal(u, v) <=> EqualItems(u.items, v.items)
  BY <1>1, EqualsEquation DEF EqualBy, EqualItems, Equal
<1> QED
  BY <1>1, <1>2, <1>3

-----------------------------------------------------------------------------
(* Order and what it is on sequences                                        *)

Before(x, y) == LessThan(x, y)
Same(x, y)   == Equal(x, y)

Ordered(S) ==
  /\ \A u, v \in S : Before(u, v) \/ Same(u, v) \/ Before(v, u)
  /\ \A u, v \in S : ~(Before(u, v) /\ Same(u, v)) /\ ~(Before(u, v) /\ Before(v, u))
  /\ \A u, v \in S : Same(u, v) => Same(v, u)
  /\ \A u, v, w \in S : Before(u, v) /\ Before(v, w) => Before(u, w)
  /\ \A u, v, w \in S : Same(u, v) /\ Same(v, w) => Same(u, w)
  /\ \A u, v, w \in S : Same(u, v) /\ Before(v, w) => Before(u, w)
  /\ \A u, v, w \in S : Before(u, v) /\ Same(v, w) => Before(u, w)

(* Up to i the sequences a and b are the same.                              *)
SameTo(a, b, i) ==
  \A j \in Nat : 1 <= j /\ j < i => j <= Len(a) /\ j <= Len(b) /\ Same(a[j], b[j])

(* At i, a comes before b.                                                  *)
BeforeAt(a, b, i) ==
  /\ i \in Nat /\ 1 <= i /\ i <= Len(b) /\ SameTo(a, b, i)
  /\ i <= Len(a) => Before(a[i], b[i])

ItemsBefore(a, b) == \E i : BeforeAt(a, b, i)
ItemsSame(a, b) ==
  Len(a) = Len(b) /\ \A i \in Nat : 1 <= i /\ i <= Len(a) => Same(a[i], b[i])

LEMMA ItemIn ==
  ASSUME NEW S, NEW a \in Seq(S)
  PROVE  /\ Len(a) \in Nat /\ DOMAIN a = 1 .. Len(a)
         /\ \A i \in Nat : 1 <= i /\ i <= Len(a) => a[i] \in S
<1>1. Len(a) \in Nat /\ DOMAIN a = 1 .. Len(a)
  BY LenProperties
<1>2. ASSUME NEW i \in Nat, 1 <= i, i <= Len(a) PROVE a[i] \in S
  <2>1. i \in 1 .. Len(a)
    BY <1>1, <1>2
  <2> QED
    BY <2>1, ElementOfSeq
<1> QED
  BY <1>1, <1>2

LEMMA ItemsSameIs ==
  ASSUME NEW S, NEW a \in Seq(S), NEW b \in Seq(S)
  PROVE  EqualItems(a, b) <=> ItemsSame(a, b)
<1>1. Len(a) \in Nat /\ DOMAIN a = 1 .. Len(a)
  BY ItemIn
<1> QED
  BY <1>1 DEF EqualItems, ItemsSame, Same

LEMMA ItemsBeforeIs ==
  ASSUME NEW S, Ordered(S), NEW a \in Seq(S), NEW b \in Seq(S)
  PROVE  LessItems(Less, a, b) <=> ItemsBefore(a, b)
<1>1. /\ Len(a) \in Nat /\ DOMAIN a = 1 .. Len(a) /\ Len(b) \in Nat /\ DOMAIN b = 1 .. Len(b)
      /\ \A i \in Nat : 1 <= i /\ i <= Len(a) => a[i] \in S
      /\ \A i \in Nat : 1 <= i /\ i <= Len(b) => b[i] \in S
  BY ItemIn
<1>2. \A u, v \in S : Same(u, v) <=> ~Less[<<u, v>>] /\ ~Less[<<v, u>>]
  BY DEF Ordered, Before, LessThan
<1>3. \A u, v : Before(u, v) <=> Less[<<u, v>>]
  BY DEF Before, LessThan
<1>4. ASSUME LessItems(Less, a, b) PROVE ItemsBefore(a, b)
  <2>1. PICK i \in DOMAIN b :
          /\ \A j \in 1 .. i - 1 : j \in DOMAIN a /\ ~Less[<<a[j], b[j]>>] /\ ~Less[<<b[j], a[j]>>]
          /\ i \in DOMAIN a => Less[<<a[i], b[i]>>]
    BY <1>4 DEF LessItems
  <2>2. i \in Nat /\ 1 <= i /\ i <= Len(b)
    BY <1>1
  <2>3. ASSUME NEW j \in Nat, 1 <= j, j < i
        PROVE  j <= Len(a) /\ j <= Len(b) /\ Same(a[j], b[j])
    <3>1. j \in 1 .. i - 1
      BY <2>2, <2>3
    <3>2. j <= Len(a) /\ j <= Len(b)
      <4>1. j \in DOMAIN a
        BY <2>1, <3>1
      <4>2. j <= Len(a)
        BY <1>1, <4>1
      <4>3. Len(b) \in Nat /\ i \in Nat /\ i <= Len(b)
        BY <1>1, <2>2
      <4> QED
        BY <2>3, <4>2, <4>3
    <3>3. a[j] \in S /\ b[j] \in S
      BY <1>1, <2>3, <3>2
    <3> QED
      BY <1>2, <2>1, <3>1, <3>2, <3>3
  <2>4. i <= Len(a) => Before(a[i], b[i])
    BY <1>1, <1>3, <2>1, <2>2
  <2> QED
    BY <2>2, <2>3, <2>4 DEF ItemsBefore, BeforeAt, SameTo
<1>5. ASSUME ItemsBefore(a, b) PROVE LessItems(Less, a, b)
  <2>1. PICK i : BeforeAt(a, b, i)
    BY <1>5 DEF ItemsBefore
  <2>2. i \in Nat /\ 1 <= i /\ i <= Len(b) /\ i \in DOMAIN b
    BY <1>1, <2>1 DEF BeforeAt
  <2>3. ASSUME NEW j \in 1 .. i - 1
        PROVE  j \in DOMAIN a /\ ~Less[<<a[j], b[j]>>] /\ ~Less[<<b[j], a[j]>>]
    <3>1. j \in Nat /\ 1 <= j /\ j < i
      BY <2>2
    <3>2. j <= Len(a) /\ j <= Len(b) /\ Same(a[j], b[j])
      BY <2>1, <3>1 DEF BeforeAt, SameTo
    <3>3. a[j] \in S /\ b[j] \in S
      BY <1>1, <3>1, <3>2
    <3>4. j \in DOMAIN a
      BY <1>1, <3>1, <3>2
    <3> QED
      BY <1>2, <3>2, <3>3, <3>4
  <2>4. i \in DOMAIN a => Less[<<a[i], b[i]>>]
    BY <1>1, <1>3, <2>1 DEF BeforeAt
  <2> QED
    BY <2>2, <2>3, <2>4 DEF LessItems
<1> QED
  BY <1>4, <1>5

LEMMA FirstDifference ==
  ASSUME NEW S, Ordered(S), NEW a \in Seq(S), NEW b \in Seq(S)
  PROVE  ItemsBefore(a, b) \/ ItemsSame(a, b) \/ ItemsBefore(b, a)
<1>1. /\ Len(a) \in Nat /\ Len(b) \in Nat
      /\ \A i \in Nat : 1 <= i /\ i <= Len(a) => a[i] \in S
      /\ \A i \in Nat : 1 <= i /\ i <= Len(b) => b[i] \in S
  BY ItemIn
<1> DEFINE D == {i \in Nat : 1 <= i /\ (i <= Len(a) /\ i <= Len(b) => ~Same(a[i], b[i]))}
<1>2. PICK i \in D : \A j \in D : i <= j
  <2>1. Len(a) + 1 \in D
    BY <1>1
  <2>2. D \in SUBSET Nat
    OBVIOUS
  <2> HIDE DEF D
  <2> QED
    BY <2>1, <2>2, Least
<1>3. i \in Nat /\ 1 <= i
  OBVIOUS
<1>4. ASSUME NEW j \in Nat, 1 <= j, j < i
      PROVE  j <= Len(a) /\ j <= Len(b) /\ Same(a[j], b[j]) /\ Same(b[j], a[j])
  <2>1. j \notin D
    BY <1>2, <1>3, <1>4
  <2>2. j <= Len(a) /\ j <= Len(b) /\ Same(a[j], b[j])
    BY <1>4, <2>1
  <2>3. a[j] \in S /\ b[j] \in S
    BY <1>1, <1>4, <2>2
  <2> QED
    BY <2>2, <2>3 DEF Ordered
<1>5. SameTo(a, b, i) /\ SameTo(b, a, i)
  BY <1>4 DEF SameTo
<1>6. CASE i <= Len(a) /\ i <= Len(b)
  <2>1. a[i] \in S /\ b[i] \in S /\ ~Same(a[i], b[i])
    BY <1>1, <1>3, <1>6
  <2>2. Before(a[i], b[i]) \/ Before(b[i], a[i])
    BY <2>1 DEF Ordered
  <2> QED
    BY <1>3, <1>5, <1>6, <2>2 DEF ItemsBefore, BeforeAt
<1>7. CASE ~(i <= Len(a)) /\ i <= Len(b)
  BY <1>3, <1>5, <1>7 DEF ItemsBefore, BeforeAt
<1>8. CASE i <= Len(a) /\ ~(i <= Len(b))
  BY <1>3, <1>5, <1>8 DEF ItemsBefore, BeforeAt
<1>9. CASE ~(i <= Len(a)) /\ ~(i <= Len(b))
  <2>1. PICK m \in Nat, n \in Nat : m = Len(a) /\ n = Len(b)
    BY <1>1
  <2>2. m < i /\ n < i
    BY <1>3, <1>9, <2>1
  <2>3. m = n
    <3>1. 1 <= m => m <= n
      BY <1>4, <2>1, <2>2
    <3>2. 1 <= n => n <= m
      BY <1>4, <2>1, <2>2
    <3> QED
      BY <3>1, <3>2
  <2>4. ASSUME NEW j \in Nat, 1 <= j, j <= Len(a) PROVE Same(a[j], b[j])
    <3>1. j < i
      BY <1>3, <2>1, <2>2, <2>4
    <3> QED
      BY <1>4, <2>4, <3>1
  <2> QED
    BY <2>1, <2>3, <2>4 DEF ItemsSame
<1> QED
  BY <1>6, <1>7, <1>8, <1>9

LEMMA OneOfThree ==
  ASSUME NEW S, Ordered(S), NEW a \in Seq(S), NEW b \in Seq(S)
  PROVE  /\ ~(ItemsBefore(a, b) /\ ItemsSame(a, b))
         /\ ~(ItemsBefore(a, b) /\ ItemsBefore(b, a))
<1>1. /\ Len(a) \in Nat /\ Len(b) \in Nat
      /\ \A i \in Nat : 1 <= i /\ i <= Len(a) => a[i] \in S
      /\ \A i \in Nat : 1 <= i /\ i <= Len(b) => b[i] \in S
  BY ItemIn
<1>2. ASSUME ItemsBefore(a, b), ItemsSame(a, b) PROVE FALSE
  <2>1. PICK i : BeforeAt(a, b, i)
    BY <1>2 DEF ItemsBefore
  <2>2. i \in Nat /\ 1 <= i /\ i <= Len(b) /\ i <= Len(a)
    BY <1>2, <2>1 DEF BeforeAt, ItemsSame
  <2>3. Before(a[i], b[i]) /\ Same(a[i], b[i]) /\ a[i] \in S /\ b[i] \in S
    BY <1>1, <1>2, <2>1, <2>2 DEF BeforeAt, ItemsSame
  <2> QED
    BY <2>3 DEF Ordered
<1>3. ASSUME NEW i, NEW k, BeforeAt(a, b, i), BeforeAt(b, a, k) PROVE FALSE
  <2>1. i \in Nat /\ 1 <= i /\ i <= Len(b) /\ k \in Nat /\ 1 <= k /\ k <= Len(a)
    BY <1>3 DEF BeforeAt
  <2>2. CASE i < k
    <3>1. i <= Len(b) /\ i <= Len(a) /\ Same(b[i], a[i])
      BY <1>3, <2>1, <2>2 DEF BeforeAt, SameTo
    <3>2. Before(a[i], b[i]) /\ a[i] \in S /\ b[i] \in S
      BY <1>1, <1>3, <2>1, <3>1 DEF BeforeAt
    <3> QED
      BY <3>1, <3>2 DEF Ordered
  <2>3. CASE k < i
    <3>1. k <= Len(b) /\ k <= Len(a) /\ Same(a[k], b[k])
      BY <1>3, <2>1, <2>3 DEF BeforeAt, SameTo
    <3>2. Before(b[k], a[k]) /\ a[k] \in S /\ b[k] \in S
      BY <1>1, <1>3, <2>1, <3>1 DEF BeforeAt
    <3> QED
      BY <3>1, <3>2 DEF Ordered
  <2>4. CASE i = k
    <3>1. Before(a[i], b[i]) /\ Before(b[i], a[i]) /\ a[i] \in S /\ b[i] \in S
      BY <1>1, <1>3, <2>1, <2>4 DEF BeforeAt
    <3> QED
      BY <3>1 DEF Ordered
  <2> QED
    BY <2>1, <2>2, <2>3, <2>4
<1> QED
  BY <1>2, <1>3 DEF ItemsBefore

LEMMA SameItems ==
  ASSUME NEW S, Ordered(S), NEW a \in Seq(S), NEW b \in Seq(S), NEW c \in Seq(S)
  PROVE  /\ ItemsSame(a, b) => ItemsSame(b, a)
         /\ ItemsSame(a, b) /\ ItemsSame(b, c) => ItemsSame(a, c)
<1>1. /\ Len(a) \in Nat /\ Len(b) \in Nat /\ Len(c) \in Nat
      /\ \A i \in Nat : 1 <= i /\ i <= Len(a) => a[i] \in S
      /\ \A i \in Nat : 1 <= i /\ i <= Len(b) => b[i] \in S
      /\ \A i \in Nat : 1 <= i /\ i <= Len(c) => c[i] \in S
  BY ItemIn
<1>2. ASSUME ItemsSame(a, b) PROVE ItemsSame(b, a)
  <2>1. ASSUME NEW i \in Nat, 1 <= i, i <= Len(b) PROVE Same(b[i], a[i])
    <3>1. Same(a[i], b[i]) /\ a[i] \in S /\ b[i] \in S
      BY <1>1, <1>2, <2>1 DEF ItemsSame
    <3> QED
      BY <3>1 DEF Ordered
  <2> QED
    BY <1>2, <2>1 DEF ItemsSame
<1>3. ASSUME ItemsSame(a, b), ItemsSame(b, c) PROVE ItemsSame(a, c)
  <2>1. ASSUME NEW i \in Nat, 1 <= i, i <= Len(a) PROVE Same(a[i], c[i])
    <3>1. /\ Same(a[i], b[i]) /\ Same(b[i], c[i])
          /\ a[i] \in S /\ b[i] \in S /\ c[i] \in S
      BY <1>1, <1>3, <2>1 DEF ItemsSame
    <3> QED
      BY <3>1 DEF Ordered
  <2> QED
    BY <1>3, <2>1 DEF ItemsSame
<1> QED
  BY <1>2, <1>3

LEMMA BeforeBefore ==
  ASSUME NEW S, Ordered(S), NEW a \in Seq(S), NEW b \in Seq(S), NEW c \in Seq(S),
         ItemsBefore(a, b), ItemsBefore(b, c)
  PROVE  ItemsBefore(a, c)
<1>1. /\ \A i \in Nat : 1 <= i /\ i <= Len(a) => a[i] \in S
      /\ \A i \in Nat : 1 <= i /\ i <= Len(b) => b[i] \in S
      /\ \A i \in Nat : 1 <= i /\ i <= Len(c) => c[i] \in S
  BY ItemIn
<1>2. PICK m \in Nat, n \in Nat, o \in Nat : m = Len(a) /\ n = Len(b) /\ o = Len(c)
  BY ItemIn
<1>3. PICK i : BeforeAt(a, b, i)
  BY DEF ItemsBefore
<1>4. PICK k : BeforeAt(b, c, k)
  BY DEF ItemsBefore
<1>5. i \in Nat /\ 1 <= i /\ i <= n /\ k \in Nat /\ 1 <= k /\ k <= o
  BY <1>2, <1>3, <1>4 DEF BeforeAt
<1>6. ASSUME NEW j \in Nat, 1 <= j, j < i, j < k
      PROVE  j <= Len(a) /\ j <= Len(c) /\ Same(a[j], c[j])
  <2>1. /\ j <= Len(a) /\ j <= Len(b) /\ Same(a[j], b[j])
        /\ j <= Len(c) /\ Same(b[j], c[j])
    BY <1>3, <1>4, <1>6 DEF BeforeAt, SameTo
  <2>2. a[j] \in S /\ b[j] \in S /\ c[j] \in S
    BY <1>1, <1>6, <2>1
  <2> QED
    BY <2>1, <2>2 DEF Ordered
<1>7. CASE i < k
  <2>1. i <= n /\ i <= o /\ Same(b[i], c[i])
    BY <1>2, <1>4, <1>5, <1>7 DEF BeforeAt, SameTo
  <2>2. ASSUME i <= m PROVE Before(a[i], c[i])
    <3>1. Before(a[i], b[i]) /\ a[i] \in S /\ b[i] \in S /\ c[i] \in S
      BY <1>1, <1>2, <1>3, <1>5, <2>1, <2>2 DEF BeforeAt
    <3> QED
      BY <2>1, <3>1 DEF Ordered
  <2>3. SameTo(a, c, i)
    <3>1. \A j \in Nat : j < i => j < k
      BY <1>5, <1>7
    <3> QED
      BY <1>6, <3>1 DEF SameTo
  <2> QED
    BY <1>2, <1>5, <2>1, <2>2, <2>3 DEF ItemsBefore, BeforeAt
<1>8. CASE k < i
  <2>1. k <= m /\ k <= n /\ Same(a[k], b[k])
    BY <1>2, <1>3, <1>5, <1>8 DEF BeforeAt, SameTo
  <2>2. Before(a[k], c[k])
    <3>1. Before(b[k], c[k]) /\ a[k] \in S /\ b[k] \in S /\ c[k] \in S
      BY <1>1, <1>2, <1>4, <1>5, <2>1 DEF BeforeAt
    <3> QED
      BY <2>1, <3>1 DEF Ordered
  <2>3. SameTo(a, c, k)
    <3>1. \A j \in Nat : j < k => j < i
      BY <1>5, <1>8
    <3> QED
      BY <1>6, <3>1 DEF SameTo
  <2> QED
    BY <1>2, <1>5, <2>2, <2>3 DEF ItemsBefore, BeforeAt
<1>9. CASE i = k
  <2>1. ASSUME i <= m PROVE Before(a[i], c[i])
    <3>1. /\ Before(a[i], b[i]) /\ Before(b[i], c[i])
          /\ a[i] \in S /\ b[i] \in S /\ c[i] \in S
      BY <1>1, <1>2, <1>3, <1>4, <1>5, <1>9, <2>1 DEF BeforeAt
    <3> QED
      BY <3>1 DEF Ordered
  <2>2. SameTo(a, c, i)
    BY <1>6, <1>9 DEF SameTo
  <2> QED
    BY <1>2, <1>5, <1>9, <2>1, <2>2 DEF ItemsBefore, BeforeAt
<1> QED
  BY <1>5, <1>7, <1>8, <1>9

LEMMA SameBefore ==
  ASSUME NEW S, Ordered(S), NEW a \in Seq(S), NEW b \in Seq(S), NEW c \in Seq(S),
         ItemsSame(a, b), ItemsBefore(b, c)
  PROVE  ItemsBefore(a, c)
<1>1. /\ \A i \in Nat : 1 <= i /\ i <= Len(a) => a[i] \in S
      /\ \A i \in Nat : 1 <= i /\ i <= Len(b) => b[i] \in S
      /\ \A i \in Nat : 1 <= i /\ i <= Len(c) => c[i] \in S
  BY ItemIn
<1>2. PICK k : BeforeAt(b, c, k)
  BY DEF ItemsBefore
<1>3. k \in Nat /\ 1 <= k /\ k <= Len(c) /\ Len(a) = Len(b)
  BY <1>2 DEF BeforeAt, ItemsSame
<1>4. ASSUME NEW j \in Nat, 1 <= j, j < k
      PROVE  j <= Len(a) /\ j <= Len(c) /\ Same(a[j], c[j])
  <2>1. j <= Len(a) /\ j <= Len(b) /\ j <= Len(c) /\ Same(b[j], c[j]) /\ Same(a[j], b[j])
    BY <1>2, <1>3, <1>4 DEF BeforeAt, SameTo, ItemsSame
  <2>2. a[j] \in S /\ b[j] \in S /\ c[j] \in S
    BY <1>1, <1>4, <2>1
  <2> QED
    BY <2>1, <2>2 DEF Ordered
<1>5. ASSUME k <= Len(a) PROVE Before(a[k], c[k])
  <2>1. Before(b[k], c[k]) /\ Same(a[k], b[k])
    BY <1>2, <1>3, <1>5 DEF BeforeAt, ItemsSame
  <2>2. a[k] \in S /\ b[k] \in S /\ c[k] \in S
    BY <1>1, <1>3, <1>5
  <2> QED
    BY <2>1, <2>2 DEF Ordered
<1> QED
  BY <1>3, <1>4, <1>5 DEF ItemsBefore, BeforeAt, SameTo

LEMMA BeforeSame ==
  ASSUME NEW S, Ordered(S), NEW a \in Seq(S), NEW b \in Seq(S), NEW c \in Seq(S),
         ItemsBefore(a, b), ItemsSame(b, c)
  PROVE  ItemsBefore(a, c)
<1>1. /\ \A i \in Nat : 1 <= i /\ i <= Len(a) => a[i] \in S
      /\ \A i \in Nat : 1 <= i /\ i <= Len(b) => b[i] \in S
      /\ \A i \in Nat : 1 <= i /\ i <= Len(c) => c[i] \in S
  BY ItemIn
<1>2. PICK k : BeforeAt(a, b, k)
  BY DEF ItemsBefore
<1>3. k \in Nat /\ 1 <= k /\ k <= Len(b) /\ k <= Len(c) /\ Len(b) = Len(c)
  BY <1>2 DEF BeforeAt, ItemsSame
<1>4. ASSUME NEW j \in Nat, 1 <= j, j < k
      PROVE  j <= Len(a) /\ j <= Len(c) /\ Same(a[j], c[j])
  <2>1. j <= Len(a) /\ j <= Len(b) /\ j <= Len(c) /\ Same(a[j], b[j]) /\ Same(b[j], c[j])
    BY <1>2, <1>3, <1>4 DEF BeforeAt, SameTo, ItemsSame
  <2>2. a[j] \in S /\ b[j] \in S /\ c[j] \in S
    BY <1>1, <1>4, <2>1
  <2> QED
    BY <2>1, <2>2 DEF Ordered
<1>5. ASSUME k <= Len(a) PROVE Before(a[k], c[k])
  <2>1. Before(a[k], b[k]) /\ Same(b[k], c[k])
    BY <1>2, <1>3, <1>5 DEF BeforeAt, ItemsSame
  <2>2. a[k] \in S /\ b[k] \in S /\ c[k] \in S
    BY <1>1, <1>3, <1>5
  <2> QED
    BY <2>1, <2>2 DEF Ordered
<1> QED
  BY <1>3, <1>4, <1>5 DEF ItemsBefore, BeforeAt, SameTo

-----------------------------------------------------------------------------
(* All exact values are in one order, by induction on their nesting         *)

ExactBelow(n) == {v \in Compared : Exact(v) /\ Nesting[v] < n}

(* How an exact value compares when what is in it is ordered.               *)
LEMMA CompareIs ==
  ASSUME NEW n \in Nat, Ordered(ExactBelow(n)),
         NEW u \in ExactBelow(n + 1), NEW v \in ExactBelow(n + 1)
  PROVE  /\ Class(u) \in Int
         /\ Class(u) # Class(v) => (Before(u, v) <=> Class(u) < Class(v)) /\ ~Same(u, v)
         /\ Class(u) = Class(v) /\ Class(u) \notin {3, 4} =>
              /\ Before(u, v) <=> u.rank < v.rank
              /\ Same(u, v) <=> u.rank = v.rank
              /\ u.rank \in Int /\ v.rank \in Int
         /\ Class(u) \in {3, 4} => u.items \in Seq(ExactBelow(n))
         /\ Class(u) = Class(v) /\ Class(u) \in {3, 4} =>
              /\ Before(u, v) <=> ItemsBefore(u.items, v.items)
              /\ Same(u, v) <=> ItemsSame(u.items, v.items)
<1>1. u \in Compared /\ Exact(u) /\ v \in Compared /\ Exact(v) /\ Nesting[u] \in Nat /\ Nesting[v] \in Nat
  BY ValueFacts DEF ExactBelow
<1>2. Class(u) \in Int
  BY <1>1, ClassIs
<1>3. ASSUME NEW w \in ExactBelow(n + 1), Class(w) \in {3, 4}
      PROVE  w.items \in Seq(ExactBelow(n))
  <2>1. w \in Compared /\ Exact(w) /\ Nesting[w] \in Nat /\ Nesting[w] < n + 1
    BY ValueFacts DEF ExactBelow
  <2>2. w.type \in Containers
    BY <1>3, <2>1, ClassIs
  <2>3. w.items \in Seq(Compared) /\ Len(w.items) \in Nat /\ DOMAIN w.items = 1 .. Len(w.items)
    BY <2>1, <2>2, ItemFacts
  <2>4. ASSUME NEW i \in DOMAIN w.items PROVE w.items[i] \in ExactBelow(n)
    <3>1. w.items[i] \in Compared /\ Nesting[w.items[i]] < Nesting[w] /\ Exact(w.items[i])
      BY <2>1, <2>2, ItemFacts, ExactFacts
    <3>2. Nesting[w.items[i]] \in Nat
      BY <3>1, ValueFacts
    <3>3. Nesting[w.items[i]] < n
      BY <2>1, <3>1, <3>2
    <3> QED
      BY <3>1, <3>3 DEF ExactBelow
  <2>5. w.items = [i \in 1 .. Len(w.items) |-> w.items[i]]
    BY <2>3, LenProperties
  <2>6. w.items \in [1 .. Len(w.items) -> ExactBelow(n)]
    BY <2>3, <2>4, <2>5
  <2> QED
    BY <2>3, <2>6, SeqDef
<1>4. Class(u) # Class(v) => (Before(u, v) <=> Class(u) < Class(v)) /\ ~Same(u, v)
  BY <1>1, OtherClass DEF Before, Same
<1>5. Class(u) = Class(v) /\ Class(u) \notin {3, 4} =>
        /\ Before(u, v) <=> u.rank < v.rank
        /\ Same(u, v) <=> u.rank = v.rank
        /\ u.rank \in Int /\ v.rank \in Int
  BY <1>1, SameClass DEF Before, Same
<1>6. ASSUME Class(u) = Class(v), Class(u) \in {3, 4}
      PROVE  /\ Before(u, v) <=> ItemsBefore(u.items, v.items)
             /\ Same(u, v) <=> ItemsSame(u.items, v.items)
  <2>1. PICK a \in Seq(ExactBelow(n)), b \in Seq(ExactBelow(n)) : a = u.items /\ b = v.items
    BY <1>3, <1>6
  <2>2. /\ LessItems(Less, a, b) <=> ItemsBefore(a, b)
        /\ EqualItems(a, b) <=> ItemsSame(a, b)
    BY ItemsBeforeIs, ItemsSameIs
  <2>3. /\ LessThan(u, v) <=> LessItems(Less, a, b)
        /\ Equal(u, v) <=> EqualItems(a, b)
    BY <1>1, <1>6, <2>1, SameContainer
  <2> QED
    BY <2>1, <2>2, <2>3 DEF Before, Same
<1> QED
  BY <1>2, <1>3, <1>4, <1>5, <1>6

OrderedThree(u, v, w) ==
  /\ Before(u, v) \/ Same(u, v) \/ Before(v, u)
  /\ ~(Before(u, v) /\ Same(u, v)) /\ ~(Before(u, v) /\ Before(v, u))
  /\ Same(u, v) => Same(v, u)
  /\ Before(u, v) /\ Before(v, w) => Before(u, w)
  /\ Same(u, v) /\ Same(v, w) => Same(u, w)
  /\ Same(u, v) /\ Before(v, w) => Before(u, w)
  /\ Before(u, v) /\ Same(v, w) => Before(u, w)

LEMMA AllThree ==
  ASSUME NEW n \in Nat, Ordered(ExactBelow(n)), NEW u \in ExactBelow(n + 1),
         NEW v \in ExactBelow(n + 1), NEW w \in ExactBelow(n + 1)
  PROVE  OrderedThree(u, v, w)
<1>1. PICK i \in Int, j \in Int, k \in Int : i = Class(u) /\ j = Class(v) /\ k = Class(w)
  BY CompareIs
<1>2. \A x, y \in {u, v, w} : Class(x) # Class(y) =>
        (Before(x, y) <=> Class(x) < Class(y)) /\ ~Same(x, y)
  BY CompareIs
<1>3. /\ i # j => (Before(u, v) <=> i < j) /\ (Before(v, u) <=> j < i)
                  /\ ~Same(u, v) /\ ~Same(v, u)
      /\ j # k => (Before(v, w) <=> j < k) /\ ~Same(v, w)
      /\ i # k => (Before(u, w) <=> i < k) /\ ~Same(u, w)
  BY <1>1, <1>2
<1>4. CASE i = j /\ j = k /\ i \notin {3, 4}
  <2>1. ASSUME NEW x \in {u, v, w}, NEW y \in {u, v, w}
        PROVE  /\ Before(x, y) <=> x.rank < y.rank
               /\ Same(x, y) <=> x.rank = y.rank
               /\ x.rank \in Int
    <3>1. x \in ExactBelow(n + 1) /\ y \in ExactBelow(n + 1)
      OBVIOUS
    <3>2. Class(x) = i /\ Class(y) = i
      BY <1>1, <1>4
    <3> QED
      BY <1>4, <3>1, <3>2, CompareIs
  <2>2. PICK a \in Int, b \in Int, c \in Int : a = u.rank /\ b = v.rank /\ c = w.rank
    BY <2>1
  <2>3. /\ Before(u, v) <=> a < b
        /\ Before(v, u) <=> b < a
        /\ Before(v, w) <=> b < c
        /\ Before(u, w) <=> a < c
        /\ Same(u, v) <=> a = b
        /\ Same(v, u) <=> b = a
        /\ Same(v, w) <=> b = c
        /\ Same(u, w) <=> a = c
    BY <2>1, <2>2
  <2> QED
    BY <2>3 DEF OrderedThree
<1>5. CASE i = j /\ j = k /\ i \in {3, 4}
  <2>1. PICK S : S = ExactBelow(n)
    OBVIOUS
  <2>2. PICK a \in Seq(S), b \in Seq(S), c \in Seq(S) : a = u.items /\ b = v.items /\ c = w.items
    BY <1>1, <1>5, <2>1, CompareIs
  <2>3. ASSUME NEW x \in {u, v, w}, NEW y \in {u, v, w}
        PROVE  /\ Before(x, y) <=> ItemsBefore(x.items, y.items)
               /\ Same(x, y) <=> ItemsSame(x.items, y.items)
    <3>1. x \in ExactBelow(n + 1) /\ y \in ExactBelow(n + 1)
      OBVIOUS
    <3>2. Class(x) = i /\ Class(y) = i
      BY <1>1, <1>5
    <3> QED
      BY <1>5, <3>1, <3>2, CompareIs
  <2>4. /\ Before(u, v) <=> ItemsBefore(a, b)
        /\ Before(v, u) <=> ItemsBefore(b, a)
        /\ Before(v, w) <=> ItemsBefore(b, c)
        /\ Before(u, w) <=> ItemsBefore(a, c)
        /\ Same(u, v) <=> ItemsSame(a, b)
        /\ Same(v, u) <=> ItemsSame(b, a)
        /\ Same(v, w) <=> ItemsSame(b, c)
        /\ Same(u, w) <=> ItemsSame(a, c)
    BY <2>2, <2>3
  <2>5. Ordered(S)
    BY <2>1
  <2>6. /\ ItemsBefore(a, b) \/ ItemsSame(a, b) \/ ItemsBefore(b, a)
        /\ ~(ItemsBefore(a, b) /\ ItemsSame(a, b)) /\ ~(ItemsBefore(a, b) /\ ItemsBefore(b, a))
        /\ ItemsSame(a, b) => ItemsSame(b, a)
        /\ ItemsSame(a, b) /\ ItemsSame(b, c) => ItemsSame(a, c)
    BY <2>5, FirstDifference, OneOfThree, SameItems
  <2>7. /\ ItemsBefore(a, b) /\ ItemsBefore(b, c) => ItemsBefore(a, c)
        /\ ItemsSame(a, b) /\ ItemsBefore(b, c) => ItemsBefore(a, c)
        /\ ItemsBefore(a, b) /\ ItemsSame(b, c) => ItemsBefore(a, c)
    BY <2>5, BeforeBefore, SameBefore, BeforeSame
  <2> QED
    BY <2>4, <2>6, <2>7 DEF OrderedThree
<1>6. CASE i = j /\ j # k
  <2>1. OrderedThree(u, v, v)
    <3>1. CASE i \notin {3, 4}
      <4>1. ASSUME NEW x \in {u, v}, NEW y \in {u, v}
            PROVE  /\ Before(x, y) <=> x.rank < y.rank
                   /\ Same(x, y) <=> x.rank = y.rank
                   /\ x.rank \in Int
        <5>1. x \in ExactBelow(n + 1) /\ y \in ExactBelow(n + 1)
          OBVIOUS
        <5>2. Class(x) = i /\ Class(y) = i
          BY <1>1, <1>6
        <5> QED
          BY <3>1, <5>1, <5>2, CompareIs
      <4>2. PICK a \in Int, b \in Int : a = u.rank /\ b = v.rank
        BY <4>1
      <4>3. /\ Before(u, v) <=> a < b
            /\ Before(v, u) <=> b < a
            /\ Before(v, v) <=> b < b
            /\ Same(u, v) <=> a = b
            /\ Same(v, u) <=> b = a
            /\ Same(v, v) <=> b = b
        BY <4>1, <4>2
      <4> QED
        BY <4>3 DEF OrderedThree
    <3>2. CASE i \in {3, 4}
      <4>1. PICK S : S = ExactBelow(n)
        OBVIOUS
      <4>2. PICK a \in Seq(S), b \in Seq(S) : a = u.items /\ b = v.items
        BY <1>1, <1>6, <3>2, <4>1, CompareIs
      <4>3. ASSUME NEW x \in {u, v}, NEW y \in {u, v}
            PROVE  /\ Before(x, y) <=> ItemsBefore(x.items, y.items)
                   /\ Same(x, y) <=> ItemsSame(x.items, y.items)
        <5>1. x \in ExactBelow(n + 1) /\ y \in ExactBelow(n + 1)
          OBVIOUS
        <5>2. Class(x) = i /\ Class(y) = i
          BY <1>1, <1>6
        <5> QED
          BY <3>2, <5>1, <5>2, CompareIs
      <4>4. /\ Before(u, v) <=> ItemsBefore(a, b)
            /\ Before(v, u) <=> ItemsBefore(b, a)
            /\ Before(v, v) <=> ItemsBefore(b, b)
            /\ Same(u, v) <=> ItemsSame(a, b)
            /\ Same(v, u) <=> ItemsSame(b, a)
            /\ Same(v, v) <=> ItemsSame(b, b)
        BY <4>2, <4>3
      <4>5. Ordered(S)
        BY <4>1
      <4>6. /\ ItemsBefore(a, b) \/ ItemsSame(a, b) \/ ItemsBefore(b, a)
            /\ ~(ItemsBefore(a, b) /\ ItemsSame(a, b)) /\ ~(ItemsBefore(a, b) /\ ItemsBefore(b, a))
            /\ ItemsSame(a, b) => ItemsSame(b, a)
        BY <4>5, FirstDifference, OneOfThree, SameItems
      <4>7. ~(ItemsBefore(b, b) /\ ItemsBefore(b, b))
        BY <4>5, OneOfThree
      <4> QED
        BY <4>4, <4>6, <4>7 DEF OrderedThree
    <3> QED
      BY <3>1, <3>2
  <2>2. /\ Before(v, w) <=> i < k
        /\ Before(u, w) <=> i < k
        /\ ~Same(v, w) /\ ~Same(u, w)
    BY <1>3, <1>6
  <2> QED
    BY <2>1, <2>2 DEF OrderedThree
<1>7. CASE i # j
  <2>1. /\ Before(u, v) <=> i < j
        /\ Before(v, u) <=> j < i
        /\ ~Same(u, v) /\ ~Same(v, u)
    BY <1>3, <1>7
  <2>2. Before(u, v) /\ Before(v, w) => Before(u, w)
    <3>1. Before(v, w) => j <= k
      <4>1. CASE j = k
        BY <4>1
      <4>2. CASE j # k
        BY <1>3, <4>2
      <4> QED
        BY <4>1, <4>2
    <3>2. i < j /\ j <= k => i < k /\ i # k
      OBVIOUS
    <3> QED
      BY <1>3, <2>1, <3>1, <3>2
  <2>3. Before(u, v) /\ Same(v, w) => Before(u, w)
    <3>1. Same(v, w) => j = k
      BY <1>3
    <3> QED
      BY <1>3, <1>7, <2>1, <3>1
  <2>4. Before(u, v) \/ Before(v, u)
    BY <1>7, <2>1
  <2>5. ~(Before(u, v) /\ Before(v, u))
    BY <2>1
  <2> QED
    BY <2>1, <2>2, <2>3, <2>4, <2>5 DEF OrderedThree
<1> QED
  BY <1>4, <1>5, <1>6, <1>7

LEMMA OrderedIs ==
  ASSUME NEW S
  PROVE  Ordered(S) <=> \A u, v, w \in S : OrderedThree(u, v, w)
  BY DEF Ordered, OrderedThree

LEMMA ExactAreOrdered == \A n \in Nat : Ordered(ExactBelow(n))
<1> DEFINE P == {n \in Nat : Ordered(ExactBelow(n))}
<1>1. 0 \in P
  <2>1. ExactBelow(0) = {}
    BY ValueFacts DEF ExactBelow
  <2> QED
    BY <2>1 DEF Ordered
<1>2. ASSUME NEW n \in P PROVE n + 1 \in P
  <2>1. \A u, v, w \in ExactBelow(n + 1) : OrderedThree(u, v, w)
    BY AllThree
  <2> QED
    BY <2>1, OrderedIs
<1>3. P = Nat
  <2>1. P \in SUBSET Nat
    OBVIOUS
  <2> HIDE DEF P
  <2> QED
    BY <1>1, <1>2, <2>1, FromOneBelow
<1> QED
  BY <1>3

LEMMA OrderOfExact ==
  ASSUME NEW u \in Compared, Exact(u), NEW v \in Compared, Exact(v), NEW w \in Compared, Exact(w)
  PROVE  OrderedThree(u, v, w)
<1>1. PICK i \in Nat, j \in Nat, k \in Nat : i = Nesting[u] /\ j = Nesting[v] /\ k = Nesting[w]
  BY ValueFacts
<1>2. PICK n \in Nat : i < n /\ j < n /\ k < n
  <2>1. i < i + j + k + 1 /\ j < i + j + k + 1 /\ k < i + j + k + 1 /\ i + j + k + 1 \in Nat
    OBVIOUS
  <2> QED
    BY <2>1
<1>3. u \in ExactBelow(n) /\ v \in ExactBelow(n) /\ w \in ExactBelow(n)
  BY <1>1, <1>2 DEF ExactBelow
<1> QED
  BY <1>3, ExactAreOrdered, OrderedIs

OrderTypes == lhs \in Compared /\ rhs \in Compared /\ third \in Compared

LEMMA OrderTypesAlways == OrderSpec => []OrderTypes
<1>1. OrderInit => OrderTypes
  BY ValueFacts DEF OrderInit, OrderTypes
<1>2. OrderTypes /\ [OrderNext]_orderVars => OrderTypes'
  BY DEF OrderTypes, OrderNext, Compare, orderVars
<1> QED
  BY <1>1, <1>2, PTL DEF OrderSpec

(* For values of any depth in which no conversion loses anything, the six   *)
(* operators of basic_json are those of one total order                     *)
(* (json.hpp:3610-3990).                                                    *)
THEOREM ExactValuesAreOrdered == OrderSpec => []OneTotalOrder
<1>1. OrderTypes => OneTotalOrder
  <2> SUFFICES ASSUME OrderTypes, Exact(lhs), Exact(rhs), Exact(third) PROVE OneTotalOrder
    BY DEF OneTotalOrder
  <2>1. lhs \in Compared /\ rhs \in Compared /\ third \in Compared
    BY DEF OrderTypes
  <2>2. OrderedThree(lhs, rhs, third) /\ OrderedThree(rhs, lhs, third)
    BY <2>1, OrderOfExact
  <2>3. ~compares_unordered(lhs, rhs)
    BY <2>1, ClassIs DEF compares_unordered
  <2>4. IsNumber(lhs) /\ IsNumber(rhs) => (LessThan(lhs, rhs) <=> lhs.rank < rhs.rank)
    <3> SUFFICES ASSUME IsNumber(lhs), IsNumber(rhs)
                 PROVE  LessThan(lhs, rhs) <=> lhs.rank < rhs.rank
      OBVIOUS
    <3>1. Class(lhs) = Class(rhs) /\ Class(lhs) \notin {3, 4}
      BY <2>1, ClassIs
    <3> QED
      BY <2>1, <3>1, SameClass
  <2>5. /\ LessThan(lhs, rhs) \in BOOLEAN /\ LessThan(rhs, lhs) \in BOOLEAN
        /\ Equal(lhs, rhs) \in BOOLEAN
    BY <2>1, LessEquation, EqualsEquation
  <2> QED
    BY <2>2, <2>3, <2>4, <2>5
    DEF OneTotalOrder, OrderedThree, Before, Same, Greater, GreaterEqual, LessEqual, NotEqual
<1> QED
  BY <1>1, OrderTypesAlways, PTL
===============================================================================
