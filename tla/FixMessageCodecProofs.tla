------------------------- MODULE FixMessageCodecProofs -------------------------
(***************************************************************************)
(* What the codec does to any message: what it writes it reads back, and   *)
(* BodyLength and CheckSum are those of what is written.                   *)
(*                                                                         *)
(* The operators of the codec are folds over sequences, so the first half  *)
(* is about folds: a fold is the last of a sequence of partial results     *)
(* (Run), whose facts follow from the least element of a set of naturals.  *)
(***************************************************************************)
EXTENDS FixMessageCodec, FiniteSetTheorems, SequenceTheorems,
        WellFoundedInduction, TLAPS

-----------------------------------------------------------------------------
(* Induction                                                                *)

NatOrder == {ab \in Nat \X Nat : ab[1] < ab[2]}

LEMMA NatOrderEnds == IsWellFoundedOn(NatOrder, Nat)
<1>1. NatOrder = OpToRel(<, Nat)
  BY DEF OpToRel, NatOrder
<1> QED
  BY <1>1, NatLessThanWellFounded

LEMMA Least ==
  ASSUME NEW B \in SUBSET Nat, B # {}
  PROVE  \E l \in B : \A b \in B : l <= b
<1>1. PICK l \in B : \A b \in B : ~(<<b, l>> \in NatOrder)
  BY NatOrderEnds, WFMin
<1>2. ASSUME NEW b \in B PROVE l <= b
  <2>1. ~(<<b, l>> \in NatOrder) /\ b \in Nat /\ l \in Nat
    BY <1>1
  <2>2. ~(b < l)
    BY <2>1 DEF NatOrder
  <2> QED
    BY <2>1, <2>2
<1> QED
  BY <1>2

(* Course of values: what holds of n if it holds of all below n holds of    *)
(* every number.                                                            *)
LEMMA FromAllBelow ==
  ASSUME NEW P \in SUBSET Nat,
         ASSUME NEW n \in Nat, \A k \in Nat : k < n => k \in P PROVE n \in P
  PROVE  P = Nat
<1> SUFFICES ASSUME Nat \ P # {} PROVE FALSE
  OBVIOUS
<1>1. PICK n \in Nat \ P : \A k \in Nat \ P : n <= k
  BY Least
<1>2. \A k \in Nat : k < n => k \in P
  BY <1>1
<1> QED
  BY <1>1, <1>2

LEMMA FromOneBelow ==
  ASSUME NEW P \in SUBSET Nat, 0 \in P, \A n \in P : n + 1 \in P
  PROVE  P = Nat
<1>1. ASSUME NEW n \in Nat, \A k \in Nat : k < n => k \in P PROVE n \in P
  <2>1. CASE n = 0
    BY <2>1
  <2>2. CASE n # 0
    <3>1. n - 1 \in Nat /\ n - 1 < n
      BY <2>2
    <3>2. n - 1 \in P
      BY <1>1, <3>1
    <3>3. (n - 1) + 1 \in P
      BY <3>2
    <3> QED
      BY <3>3
  <2> QED
    BY <2>1, <2>2
<1> QED
  BY <1>1, FromAllBelow

(* What holds of <<>>, and of a sequence with one more if of the sequence,  *)
(* holds of every sequence.                                                 *)
LEMMA FromAppend ==
  ASSUME NEW T, NEW S \in SUBSET Seq(T), <<>> \in S,
         \A s \in S : \A t \in T : Append(s, t) \in S
  PROVE  S = Seq(T)
<1> DEFINE P == {n \in Nat : \A s \in Seq(T) : Len(s) = n => s \in S}
<1>1. 0 \in P
  <2>1. \A s \in Seq(T) : Len(s) = 0 => s = <<>>
    BY EmptySeq
  <2> QED
    BY <2>1
<1>2. ASSUME NEW n \in P PROVE n + 1 \in P
  <2> SUFFICES ASSUME NEW s \in Seq(T), Len(s) = n + 1 PROVE s \in S
    OBVIOUS
  <2>1. PICK r \in Seq(T), e \in T : s = Append(r, e)
    <3>1. s # <<>>
      BY EmptySeq
    <3> QED
      BY <3>1, SequenceEmptyOrAppend
  <2>2. Len(r) = n
    <3>1. Len(s) = Len(r) + 1 /\ Len(r) \in Nat
      BY <2>1, AppendProperties, LenProperties
    <3> QED
      BY <3>1
  <2>3. r \in S
    BY <2>2
  <2> QED
    BY <2>1, <2>3
<1>3. P = Nat
  <2> HIDE DEF P
  <2>1. P \in SUBSET Nat
    BY DEF P
  <2> QED
    BY <1>1, <1>2, <2>1, FromOneBelow
<1> QED
  BY <1>3, LenProperties

-----------------------------------------------------------------------------
(* Folds                                                                    *)

(* p is the sequence of the partial results of folding s with g.            *)
Partial(X, base, g, s, p) ==
  /\ p \in [0 .. Len(s) -> X]
  /\ p[0] = base
  /\ \A k \in 1 .. Len(s) : p[k] = g[p[k - 1]][s[k]]

(* g is a step of a fold, from an X and a T to an X, that starts with base.  *)
Step(T, X, base, g) == base \in X /\ g \in [X -> [T -> X]]

Run(X, base, g, s) == (CHOOSE p : Partial(X, base, g, s, p))[Len(s)]

LEMMA MaxOf ==
  ASSUME NEW S \in SUBSET Int, NEW n \in S, \A k \in S : k <= n
  PROVE  Max(S) = n
<1>1. \A k \in S : (\A j \in S : k >= j) => k = n
  <2> SUFFICES ASSUME NEW k \in S, \A j \in S : k >= j PROVE k = n
    OBVIOUS
  <2>1. k >= n /\ k <= n /\ k \in Int /\ n \in Int
    OBVIOUS
  <2> QED
    BY <2>1
<1>2. \A j \in S : n >= j
  OBVIOUS
<1> QED
  BY <1>1, <1>2 DEF Max

LEMMA MinOf ==
  ASSUME NEW S \in SUBSET Int, NEW n \in S, \A k \in S : n <= k
  PROVE  Min(S) = n
<1>1. \A k \in S : (\A j \in S : k =< j) => k = n
  <2> SUFFICES ASSUME NEW k \in S, \A j \in S : k =< j PROVE k = n
    OBVIOUS
  <2>1. k >= n /\ k <= n /\ k \in Int /\ n \in Int
    OBVIOUS
  <2> QED
    BY <2>1
<1>2. \A j \in S : n =< j
  OBVIOUS
<1> QED
  BY <1>1, <1>2 DEF Min

LEMMA IntervalTop ==
  ASSUME NEW n \in Nat, n # 0
  PROVE  Max(1 .. n) = n /\ (1 .. n) \ {n} = 1 .. n - 1
<1>1. 1 .. n \in SUBSET Int /\ n \in 1 .. n /\ \A k \in 1 .. n : k <= n
  OBVIOUS
<1>2. Max(1 .. n) = n
  BY <1>1, MaxOf
<1> QED
  BY <1>2

(* it solves, up to n, SequencesExt's recursion over subsets of the domain. *)
Solves(X, base, g, s, n, it) ==
  /\ it \in [SUBSET (1 .. n) -> X]
  /\ it[{}] = base
  /\ \A a \in SUBSET (1 .. n) : a # {} => it[a] = g[it[a \ {Max(a)}]][s[Max(a)]]

Solvable(X, base, g, s, n) == \E it : Solves(X, base, g, s, n, it)

LEMMA SolvableNext ==
  ASSUME NEW T, NEW X, NEW base, NEW g, Step(T, X, base, g), NEW s,
         NEW n \in Nat, s[n + 1] \in T, Solvable(X, base, g, s, n)
  PROVE  Solvable(X, base, g, s, n + 1)
<1>1. PICK it : Solves(X, base, g, s, n, it)
  BY DEF Solvable
<1> DEFINE next == [a \in SUBSET (1 .. n + 1) |->
                      IF n + 1 \in a THEN g[it[a \ {n + 1}]][s[n + 1]] ELSE it[a]]
<1>2. ASSUME NEW a \in SUBSET (1 .. n + 1)
      PROVE  /\ a \ {n + 1} \in SUBSET (1 .. n)
             /\ n + 1 \in a => Max(a) = n + 1
             /\ n + 1 \notin a => a \in SUBSET (1 .. n)
  <2>1. n + 1 \in a => Max(a) = n + 1
    <3>1. a \in SUBSET Int /\ \A k \in a : k <= n + 1
      OBVIOUS
    <3> QED
      BY <3>1, MaxOf
  <2>2. \A k \in a : k # n + 1 => k \in 1 .. n
    OBVIOUS
  <2> QED
    BY <2>1, <2>2
<1>3. \A a \in SUBSET (1 .. n) : a \in SUBSET (1 .. n + 1) /\ n + 1 \notin a
  OBVIOUS
<1>4. \A a \in SUBSET (1 .. n) : it[a] \in X
  BY <1>1 DEF Solves
<1>5. \A a \in SUBSET (1 .. n + 1) :
        /\ n + 1 \in a => next[a] = g[it[a \ {n + 1}]][s[n + 1]]
        /\ n + 1 \notin a => next[a] = it[a]
  OBVIOUS
<1>6. \A x \in X : g[x][s[n + 1]] \in X
  BY DEF Step
<1>7. DOMAIN next = SUBSET (1 .. n + 1) /\ next = [a \in SUBSET (1 .. n + 1) |-> next[a]]
  OBVIOUS
<1> HIDE DEF next
<1>8. ASSUME NEW a \in SUBSET (1 .. n + 1) PROVE next[a] \in X
  BY <1>2, <1>4, <1>5, <1>6
<1>9. next \in [SUBSET (1 .. n + 1) -> X]
  BY <1>7, <1>8
<1>10. next[{}] = base
  BY <1>1, <1>3, <1>5 DEF Solves
<1>11. ASSUME NEW a \in SUBSET (1 .. n + 1), a # {}
       PROVE  next[a] = g[next[a \ {Max(a)}]][s[Max(a)]]
  <2>1. CASE n + 1 \in a
    BY <1>2, <1>3, <1>5, <2>1
  <2>2. CASE n + 1 \notin a
    <3>1. a \in SUBSET (1 .. n) /\ a \ {Max(a)} \in SUBSET (1 .. n)
      BY <1>2, <2>2
    <3>2. it[a] = g[it[a \ {Max(a)}]][s[Max(a)]]
      BY <1>1, <1>11, <3>1 DEF Solves
    <3> QED
      BY <1>3, <1>5, <3>1, <3>2
  <2> QED
    BY <2>1, <2>2
<1> QED
  BY <1>9, <1>10, <1>11 DEF Solves, Solvable

LEMMA FoldSolvable ==
  ASSUME NEW T, NEW X, NEW base, NEW g, Step(T, X, base, g), NEW s \in Seq(T)
  PROVE  Solvable(X, base, g, s, Len(s))
<1> DEFINE P == {n \in Nat : n <= Len(s) => Solvable(X, base, g, s, n)}
<1>1. Len(s) \in Nat /\ \A i \in 1 .. Len(s) : s[i] \in T
  BY LenProperties, ElementOfSeq
<1>2. Solvable(X, base, g, s, 0)
  <2> DEFINE it == [a \in {{}} |-> base]
  <2>1. SUBSET (1 .. 0) = {{}}
    OBVIOUS
  <2>2. it \in [{{}} -> X] /\ it[{}] = base
    BY DEF Step
  <2> HIDE DEF it
  <2>3. Solves(X, base, g, s, 0, it)
    BY <2>1, <2>2 DEF Solves
  <2> QED
    BY <2>3 DEF Solvable
<1>3. ASSUME NEW n \in P PROVE n + 1 \in P
  <2>1. n \in Nat /\ (n <= Len(s) => Solvable(X, base, g, s, n))
    OBVIOUS
  <2>2. n + 1 <= Len(s) => n <= Len(s) /\ s[n + 1] \in T
    BY <1>1, <2>1
  <2>3. n + 1 <= Len(s) => Solvable(X, base, g, s, n + 1)
    BY <2>1, <2>2, SolvableNext
  <2> QED
    BY <2>1, <2>3
<1>4. P = Nat
  <2>1. P \in SUBSET Nat /\ 0 \in P
    BY <1>2
  <2> HIDE DEF P
  <2> QED
    BY <1>3, <2>1, FromOneBelow
<1>5. Len(s) \in P
  BY <1>1, <1>4
<1> QED
  BY <1>1, <1>5

LEMMA PartialUnique ==
  ASSUME NEW X, NEW base, NEW g, NEW s, Len(s) \in Nat, NEW p, NEW q,
         Partial(X, base, g, s, p), Partial(X, base, g, s, q)
  PROVE  p = q
<1> DEFINE P == {n \in Nat : n <= Len(s) => p[n] = q[n]}
<1>1. 0 \in P
  BY DEF Partial
<1>2. ASSUME NEW n \in P PROVE n + 1 \in P
  <2> SUFFICES ASSUME n + 1 <= Len(s) PROVE p[n + 1] = q[n + 1]
    OBVIOUS
  <2>1. n + 1 \in 1 .. Len(s) /\ (n + 1) - 1 = n /\ p[n] = q[n]
    OBVIOUS
  <2> QED
    BY <2>1 DEF Partial
<1>3. P = Nat
  <2> HIDE DEF P
  <2>1. P \in SUBSET Nat
    BY DEF P
  <2> QED
    BY <1>1, <1>2, <2>1, FromOneBelow
<1> QED
  BY <1>3 DEF Partial

(* A chain of partial results ends in what Run is.                          *)
LEMMA RunIsLast ==
  ASSUME NEW X, NEW base, NEW g, NEW s, Len(s) \in Nat, NEW p,
         Partial(X, base, g, s, p)
  PROVE  Run(X, base, g, s) = p[Len(s)]
<1>1. PICK q : q = CHOOSE r : Partial(X, base, g, s, r)
  OBVIOUS
<1>2. Partial(X, base, g, s, q)
  BY <1>1
<1>3. q = p
  BY <1>2, PartialUnique
<1> QED
  BY <1>1, <1>3 DEF Run

(* A solution of the recursion ends in the same.                            *)
Chain(X, base, g, s, it) ==
  /\ it[{}] = base
  /\ \A k \in 1 .. Len(s) :
       it[1 .. k - 1] \in X => it[1 .. k] = g[it[1 .. k - 1]][s[k]]

LEMMA SolutionIsRun ==
  ASSUME NEW T, NEW X, NEW base, NEW g, Step(T, X, base, g), NEW s \in Seq(T),
         NEW it, Chain(X, base, g, s, it)
  PROVE  /\ it[DOMAIN s] = Run(X, base, g, s)
         /\ \E p : Partial(X, base, g, s, p)
<1> DEFINE p == [k \in 0 .. Len(s) |-> it[1 .. k]]
           P == {n \in Nat : n <= Len(s) => it[1 .. n] \in X}
<1>1. Len(s) \in Nat /\ DOMAIN s = 1 .. Len(s) /\ \A i \in 1 .. Len(s) : s[i] \in T
  BY LenProperties, ElementOfSeq
<1>2. 1 .. 0 = {}
  OBVIOUS
<1>3. 0 \in P
  BY <1>2 DEF Chain, Step
<1>4. ASSUME NEW n \in P PROVE n + 1 \in P
  <2> SUFFICES ASSUME n + 1 <= Len(s) PROVE it[1 .. n + 1] \in X
    OBVIOUS
  <2>1. n + 1 \in 1 .. Len(s) /\ (n + 1) - 1 = n
    BY <1>1
  <2>2. it[1 .. n] \in X
    BY <1>1
  <2>3. it[1 .. n + 1] = g[it[1 .. n]][s[n + 1]]
    BY <2>1, <2>2 DEF Chain
  <2> QED
    BY <1>1, <2>1, <2>2, <2>3 DEF Step
<1>5. P = Nat
  <2> HIDE DEF P
  <2>1. P \in SUBSET Nat
    BY DEF P
  <2> QED
    BY <1>3, <1>4, <2>1, FromOneBelow
<1>6. \A k \in 0 .. Len(s) : it[1 .. k] \in X
  BY <1>1, <1>5
<1>7. Partial(X, base, g, s, p)
  <2>1. p \in [0 .. Len(s) -> X]
    BY <1>6
  <2>2. p[0] = base
    BY <1>1, <1>2 DEF Chain
  <2>3. ASSUME NEW k \in 1 .. Len(s) PROVE p[k] = g[p[k - 1]][s[k]]
    <3>1. k \in 0 .. Len(s) /\ k - 1 \in 0 .. Len(s)
      BY <1>1
    <3>2. it[1 .. k] = g[it[1 .. k - 1]][s[k]]
      BY <1>6, <3>1 DEF Chain
    <3> QED
      BY <3>1, <3>2
  <2> QED
    BY <2>1, <2>2, <2>3 DEF Partial
<1>8. p[Len(s)] = it[DOMAIN s]
  BY <1>1
<1> HIDE DEF p
<1> QED
  BY <1>1, <1>7, <1>8, RunIsLast

LEMMA PartialExists ==
  ASSUME NEW T, NEW X, NEW base, NEW g, Step(T, X, base, g), NEW s \in Seq(T)
  PROVE  \E p : Partial(X, base, g, s, p)
<1>1. PICK it : Solves(X, base, g, s, Len(s), it)
  BY FoldSolvable DEF Solvable
<1>2. Len(s) \in Nat
  BY LenProperties
<1>3. it[{}] = base
  BY <1>1 DEF Solves
<1>4. ASSUME NEW k \in 1 .. Len(s) PROVE it[1 .. k] = g[it[1 .. k - 1]][s[k]]
  <2>1. k \in Nat /\ k # 0 /\ k <= Len(s)
    BY <1>2
  <2>2. Max(1 .. k) = k /\ (1 .. k) \ {k} = 1 .. k - 1
    BY <2>1, IntervalTop
  <2>3. 1 .. k \in SUBSET (1 .. Len(s)) /\ k \in 1 .. k
    BY <1>2, <2>1
  <2> QED
    BY <1>1, <2>2, <2>3 DEF Solves
<1> QED
  BY <1>3, <1>4, SolutionIsRun DEF Chain

LEMMA RunFacts ==
  ASSUME NEW T, NEW X, NEW base, NEW g, Step(T, X, base, g)
  PROVE  /\ Run(X, base, g, <<>>) = base
         /\ \A s \in Seq(T) : Run(X, base, g, s) \in X
         /\ \A s \in Seq(T) : \A t \in T :
              Run(X, base, g, Append(s, t)) = g[Run(X, base, g, s)][t]
<1>1. \A s \in Seq(T) : \E p : Partial(X, base, g, s, p)
  BY PartialExists
<1>2. Run(X, base, g, <<>>) = base
  <2>1. PICK p : Partial(X, base, g, <<>>, p)
    BY <1>1, EmptySeq
  <2>2. Run(X, base, g, <<>>) = p[Len(<<>>)]
    BY <2>1, RunIsLast
  <2> QED
    BY <2>1, <2>2 DEF Partial
<1>3. ASSUME NEW s \in Seq(T), NEW t \in T
      PROVE  Run(X, base, g, Append(s, t)) = g[Run(X, base, g, s)][t]
  <2> DEFINE u == Append(s, t)
  <2>1. /\ Len(s) \in Nat /\ u \in Seq(T) /\ Len(u) = Len(s) + 1
        /\ \A i \in 1 .. Len(s) : u[i] = s[i]
        /\ u[Len(s) + 1] = t
    BY AppendProperties, LenProperties
  <2> HIDE DEF u
  <2>2. PICK p : Partial(X, base, g, u, p)
    BY <1>1, <2>1
  <2> DEFINE q == [k \in 0 .. Len(s) |-> p[k]]
  <2>3. Partial(X, base, g, s, q)
    <3>1. q \in [0 .. Len(s) -> X] /\ q[0] = base
      BY <2>1, <2>2 DEF Partial
    <3>2. ASSUME NEW k \in 1 .. Len(s) PROVE q[k] = g[q[k - 1]][s[k]]
      <4>1. k \in 1 .. Len(s) + 1 /\ k \in 0 .. Len(s) /\ k - 1 \in 0 .. Len(s)
        <5>1. Len(s) \in Nat
          BY <2>1
        <5> QED
          BY <5>1
      <4>2. p[k] = g[p[k - 1]][u[k]] /\ u[k] = s[k]
        BY <2>1, <2>2, <4>1 DEF Partial
      <4> QED
        BY <4>1, <4>2
    <3> QED
      BY <3>1, <3>2 DEF Partial
  <2>4. q[Len(s)] = p[Len(s)]
    BY <2>1
  <2> HIDE DEF q
  <2>5. Run(X, base, g, s) = p[Len(s)]
    BY <2>1, <2>3, <2>4, RunIsLast
  <2>6. Run(X, base, g, u) = p[Len(s) + 1]
    BY <2>1, <2>2, RunIsLast
  <2>7. Len(s) + 1 \in 1 .. Len(s) + 1 /\ (Len(s) + 1) - 1 = Len(s)
    <3>1. Len(s) \in Nat
      BY <2>1
    <3> QED
      BY <3>1
  <2>8. p[Len(s) + 1] = g[p[Len(s)]][u[Len(s) + 1]]
    BY <2>1, <2>2, <2>7 DEF Partial
  <2> QED
    BY <2>1, <2>5, <2>6, <2>8 DEF u
<1>4. ASSUME NEW s \in Seq(T) PROVE Run(X, base, g, s) \in X
  <2>1. PICK p : Partial(X, base, g, s, p)
    BY <1>1
  <2>2. Run(X, base, g, s) = p[Len(s)] /\ Len(s) \in Nat
    BY <2>1, LenProperties, RunIsLast
  <2>3. Len(s) \in 0 .. Len(s)
    BY <2>2
  <2> QED
    BY <2>1, <2>2, <2>3 DEF Partial
<1> QED
  BY <1>2, <1>3, <1>4

LEMMA MaxIn ==
  ASSUME NEW n \in Nat, NEW a \in SUBSET (1 .. n), a # {}
  PROVE  Max(a) \in a
<1> DEFINE B == {k \in Nat : \E i \in a : i + k = n}
<1>1. B # {}
  <2>1. PICK i \in a : TRUE
    OBVIOUS
  <2>2. n - i \in Nat /\ i + (n - i) = n
    BY <2>1
  <2> QED
    BY <2>2
<1>2. PICK k \in B : \A j \in B : k <= j
  BY <1>1, Least
<1>3. PICK i \in a : i + k = n
  BY <1>2
<1>4. ASSUME NEW j \in a PROVE j <= i
  <2>1. n - j \in Nat /\ j + (n - j) = n /\ j \in Nat /\ i \in Nat /\ k \in Nat
    BY <1>2
  <2>2. k <= n - j
    BY <1>2, <2>1
  <2> QED
    BY <1>3, <2>1, <2>2
<1>5. a \in SUBSET Int
  OBVIOUS
<1>6. Max(a) = i
  BY <1>4, <1>5, MaxOf
<1> QED
  BY <1>6

(* The entries a fold over s asks for.                                      *)
Entries(T, s) ==
  /\ SUBSET DOMAIN s = SUBSET (1 .. Len(s))
  /\ {} \in SUBSET DOMAIN s
  /\ \A a \in SUBSET DOMAIN s :
       a # {} => a \ {Max(a)} \in SUBSET DOMAIN s /\ s[Max(a)] \in T
  /\ \A k \in 1 .. Len(s) :
       /\ 1 .. k \in SUBSET DOMAIN s /\ 1 .. k # {}
       /\ Max(1 .. k) = k /\ (1 .. k) \ {k} = 1 .. k - 1
       /\ 1 .. k - 1 \in SUBSET DOMAIN s
       /\ s[k] \in T

LEMMA FoldDomain ==
  ASSUME NEW T, NEW s \in Seq(T)
  PROVE  Entries(T, s)
<1>1. Len(s) \in Nat /\ DOMAIN s = 1 .. Len(s) /\ \A i \in 1 .. Len(s) : s[i] \in T
  BY LenProperties, ElementOfSeq
<1>2. ASSUME NEW a \in SUBSET DOMAIN s, a # {}
      PROVE  a \ {Max(a)} \in SUBSET DOMAIN s /\ s[Max(a)] \in T
  <2>1. Max(a) \in a
    BY <1>1, <1>2, MaxIn
  <2> QED
    BY <1>1, <2>1
<1>3. ASSUME NEW k \in 1 .. Len(s)
      PROVE  /\ 1 .. k \in SUBSET DOMAIN s /\ 1 .. k # {}
             /\ Max(1 .. k) = k /\ (1 .. k) \ {k} = 1 .. k - 1
             /\ 1 .. k - 1 \in SUBSET DOMAIN s
             /\ s[k] \in T
  <2>1. k \in Nat /\ k # 0 /\ k <= Len(s)
    BY <1>1
  <2>2. Max(1 .. k) = k /\ (1 .. k) \ {k} = 1 .. k - 1
    BY <2>1, IntervalTop
  <2>3. 1 .. k \in SUBSET (1 .. Len(s)) /\ k \in 1 .. k
    BY <1>1, <2>1
  <2>4. 1 .. k - 1 \in SUBSET (1 .. Len(s))
    BY <1>1, <2>1
  <2> QED
    BY <1>1, <2>2, <2>3, <2>4
<1>4. SUBSET DOMAIN s = SUBSET (1 .. Len(s)) /\ {} \in SUBSET DOMAIN s
  BY <1>1
<1> QED
  BY <1>2, <1>3, <1>4 DEF Entries

-----------------------------------------------------------------------------
(* Digits                                                                   *)

DigitStep == [v \in Nat |-> [c \in DigitChars |-> 10 * v + (c - Zero)]]

LEMMA DigitStepType == Step(DigitChars, Nat, 0, DigitStep)
BY DEF Step, DigitStep, DigitChars, Zero

LEMMA DigitsRun ==
  ASSUME NEW s \in Seq(DigitChars)
  PROVE  DigitsValue(s) = Run(Nat, 0, DigitStep, s)
<1> DEFINE rhs(it) == [a \in SUBSET DOMAIN s |->
                         IF a = {} THEN 0 ELSE 10 * it[a \ {Max(a)}] + (s[Max(a)] - Zero)]
<1>1. Entries(DigitChars, s)
  BY FoldDomain
<1>2. PICK i0 : Solves(Nat, 0, DigitStep, s, Len(s), i0)
  BY DigitStepType, FoldSolvable DEF Solvable
<1>3. i0 = rhs(i0)
  <2>1. \A a \in SUBSET DOMAIN s : i0[a] = rhs(i0)[a]
    <3>1. \A v \in Nat : \A c \in DigitChars : DigitStep[v][c] = 10 * v + (c - Zero)
      BY DEF DigitStep
    <3>2. i0[{}] = 0 /\ \A a \in SUBSET DOMAIN s : i0[a] \in Nat
      BY <1>1, <1>2 DEF Entries, Solves
    <3>3. \A a \in SUBSET DOMAIN s :
            a # {} => i0[a] = 10 * i0[a \ {Max(a)}] + (s[Max(a)] - Zero)
      BY <1>1, <1>2, <3>1, <3>2 DEF Entries, Solves
    <3> QED
      BY <3>2, <3>3
  <2>2. i0 = [a \in SUBSET DOMAIN s |-> i0[a]]
    BY <1>1, <1>2 DEF Entries, Solves
  <2> QED
    BY <2>1, <2>2
<1>4. PICK it : it = CHOOSE i : i = rhs(i)
  OBVIOUS
<1>5. it = rhs(it)
  <2> HIDE DEF rhs
  <2> QED
    BY <1>3, <1>4
<1>51. \A a \in SUBSET DOMAIN s :
        it[a] = IF a = {} THEN 0 ELSE 10 * it[a \ {Max(a)}] + (s[Max(a)] - Zero)
  BY <1>5
<1>6. DigitsValue(s) = it[DOMAIN s]
  BY <1>4 DEF DigitsValue, FoldLeft, MapThenFoldSet
<1>7. Chain(Nat, 0, DigitStep, s, it)
  <2>1. it[{}] = 0
    BY <1>1, <1>5 DEF Entries
  <2>2. ASSUME NEW k \in 1 .. Len(s), it[1 .. k - 1] \in Nat
        PROVE  it[1 .. k] = DigitStep[it[1 .. k - 1]][s[k]]
    <3>1. it[1 .. k] = 10 * it[1 .. k - 1] + (s[k] - Zero)
      BY <1>1, <1>51 DEF Entries
    <3> QED
      BY <1>1, <2>2, <3>1 DEF DigitStep, Entries
  <2> QED
    BY <2>1, <2>2 DEF Chain
<1> QED
  BY <1>6, <1>7, DigitStepType, SolutionIsRun

LEMMA DigitsFacts ==
  /\ DigitsValue(<<>>) = 0
  /\ \A s \in Seq(DigitChars) : DigitsValue(s) \in Nat
  /\ \A s \in Seq(DigitChars) : \A c \in DigitChars :
       DigitsValue(Append(s, c)) = 10 * DigitsValue(s) + (c - Zero)
<1>1. \A v \in Nat : \A c \in DigitChars : DigitStep[v][c] = 10 * v + (c - Zero)
  BY DEF DigitStep
<1>2. /\ Run(Nat, 0, DigitStep, <<>>) = 0
      /\ \A s \in Seq(DigitChars) : Run(Nat, 0, DigitStep, s) \in Nat
      /\ \A s \in Seq(DigitChars) : \A c \in DigitChars :
           Run(Nat, 0, DigitStep, Append(s, c)) = DigitStep[Run(Nat, 0, DigitStep, s)][c]
  BY DigitStepType, RunFacts
<1>3. /\ <<>> \in Seq(DigitChars)
      /\ \A s \in Seq(DigitChars) : \A c \in DigitChars : Append(s, c) \in Seq(DigitChars)
  BY EmptySeq, AppendProperties
<1>4. DigitsValue(<<>>) = 0
  BY <1>2, <1>3, DigitsRun
<1>5. \A s \in Seq(DigitChars) : DigitsValue(s) \in Nat
  BY <1>2, DigitsRun
<1>6. ASSUME NEW s \in Seq(DigitChars), NEW c \in DigitChars
      PROVE  DigitsValue(Append(s, c)) = 10 * DigitsValue(s) + (c - Zero)
  <2>1. DigitsValue(Append(s, c)) = DigitStep[Run(Nat, 0, DigitStep, s)][c]
    BY <1>2, <1>3, DigitsRun
  <2>2. DigitsValue(s) = Run(Nat, 0, DigitStep, s) /\ DigitsValue(s) \in Nat
    BY <1>5, DigitsRun
  <2> QED
    BY <1>1, <2>1, <2>2
<1> QED
  BY <1>4, <1>5, <1>6

(* Zeros in front change no value.                                          *)
LEMMA ZeroInFront ==
  \A s \in Seq(DigitChars) : DigitsValue(<<Zero>> \o s) = DigitsValue(s)
<1> DEFINE S == {s \in Seq(DigitChars) : DigitsValue(<<Zero>> \o s) = DigitsValue(s)}
<1>1. Zero \in DigitChars /\ <<Zero>> \in Seq(DigitChars)
  BY DEF Zero, DigitChars
<1>2. <<>> \in S
  <2>1. <<Zero>> \o <<>> = Append(<<>>, Zero) /\ <<>> \in Seq(DigitChars)
    BY <1>1
  <2>2. DigitsValue(Append(<<>>, Zero)) = 10 * DigitsValue(<<>>) + (Zero - Zero)
    BY <1>1, <2>1, DigitsFacts
  <2>3. DigitsValue(<<Zero>> \o <<>>) = 0
    BY <2>1, <2>2, DigitsFacts DEF Zero
  <2> QED
    BY <2>1, <2>3, DigitsFacts
<1>3. ASSUME NEW s \in S, NEW c \in DigitChars PROVE Append(s, c) \in S
  <2>1. /\ s \in Seq(DigitChars) /\ Append(s, c) \in Seq(DigitChars)
        /\ <<Zero>> \o s \in Seq(DigitChars)
        /\ <<Zero>> \o Append(s, c) = Append(<<Zero>> \o s, c)
    BY <1>1
  <2>2. DigitsValue(Append(<<Zero>> \o s, c)) = 10 * DigitsValue(<<Zero>> \o s) + (c - Zero)
    BY <2>1, DigitsFacts
  <2>3. DigitsValue(Append(s, c)) = 10 * DigitsValue(s) + (c - Zero)
    BY <2>1, DigitsFacts
  <2>4. DigitsValue(<<Zero>> \o s) = DigitsValue(s)
    OBVIOUS
  <2>5. DigitsValue(<<Zero>> \o Append(s, c)) = DigitsValue(Append(s, c))
    BY <2>1, <2>2, <2>3, <2>4
  <2> QED
    BY <2>1, <2>5
<1>4. S = Seq(DigitChars)
  <2>1. S \in SUBSET Seq(DigitChars)
    OBVIOUS
  <2> HIDE DEF S
  <2> QED
    BY <1>2, <1>3, <2>1, FromAppend
<1> QED
  BY <1>4

-----------------------------------------------------------------------------
(* Numbers as text                                                          *)

LEMMA ByTen ==
  ASSUME NEW n \in Nat
  PROVE  /\ n \div 10 \in Nat /\ n % 10 \in 0 .. 9
         /\ n = 10 * (n \div 10) + (n % 10)
         /\ n >= 10 => n \div 10 < n
         /\ n < 100 => n \div 10 < 10
         /\ n < 1000 => n \div 10 < 100
OBVIOUS

LEMMA DigitOf ==
  ASSUME NEW k \in 0 .. 9
  PROVE  Zero + k \in DigitChars /\ (Zero + k) - Zero = k
BY DEF Zero, DigitChars

(* f has the texts of the numbers up to n.                                  *)
TextsUpTo(n, f) ==
  /\ f \in [0 .. n -> Seq(DigitChars)]
  /\ \A m \in 0 .. n :
       /\ m < 10 => f[m] = <<Zero + m>>
       /\ m >= 10 => f[m] = Append(f[m \div 10], Zero + (m % 10))

LEMMA TextsAgree ==
  ASSUME NEW n \in Nat, NEW k \in Nat, NEW f, NEW g, TextsUpTo(n, f), TextsUpTo(k, g)
  PROVE  \A m \in Nat : m <= n /\ m <= k => f[m] = g[m]
<1> DEFINE P == {m \in Nat : m <= n /\ m <= k => f[m] = g[m]}
<1>1. ASSUME NEW m \in Nat, \A j \in Nat : j < m => j \in P PROVE m \in P
  <2> SUFFICES ASSUME m <= n, m <= k PROVE f[m] = g[m]
    OBVIOUS
  <2>1. m \in 0 .. n /\ m \in 0 .. k
    OBVIOUS
  <2>2. CASE m < 10
    BY <2>1, <2>2 DEF TextsUpTo
  <2>3. CASE m >= 10
    <3>1. m \div 10 \in Nat /\ m \div 10 < m
      BY <2>3, ByTen
    <3>2. m \div 10 \in P /\ m \div 10 <= n /\ m \div 10 <= k
      BY <1>1, <3>1
    <3>3. f[m \div 10] = g[m \div 10]
      BY <3>2
    <3> QED
      BY <2>1, <2>3, <3>3 DEF TextsUpTo
  <2> QED
    BY <2>2, <2>3
<1>2. P = Nat
  <2>1. P \in SUBSET Nat
    OBVIOUS
  <2> HIDE DEF P
  <2> QED
    BY <1>1, <2>1, FromAllBelow
<1> QED
  BY <1>2

LEMMA TextsExist == \A n \in Nat : \E f : TextsUpTo(n, f)
<1> DEFINE P == {n \in Nat : \E f : TextsUpTo(n, f)}
<1>1. \A m \in Nat : m < 10 => <<Zero + m>> \in Seq(DigitChars)
  <2> SUFFICES ASSUME NEW m \in Nat, m < 10 PROVE <<Zero + m>> \in Seq(DigitChars)
    OBVIOUS
  <2>1. Zero + m \in DigitChars
    BY DigitOf
  <2> QED
    BY <2>1
<1>2. \E f : TextsUpTo(0, f)
  <2> DEFINE f == [m \in 0 .. 0 |-> <<Zero + 0>>]
  <2>1. f \in [0 .. 0 -> Seq(DigitChars)] /\ f[0] = <<Zero + 0>>
    BY <1>1
  <2>2. \A m \in 0 .. 0 : m = 0
    OBVIOUS
  <2> HIDE DEF f
  <2>3. TextsUpTo(0, f)
    BY <2>1, <2>2 DEF TextsUpTo
  <2> QED
    BY <2>3
<1>3. ASSUME NEW n \in P PROVE n + 1 \in P
  <2>1. PICK f : TextsUpTo(n, f)
    OBVIOUS
  <2>2. n \in Nat
    OBVIOUS
  <2> DEFINE t == IF n + 1 < 10 THEN <<Zero + (n + 1)>>
                  ELSE Append(f[(n + 1) \div 10], Zero + ((n + 1) % 10))
             g == [m \in 0 .. n + 1 |-> IF m = n + 1 THEN t ELSE f[m]]
  <2>3. \A m \in 0 .. n + 1 : m >= 10 => m \div 10 \in 0 .. n
    <3> SUFFICES ASSUME NEW m \in 0 .. n + 1, m >= 10 PROVE m \div 10 \in 0 .. n
      OBVIOUS
    <3>1. m \in Nat /\ m \div 10 \in Nat /\ m \div 10 < m
      BY <2>2, ByTen
    <3> QED
      BY <2>2, <3>1
  <2>4. t \in Seq(DigitChars)
    <3>1. CASE n + 1 < 10
      BY <1>1, <2>2, <3>1
    <3>2. CASE ~(n + 1 < 10)
      <4>1. n + 1 \in 0 .. n + 1 /\ n + 1 >= 10 /\ n + 1 \in Nat
        BY <2>2, <3>2
      <4>2. f[(n + 1) \div 10] \in Seq(DigitChars)
        BY <2>1, <2>3, <4>1 DEF TextsUpTo
      <4>3. Zero + ((n + 1) % 10) \in DigitChars
        BY <4>1, ByTen, DigitOf
      <4> QED
        BY <3>2, <4>2, <4>3, AppendProperties
    <3> QED
      BY <3>1, <3>2
  <2>5. \A m \in 0 .. n : m \in 0 .. n + 1 /\ g[m] = f[m]
    BY <2>2
  <2>6. g[n + 1] = t /\ n + 1 \in 0 .. n + 1
    BY <2>2
  <2>7. g \in [0 .. n + 1 -> Seq(DigitChars)]
    <3>1. \A m \in 0 .. n + 1 : m # n + 1 => m \in 0 .. n
      BY <2>2
    <3>2. \A m \in 0 .. n : f[m] \in Seq(DigitChars)
      BY <2>1 DEF TextsUpTo
    <3> HIDE DEF t
    <3> QED
      BY <2>4, <3>1, <3>2
  <2>8. ASSUME NEW m \in 0 .. n + 1
        PROVE  /\ m < 10 => g[m] = <<Zero + m>>
               /\ m >= 10 => g[m] = Append(g[m \div 10], Zero + (m % 10))
    <3>1. CASE m = n + 1
      <4>1. m >= 10 => g[m \div 10] = f[m \div 10]
        BY <2>3, <2>5
      <4>2. m < 10 => t = <<Zero + m>>
        BY <3>1
      <4>3. m >= 10 => t = Append(f[m \div 10], Zero + (m % 10))
        BY <2>2, <3>1
      <4> HIDE DEF g, t
      <4> QED
        BY <2>6, <3>1, <4>1, <4>2, <4>3
    <3>2. CASE m # n + 1
      <4>1. m \in 0 .. n
        BY <2>2, <3>2
      <4>2. m >= 10 => g[m \div 10] = f[m \div 10]
        BY <2>3, <2>5
      <4> HIDE DEF g, t
      <4> QED
        BY <2>1, <2>5, <4>1, <4>2 DEF TextsUpTo
    <3> QED
      BY <3>1, <3>2
  <2> HIDE DEF g, t
  <2>9. TextsUpTo(n + 1, g)
    BY <2>7, <2>8 DEF TextsUpTo
  <2> QED
    BY <2>2, <2>9
<1>4. P = Nat
  <2>1. P \in SUBSET Nat /\ 0 \in P
    BY <1>2
  <2> HIDE DEF P
  <2> QED
    BY <1>3, <2>1, FromOneBelow
<1> QED
  BY <1>4

(* std::to_string is what its recursion says.                               *)
LEMMA NatTextIs ==
  ASSUME NEW n \in Nat
  PROVE  /\ n < 10 => NatText[n] = <<Zero + n>>
         /\ n >= 10 => NatText[n] = Append(NatText[n \div 10], Zero + (n % 10))
<1> DEFINE text0(m) == CHOOSE f : TextsUpTo(m, f)
           all == [m \in Nat |-> text0(m)[m]]
           rhs(it) == [m \in Nat |-> IF m < 10 THEN <<Zero + m>>
                                     ELSE Append(it[m \div 10], Zero + (m % 10))]
<1>1. \A m \in Nat : TextsUpTo(m, text0(m))
  BY TextsExist
<1>2. ASSUME NEW m \in Nat PROVE all[m] = rhs(all)[m]
  <2>1. m \in 0 .. m
    OBVIOUS
  <2>2. CASE m < 10
    <3>1. text0(m)[m] = <<Zero + m>>
      <4> HIDE DEF text0
      <4> QED
        BY <1>1, <2>1, <2>2 DEF TextsUpTo
    <3> QED
      BY <2>2, <3>1
  <2>3. CASE m >= 10
    <3>1. m \div 10 \in Nat /\ m \div 10 < m
      BY <2>3, ByTen
    <3> HIDE DEF text0
    <3>2. text0(m)[m \div 10] = text0(m \div 10)[m \div 10]
      BY <1>1, <3>1, TextsAgree
    <3>3. text0(m)[m] = Append(text0(m)[m \div 10], Zero + (m % 10))
      BY <1>1, <2>1, <2>3 DEF TextsUpTo
    <3>4. all[m] = text0(m)[m] /\ all[m \div 10] = text0(m \div 10)[m \div 10]
      BY <3>1
    <3>5. rhs(all)[m] = Append(all[m \div 10], Zero + (m % 10))
      <4> HIDE DEF all
      <4> QED
        BY <2>3
    <3> HIDE DEF all, rhs
    <3> QED
      BY <3>2, <3>3, <3>4, <3>5
  <2> QED
    BY <2>2, <2>3
<1>3. all = rhs(all)
  <2>1. DOMAIN all = Nat /\ all = [m \in Nat |-> all[m]]
    OBVIOUS
  <2> HIDE DEF all
  <2>2. rhs(all) = [m \in Nat |-> rhs(all)[m]]
    OBVIOUS
  <2> HIDE DEF rhs
  <2> QED
    BY <1>2, <2>1, <2>2
<1>4. NatText = CHOOSE it : it = rhs(it)
  BY DEF NatText
<1>5. NatText = rhs(NatText)
  <2> HIDE DEF all, rhs
  <2> QED
    BY <1>3, <1>4
<1>6. NatText[n] = rhs(NatText)[n]
  <2> HIDE DEF rhs
  <2> QED
    BY <1>5
<1> QED
  BY <1>6

(* ... and stands for the number.                                           *)
LEMMA NatTextFacts ==
  \A n \in Nat : /\ NatText[n] \in Seq(DigitChars) /\ NatText[n] # <<>>
                 /\ DigitsValue(NatText[n]) = n
<1> DEFINE P == {n \in Nat : /\ NatText[n] \in Seq(DigitChars) /\ NatText[n] # <<>>
                             /\ DigitsValue(NatText[n]) = n}
<1>1. ASSUME NEW n \in Nat, \A k \in Nat : k < n => k \in P PROVE n \in P
  <2>1. CASE n < 10
    <3>1. Zero + n \in DigitChars /\ (Zero + n) - Zero = n
      BY <2>1, DigitOf
    <3>2. /\ NatText[n] = <<Zero + n>> /\ <<Zero + n>> = Append(<<>>, Zero + n)
          /\ <<>> \in Seq(DigitChars)
      BY <2>1, NatTextIs
    <3>3. DigitsValue(Append(<<>>, Zero + n)) = 10 * 0 + ((Zero + n) - Zero)
      BY <3>1, <3>2, DigitsFacts
    <3>4. DigitsValue(NatText[n]) = n
      BY <3>1, <3>2, <3>3
    <3>5. <<Zero + n>> \in Seq(DigitChars) /\ <<Zero + n>> # <<>>
      BY <3>1
    <3> QED
      BY <3>2, <3>4, <3>5
  <2>2. CASE n >= 10
    <3> DEFINE d == n \div 10
               c == Zero + (n % 10)
    <3>1. d \in Nat /\ d < n /\ c \in DigitChars /\ n = 10 * d + (c - Zero)
      BY <2>2, ByTen, DigitOf
    <3>2. NatText[n] = Append(NatText[d], c)
      BY <2>2, NatTextIs
    <3> HIDE DEF d, c
    <3>3. NatText[d] \in Seq(DigitChars) /\ DigitsValue(NatText[d]) = d
      BY <1>1, <3>1
    <3>4. DigitsValue(NatText[n]) = 10 * d + (c - Zero)
      BY <3>1, <3>2, <3>3, DigitsFacts
    <3>5. NatText[n] \in Seq(DigitChars) /\ NatText[n] # <<>>
      BY <3>1, <3>2, <3>3, AppendProperties
    <3> QED
      BY <3>1, <3>4, <3>5
  <2> QED
    BY <2>1, <2>2
<1>2. P = Nat
  <2>1. P \in SUBSET Nat
    OBVIOUS
  <2> HIDE DEF P
  <2> QED
    BY <1>1, <2>1, FromAllBelow
<1> QED
  BY <1>2

LEMMA ThreeDigits ==
  ASSUME NEW n \in Nat, n < 1000
  PROVE  Len(NatText[n]) \in {1, 2, 3}
<1>1. ASSUME NEW k \in Nat, k < 10 PROVE Len(NatText[k]) = 1
  <2>1. NatText[k] = <<Zero + k>>
    BY <1>1, NatTextIs
  <2> QED
    BY <2>1
<1>2. ASSUME NEW k \in Nat, k >= 10
      PROVE  Len(NatText[k]) = Len(NatText[k \div 10]) + 1
  <2>1. NatText[k] = Append(NatText[k \div 10], Zero + (k % 10))
    BY <1>2, NatTextIs
  <2>2. Zero + (k % 10) \in DigitChars /\ k \div 10 \in Nat
    BY ByTen, DigitOf
  <2>3. NatText[k \div 10] \in Seq(DigitChars)
    BY <2>2, NatTextFacts
  <2> QED
    BY <2>1, <2>2, <2>3, AppendProperties
<1>3. ASSUME NEW k \in Nat, k < 100 PROVE Len(NatText[k]) \in {1, 2}
  <2>1. k \div 10 \in Nat /\ k \div 10 < 10
    BY <1>3, ByTen
  <2>2. CASE k < 10
    BY <1>1, <2>2
  <2>3. CASE k >= 10
    <3>1. Len(NatText[k \div 10]) = 1
      BY <1>1, <2>1
    <3>2. Len(NatText[k]) = Len(NatText[k \div 10]) + 1
      BY <1>2, <2>3
    <3> QED
      BY <3>1, <3>2
  <2> QED
    BY <2>2, <2>3
<1>4. CASE n < 100
  BY <1>3, <1>4
<1>5. CASE n >= 100
  <2>1. n \div 10 \in Nat /\ n \div 10 < 100
    BY ByTen
  <2>2. Len(NatText[n \div 10]) \in {1, 2}
    BY <1>3, <2>1
  <2>3. Len(NatText[n]) = Len(NatText[n \div 10]) + 1
    BY <1>2, <1>5
  <2>4. \A k \in {1, 2} : k + 1 \in {1, 2, 3}
    OBVIOUS
  <2> QED
    BY ONLY <2>2, <2>3, <2>4
<1> QED
  BY <1>4, <1>5

LEMMA LeadingNone ==
  ASSUME NEW s \in Seq(Int), NEW C, s = <<>> \/ s[1] \notin C
  PROVE  Leading(s, C) = 0
<1> DEFINE K == {k \in 0 .. Len(s) : \A i \in 1 .. k : s[i] \in C}
<1>1. Len(s) \in Nat /\ (s = <<>> => Len(s) = 0)
  BY LenProperties
<1>2. 0 \in K
  BY <1>1
<1>3. \A k \in K : k <= 0
  BY <1>1
<1>4. K \in SUBSET Int
  BY <1>1
<1> HIDE DEF K
<1>5. Max(K) = 0
  BY <1>2, <1>3, <1>4, MaxOf
<1> QED
  BY <1>5 DEF Leading, K

LEMMA LeadingAll ==
  ASSUME NEW C, NEW s \in Seq(C)
  PROVE  Leading(s, C) = Len(s)
<1> DEFINE K == {k \in 0 .. Len(s) : \A i \in 1 .. k : s[i] \in C}
<1>1. Len(s) \in Nat /\ \A i \in 1 .. Len(s) : s[i] \in C
  BY LenProperties, ElementOfSeq
<1>2. Len(s) \in K /\ K \in SUBSET Int /\ \A k \in K : k <= Len(s)
  BY <1>1
<1> HIDE DEF K
<1>3. Max(K) = Len(s)
  BY <1>2, MaxOf
<1> QED
  BY <1>3 DEF Leading, K

LEMMA WholeSequence ==
  ASSUME NEW s \in Seq(Int) PROVE SubSeq(s, 1, Len(s)) = s
BY SubSeqFull

LEMMA DigitSeqs ==
  ASSUME NEW s \in Seq(DigitChars)
  PROVE  /\ s \in Seq(Int) /\ s \in Seq(Chars) /\ Len(s) \in Nat
         /\ \A i \in 1 .. Len(s) : s[i] \in DigitChars
<1>1. DigitChars \subseteq Int /\ DigitChars \subseteq Chars
  BY DEF DigitChars, Zero, Chars
<1>2. s \in Seq(Int) /\ s \in Seq(Chars)
  BY <1>1, SeqMonotonic
<1> QED
  BY <1>2, LenProperties, ElementOfSeq

(* std::stoi reads digits as their value.                                   *)
LEMMA StoiOfDigits ==
  ASSUME NEW s \in Seq(DigitChars), s # <<>>, DigitsValue(s) \in Ints
  PROVE  Stoi(s) = DigitsValue(s)
<1>1. /\ s \in Seq(Int) /\ Len(s) \in Nat \ {0}
      /\ s[1] \in DigitChars
  <2>1. Len(s) \in Nat \ {0}
    BY EmptySeq
  <2>2. 1 \in 1 .. Len(s)
    BY <2>1
  <2> QED
    BY <2>1, <2>2, DigitSeqs
<1>2. s[1] \notin Blanks /\ s[1] \notin {Plus, Minus}
  <2>1. \A c \in DigitChars : c \notin Blanks /\ c \notin {Plus, Minus}
    BY DEF DigitChars, Zero, Blanks, Plus, Minus
  <2> QED
    BY <1>1, <2>1
<1>3. Leading(s, Blanks) = 0
  BY <1>1, <1>2, LeadingNone
<1>4. SubSeq(s, Leading(s, Blanks) + 1, Len(s)) = s
  BY <1>1, <1>3, WholeSequence
<1>5. Leading(s, DigitChars) = Len(s) /\ SubSeq(s, 1, Len(s)) = s
  BY <1>1, LeadingAll, WholeSequence
<1>6. Head(s) = s[1]
  BY <1>1
<1> QED
  BY <1>1, <1>2, <1>4, <1>5, <1>6 DEF Stoi

LEMMA StoiOfMinus ==
  ASSUME NEW s \in Seq(DigitChars), s # <<>>, -DigitsValue(s) \in Ints
  PROVE  Stoi(<<Minus>> \o s) = -DigitsValue(s)
<1> DEFINE w == <<Minus>> \o s
<1>1. s \in Seq(Int) /\ Len(s) \in Nat \ {0}
  <2>1. Len(s) \in Nat \ {0}
    BY EmptySeq
  <2> QED
    BY <2>1, DigitSeqs
<1>2. /\ w \in Seq(Int) /\ w # <<>> /\ w[1] = Minus /\ Head(w) = Minus /\ Tail(w) = s
      /\ Len(w) = Len(s) + 1
  BY <1>1 DEF Minus
<1>3. Minus \notin Blanks
  BY DEF Minus, Blanks
<1> HIDE DEF w
<1>4. Leading(w, Blanks) = 0
  BY <1>2, <1>3, LeadingNone
<1>5. SubSeq(w, Leading(w, Blanks) + 1, Len(w)) = w
  BY <1>2, <1>4, WholeSequence
<1>6. Leading(s, DigitChars) = Len(s) /\ SubSeq(s, 1, Len(s)) = s
  BY <1>1, LeadingAll, WholeSequence
<1>7. Stoi(w) = -DigitsValue(s)
  BY <1>1, <1>2, <1>5, <1>6 DEF Stoi
<1> QED
  BY <1>7 DEF w

(* A tag that is written is read as itself.                                 *)
LEMMA IntTextFacts ==
  ASSUME NEW n \in Ints
  PROVE  /\ IntText(n) \in Seq(Chars) /\ Stoi(IntText(n)) = n
         /\ \A i \in 1 .. Len(IntText(n)) : IntText(n)[i] \notin {SOH, Equals}
<1>1. MaxInt \in Nat /\ n \in Int
  BY CodecAssumption DEF Ints
<1>2. CASE n >= 0
  <2>1. n \in Nat /\ IntText(n) = NatText[n]
    BY <1>1, <1>2 DEF IntText
  <2>2. NatText[n] \in Seq(DigitChars) /\ NatText[n] # <<>> /\ DigitsValue(NatText[n]) = n
    BY <2>1, NatTextFacts
  <2>3. Stoi(IntText(n)) = n
    BY <2>1, <2>2, StoiOfDigits
  <2>4. \A c \in DigitChars : c \notin {SOH, Equals}
    BY DEF DigitChars, Zero, SOH, Equals
  <2> QED
    BY <2>1, <2>2, <2>3, <2>4, DigitSeqs
<1>3. CASE n < 0
  <2>1. -n \in Nat /\ IntText(n) = <<Minus>> \o NatText[-n] /\ -(-n) = n
    BY <1>1, <1>3 DEF IntText
  <2>2. /\ NatText[-n] \in Seq(DigitChars) /\ NatText[-n] # <<>>
        /\ DigitsValue(NatText[-n]) = -n
    BY <2>1, NatTextFacts
  <2>3. Stoi(IntText(n)) = n
    BY <2>1, <2>2, StoiOfMinus
  <2>4. /\ NatText[-n] \in Seq(Chars) /\ Len(NatText[-n]) \in Nat
        /\ \A i \in 1 .. Len(NatText[-n]) : NatText[-n][i] \in DigitChars
    BY <2>2, DigitSeqs
  <2>5. Minus \in Chars
    BY DEF Minus, Chars
  <2>6. \A c \in DigitChars \cup {Minus} : c \notin {SOH, Equals}
    BY DEF DigitChars, Zero, SOH, Equals, Minus
  <2>7. /\ <<Minus>> \o NatText[-n] \in Seq(Chars)
        /\ \A i \in 1 .. Len(<<Minus>> \o NatText[-n]) :
             (<<Minus>> \o NatText[-n])[i] \in DigitChars \cup {Minus}
    BY <2>4, <2>5
  <2> QED
    BY <2>1, <2>3, <2>6, <2>7
<1> QED
  BY <1>1, <1>2, <1>3

-----------------------------------------------------------------------------
(* The fields of a text                                                     *)

Lists     == {f \in Seq(FreeText) : f # <<>>}

Read(acc, c) == IF c = SOH THEN Append(acc, <<>>)
                ELSE [acc EXCEPT ![Len(acc)] = Append(@, c)]
ReadStep == [f \in Lists |-> [c \in Chars |-> Read(f, c)]]

LEMMA FreeTextFacts ==
  /\ <<>> \in FreeText
  /\ \A v \in FreeText : \A c \in Chars : c # SOH => Append(v, c) \in FreeText
  /\ \A v \in FreeText : \A w \in FreeText : v \o w \in FreeText
  /\ \A v \in FreeText : v \in Seq(Chars) /\ Len(v) \in Nat
<1>1. <<>> \in FreeText
  BY EmptySeq DEF FreeText
<1>2. ASSUME NEW v \in FreeText, NEW c \in Chars, c # SOH PROVE Append(v, c) \in FreeText
  BY <1>2, AppendProperties DEF FreeText, FreeChars
<1>3. ASSUME NEW v \in FreeText, NEW w \in FreeText PROVE v \o w \in FreeText
  BY ConcatProperties DEF FreeText
<1>4. ASSUME NEW v \in FreeText PROVE v \in Seq(Chars) /\ Len(v) \in Nat
  <2>1. FreeChars \subseteq Chars
    BY DEF FreeChars
  <2> QED
    BY <2>1, SeqMonotonic, LenProperties DEF FreeText
<1> QED
  BY <1>1, <1>2, <1>3, <1>4

LEMMA ReplaceLast ==
  ASSUME NEW e \in Seq(FreeText), NEW n \in Nat, Len(e) = n + 1, NEW w \in FreeText
  PROVE  /\ [e EXCEPT ![n + 1] = w] \in Seq(FreeText) /\ Len([e EXCEPT ![n + 1] = w]) = n + 1
         /\ [e EXCEPT ![n + 1] = w][n + 1] = w
         /\ \A i \in 1 .. n : [e EXCEPT ![n + 1] = w][i] = e[i]
<1>1. n + 1 \in 1 .. Len(e) /\ \A i \in 1 .. n : i \in 1 .. Len(e) /\ i # n + 1
  OBVIOUS
<1> QED
  BY <1>1, ExceptSeq

(* What getline does with a character, where g are the fields that ended    *)
(* and v is the one that is read.                                           *)
LEMMA ReadFacts ==
  ASSUME NEW g \in Seq(FreeText), NEW v \in FreeText, NEW c \in Chars
  PROVE  /\ Append(g, v) \in Lists
         /\ c = SOH => Read(Append(g, v), c) = Append(Append(g, v), <<>>)
         /\ c # SOH => Read(Append(g, v), c) = Append(g, Append(v, c))
         /\ Read(Append(g, v), c) \in Lists
<1>1. /\ Append(g, v) \in Seq(FreeText) /\ Append(g, v) # <<>>
      /\ Len(Append(g, v)) = Len(g) + 1 /\ Len(g) \in Nat
      /\ Append(g, v)[Len(g) + 1] = v
      /\ \A i \in 1 .. Len(g) : Append(g, v)[i] = g[i]
  BY AppendProperties, LenProperties
<1>2. Append(g, v) \in Lists
  BY <1>1 DEF Lists
<1>3. CASE c = SOH
  <2>1. Read(Append(g, v), c) = Append(Append(g, v), <<>>)
    BY <1>3 DEF Read
  <2>2. Append(Append(g, v), <<>>) \in Lists
    BY <1>1, FreeTextFacts, AppendProperties DEF Lists
  <2> QED
    BY <1>2, <1>3, <2>1, <2>2
<1>4. CASE c # SOH
  <2> DEFINE w == Append(v, c)
             f == [Append(g, v) EXCEPT ![Len(g) + 1] = w]
  <2>1. w \in FreeText
    BY <1>4, FreeTextFacts
  <2>2. Read(Append(g, v), c) = f
    BY <1>1, <1>4 DEF Read
  <2> HIDE DEF w
  <2>3. /\ f \in Seq(FreeText) /\ Len(f) = Len(g) + 1
        /\ f[Len(g) + 1] = w
        /\ \A i \in 1 .. Len(g) : f[i] = g[i]
    <3>1. PICK e \in Seq(FreeText) : e = Append(g, v)
      BY <1>1
    <3>2. PICK n \in Nat : n = Len(g)
      BY <1>1
    <3>3. Len(e) = n + 1 /\ \A i \in 1 .. n : e[i] = g[i]
      BY <1>1, <3>1, <3>2
    <3>4. /\ [e EXCEPT ![n + 1] = w] \in Seq(FreeText) /\ Len([e EXCEPT ![n + 1] = w]) = n + 1
          /\ [e EXCEPT ![n + 1] = w][n + 1] = w
          /\ \A i \in 1 .. n : [e EXCEPT ![n + 1] = w][i] = e[i]
      BY <2>1, <3>3, ReplaceLast
    <3> QED
      BY <3>1, <3>2, <3>3, <3>4
  <2>4. /\ Append(g, w) \in Seq(FreeText) /\ Len(Append(g, w)) = Len(g) + 1
        /\ Append(g, w) # <<>>
        /\ Append(g, w)[Len(g) + 1] = w
        /\ \A i \in 1 .. Len(g) : Append(g, w)[i] = g[i]
    BY <2>1, AppendProperties
  <2> HIDE DEF f
  <2>5. \A i \in 1 .. Len(f) : f[i] = Append(g, w)[i]
    BY <1>1, <2>3, <2>4
  <2>6. f = Append(g, w)
    BY <2>3, <2>4, <2>5, SeqEqual
  <2>7. Append(g, w) \in Lists
    BY <2>4 DEF Lists
  <2> QED
    BY <1>2, <1>4, <2>2, <2>6, <2>7 DEF w
<1> QED
  BY <1>3, <1>4

LEMMA ListEnds ==
  ASSUME NEW f \in Lists
  PROVE  \E g \in Seq(FreeText), v \in FreeText : f = Append(g, v)
<1>1. f \in Seq(FreeText) /\ f # <<>>
  BY DEF Lists
<1> QED
  BY <1>1, SequenceEmptyOrAppend

LEMMA ReadStepType == Step(Chars, Lists, << <<>> >>, ReadStep)
<1>1. << <<>> >> \in Lists
  <2>1. <<>> \in Seq(FreeText) /\ << <<>> >> = Append(<<>>, <<>>)
    BY EmptySeq
  <2> QED
    BY <2>1, FreeTextFacts, AppendProperties DEF Lists
<1>2. \A f \in Lists : \A c \in Chars : Read(f, c) \in Lists
  BY ListEnds, ReadFacts
<1> QED
  BY <1>1, <1>2 DEF Step, ReadStep

LEMMA FieldsRun ==
  ASSUME NEW s \in Seq(Chars)
  PROVE  Fields(s) = Run(Lists, << <<>> >>, ReadStep, s)
<1> DEFINE base == << <<>> >>
           rhs(it) == [a \in SUBSET DOMAIN s |->
                         IF a = {} THEN base ELSE Read(it[a \ {Max(a)}], s[Max(a)])]
<1>1. Entries(Chars, s)
  BY FoldDomain
<1>2. PICK i0 : Solves(Lists, base, ReadStep, s, Len(s), i0)
  BY ReadStepType, FoldSolvable DEF Solvable
<1>3. Fields(s) = (CHOOSE i : i = rhs(i))[DOMAIN s]
  BY DEF Fields, Read, FoldLeft, MapThenFoldSet
<1>4. \A f \in Lists : \A c \in Chars : ReadStep[f][c] = Read(f, c)
  BY DEF ReadStep
<1> HIDE DEF base
<1>5. i0 = rhs(i0)
  <2>1. \A a \in SUBSET DOMAIN s : i0[a] = rhs(i0)[a]
    <3>1. i0[{}] = base /\ \A a \in SUBSET DOMAIN s : i0[a] \in Lists
      BY <1>1, <1>2 DEF Entries, Solves
    <3>2. \A a \in SUBSET DOMAIN s : a # {} => i0[a] = Read(i0[a \ {Max(a)}], s[Max(a)])
      BY <1>1, <1>2, <1>4, <3>1 DEF Entries, Solves
    <3> QED
      BY <3>1, <3>2
  <2>2. i0 = [a \in SUBSET DOMAIN s |-> i0[a]]
    BY <1>1, <1>2 DEF Entries, Solves
  <2> QED
    BY <2>1, <2>2
<1>6. PICK it : it = CHOOSE i : i = rhs(i)
  OBVIOUS
<1>7. it = rhs(it)
  <2> HIDE DEF rhs
  <2> QED
    BY <1>5, <1>6
<1>8. \A a \in SUBSET DOMAIN s :
        it[a] = IF a = {} THEN base ELSE Read(it[a \ {Max(a)}], s[Max(a)])
  BY <1>7
<1>9. Chain(Lists, base, ReadStep, s, it)
  <2>1. it[{}] = base
    BY <1>1, <1>8 DEF Entries
  <2>2. ASSUME NEW k \in 1 .. Len(s), it[1 .. k - 1] \in Lists
        PROVE  it[1 .. k] = ReadStep[it[1 .. k - 1]][s[k]]
    <3>1. it[1 .. k] = Read(it[1 .. k - 1], s[k])
      BY <1>1, <1>8 DEF Entries
    <3> QED
      BY <1>1, <1>4, <2>2, <3>1 DEF Entries
  <2> QED
    BY <2>1, <2>2 DEF Chain
<1>10. it[DOMAIN s] = Run(Lists, base, ReadStep, s)
  BY <1>9, ReadStepType, SolutionIsRun DEF base
<1> QED
  BY <1>3, <1>6, <1>10 DEF base

LEMMA FieldsFacts ==
  /\ Fields(<<>>) = << <<>> >>
  /\ \A s \in Seq(Chars) : Fields(s) \in Lists
  /\ \A s \in Seq(Chars) : \A c \in Chars : Fields(Append(s, c)) = Read(Fields(s), c)
<1> DEFINE base == << <<>> >>
<1>1. \A f \in Lists : \A c \in Chars : ReadStep[f][c] = Read(f, c)
  BY DEF ReadStep
<1>2. /\ Run(Lists, base, ReadStep, <<>>) = base
      /\ \A s \in Seq(Chars) : Run(Lists, base, ReadStep, s) \in Lists
      /\ \A s \in Seq(Chars) : \A c \in Chars :
           Run(Lists, base, ReadStep, Append(s, c)) = ReadStep[Run(Lists, base, ReadStep, s)][c]
  BY ReadStepType, RunFacts
<1>3. /\ <<>> \in Seq(Chars)
      /\ \A s \in Seq(Chars) : \A c \in Chars : Append(s, c) \in Seq(Chars)
  BY EmptySeq, AppendProperties
<1>4. \A s \in Seq(Chars) : Fields(s) = Run(Lists, base, ReadStep, s)
  BY FieldsRun
<1> HIDE DEF base
<1>5. Fields(<<>>) = base
  BY <1>2, <1>3, <1>4
<1>6. \A s \in Seq(Chars) : Fields(s) \in Lists
  BY <1>2, <1>4
<1>7. ASSUME NEW s \in Seq(Chars), NEW c \in Chars
      PROVE  Fields(Append(s, c)) = Read(Fields(s), c)
  <2>1. Fields(Append(s, c)) = ReadStep[Run(Lists, base, ReadStep, s)][c]
    BY <1>2, <1>3, <1>4
  <2>2. Fields(s) = Run(Lists, base, ReadStep, s) /\ Fields(s) \in Lists
    BY <1>4, <1>6
  <2> QED
    BY <1>1, <2>1, <2>2
<1> QED
  BY <1>5, <1>6, <1>7 DEF base

(* Characters that end no field lengthen the last one.                      *)
LEMMA ReadText ==
  ASSUME NEW s \in Seq(Chars), NEW g \in Seq(FreeText), Fields(s) = Append(g, <<>>)
  PROVE  \A v \in FreeText : Fields(s \o v) = Append(g, v)
<1> DEFINE S == {v \in FreeText : Fields(s \o v) = Append(g, v)}
<1>1. <<>> \in S
  <2>1. s \o <<>> = s
    OBVIOUS
  <2> QED
    BY <2>1, FreeTextFacts
<1>2. ASSUME NEW v \in S, NEW c \in FreeChars PROVE Append(v, c) \in S
  <2>1. v \in FreeText /\ v \in Seq(Chars) /\ Fields(s \o v) = Append(g, v)
    BY FreeTextFacts
  <2>2. c \in Chars /\ c # SOH
    BY DEF FreeChars
  <2>3. s \o Append(v, c) = Append(s \o v, c) /\ s \o v \in Seq(Chars)
    BY <2>1, <2>2
  <2>4. Fields(Append(s \o v, c)) = Read(Append(g, v), c)
    BY <2>1, <2>2, <2>3, FieldsFacts
  <2>5. Read(Append(g, v), c) = Append(g, Append(v, c))
    BY <2>1, <2>2, ReadFacts
  <2>6. Append(v, c) \in FreeText
    BY <2>1, <2>2, FreeTextFacts
  <2> QED
    BY <2>3, <2>4, <2>5, <2>6
<1>3. S = FreeText
  <2>1. S \in SUBSET Seq(FreeChars)
    BY DEF FreeText
  <2> HIDE DEF S
  <2> QED
    BY <1>1, <1>2, <2>1, FromAppend DEF FreeText
<1> QED
  BY <1>3

(* The text s ends with the end of a field.                                 *)
Ended(s) == \E g \in Seq(FreeText) : Fields(s) = Append(g, <<>>)

LEMMA ReadField ==
  ASSUME NEW s \in Seq(Chars), NEW g \in Seq(FreeText), Fields(s) = Append(g, <<>>),
         NEW v \in FreeText
  PROVE  Fields((s \o v) \o <<SOH>>) = Append(Append(g, v), <<>>)
<1>1. Fields(s \o v) = Append(g, v)
  BY ReadText
<1>2. SOH \in Chars /\ s \o v \in Seq(Chars)
  <2>1. v \in Seq(Chars)
    BY FreeTextFacts
  <2> QED
    BY <2>1 DEF SOH, Chars
<1>3. (s \o v) \o <<SOH>> = Append(s \o v, SOH)
  BY <1>2, AppendIsConcat
<1>4. Fields(Append(s \o v, SOH)) = Read(Append(g, v), SOH)
  BY <1>1, <1>2, FieldsFacts
<1> QED
  BY <1>2, <1>3, <1>4, ReadFacts

-----------------------------------------------------------------------------
(* Messages                                                                 *)

Messages == UNION {[D -> FreeText] : D \in SUBSET Ints}

LEMMA MessageIs ==
  /\ NoFields \in Messages
  /\ \A m \in Messages :
       /\ DOMAIN m \subseteq Ints /\ m \in [DOMAIN m -> FreeText]
       /\ \A t \in DOMAIN m : m[t] \in FreeText
       /\ \A t \in Ints : \A v \in FreeText : SetTagValue(m, t, v) \in Messages
<1>1. NoFields \in [{} -> FreeText]
  BY DEF NoFields
<1>2. NoFields \in Messages
  BY <1>1 DEF Messages
<1>3. ASSUME NEW m \in Messages
      PROVE  /\ DOMAIN m \subseteq Ints /\ m \in [DOMAIN m -> FreeText]
             /\ \A t \in DOMAIN m : m[t] \in FreeText
  BY DEF Messages
<1>4. ASSUME NEW m \in Messages, NEW t \in Ints, NEW v \in FreeText
      PROVE  SetTagValue(m, t, v) \in Messages
  <2>1. SetTagValue(m, t, v) \in [DOMAIN m \cup {t} -> FreeText]
    BY <1>3 DEF SetTagValue
  <2>2. DOMAIN m \cup {t} \in SUBSET Ints
    BY <1>3
  <2> QED
    BY <2>1, <2>2 DEF Messages
<1> QED
  BY <1>2, <1>3, <1>4

LEMMA MinIn ==
  ASSUME NEW S \in SUBSET Nat, S # {}
  PROVE  Min(S) \in S /\ \A k \in S : Min(S) <= k
<1>1. PICK n \in S : \A k \in S : n <= k
  BY Least
<1>2. Min(S) = n
  BY <1>1, MinOf
<1> QED
  BY <1>1, <1>2

EqualsIn(field) == {i \in 1 .. Len(field) : field[i] = Equals}

LEMMA FirstEquals ==
  ASSUME NEW field
  PROVE  SelectInSeq(field, LAMBDA c : c = Equals)
           = IF EqualsIn(field) # {} THEN Min(EqualsIn(field)) ELSE 0
BY DEF SelectInSeq, EqualsIn

LEMMA StoiIsInt ==
  ASSUME NEW s, Stoi(s) # NoInteger
  PROVE  Stoi(s) \in Ints
BY DEF Stoi

LEMMA TakeFieldType ==
  ASSUME NEW m \in Messages, NEW field \in FreeText
  PROVE  TakeField(m, field) \in Messages
<1> DEFINE at  == SelectInSeq(field, LAMBDA c : c = Equals)
           tag == Stoi(SubSeq(field, 1, at - 1))
<1>1. CASE at = 0 \/ tag = NoInteger
  BY <1>1 DEF TakeField
<1>2. CASE ~(at = 0 \/ tag = NoInteger)
  <2>1. Len(field) \in Nat /\ \A i \in 1 .. Len(field) : field[i] \in FreeChars
    BY LenProperties, ElementOfSeq DEF FreeText
  <2>2. at \in 1 .. Len(field)
    <3>1. EqualsIn(field) \in SUBSET Nat /\ EqualsIn(field) \in SUBSET (1 .. Len(field))
      BY <2>1 DEF EqualsIn
    <3> QED
      BY <1>2, <3>1, FirstEquals, MinIn
  <2>3. tag \in Ints
    BY <1>2, StoiIsInt
  <2> HIDE DEF at, tag
  <2>4. SubSeq(field, at + 1, Len(field)) \in FreeText
    <3>1. \A i \in at + 1 .. Len(field) : field[i] \in FreeChars
      BY <2>1, <2>2
    <3>2. at + 1 \in Int /\ Len(field) \in Int
      BY <2>1, <2>2
    <3> QED
      BY <3>1, <3>2, SubSeqProperties DEF FreeText
  <2>5. TakeField(m, field) = SetTagValue(m, tag, SubSeq(field, at + 1, Len(field)))
    BY <1>2 DEF TakeField, at, tag
  <2> QED
    BY <2>3, <2>4, <2>5, MessageIs
<1> QED
  BY <1>1, <1>2

LEMMA TakeEmpty ==
  ASSUME NEW m
  PROVE  TakeField(m, <<>>) = m
<1>1. EqualsIn(<<>>) = {}
  BY DEF EqualsIn
<1>2. SelectInSeq(<<>>, LAMBDA c : c = Equals) = 0
  BY <1>1, FirstEquals
<1> QED
  BY <1>2 DEF TakeField

(* A tag and a value that are written are taken as they are.                *)
LEMMA TakeWritten ==
  ASSUME NEW m \in Messages, NEW tag \in Ints, NEW v \in FreeText
  PROVE  /\ (IntText(tag) \o <<Equals>>) \o v \in FreeText
         /\ TakeField(m, (IntText(tag) \o <<Equals>>) \o v) = SetTagValue(m, tag, v)
<1>1. PICK t \in Seq(Chars) : t = IntText(tag)
  BY IntTextFacts
<1>2. Stoi(t) = tag /\ \A i \in 1 .. Len(t) : t[i] # SOH /\ t[i] # Equals
  BY <1>1, IntTextFacts
<1>3. v \in Seq(Chars) /\ v \in Seq(FreeChars) /\ Len(v) \in Nat /\ Len(t) \in Nat
  BY FreeTextFacts, LenProperties DEF FreeText
<1>4. t \in FreeText
  <2>1. \A i \in 1 .. Len(t) : t[i] \in FreeChars
    BY <1>2, ElementOfSeq DEF FreeChars
  <2> QED
    BY <1>3, <2>1 DEF FreeText
<1>5. Equals \in FreeChars /\ <<Equals>> \in FreeText
  <2>1. Equals \in FreeChars
    BY DEF Equals, FreeChars, Chars, SOH
  <2> QED
    BY <2>1 DEF FreeText
<1> DEFINE field == (t \o <<Equals>>) \o v
           n == Len(t)
<1>6. field \in FreeText
  BY <1>4, <1>5, FreeTextFacts
<1>7. /\ Len(field) = n + 1 + Len(v)
      /\ \A i \in 1 .. n : field[i] = t[i]
      /\ field[n + 1] = Equals
      /\ \A i \in 1 .. Len(v) : field[n + 1 + i] = v[i]
  BY <1>3, <1>4, <1>5 DEF FreeText
<1> HIDE DEF field
<1>8. field \in Seq(Int) /\ t \in Seq(Int) /\ v \in Seq(Int)
  <2>1. Chars \subseteq Int /\ FreeChars \subseteq Int
    <3>1. \A c \in Chars : c \in Int
      BY DEF Chars
    <3> QED
      BY <3>1 DEF FreeChars
  <2> QED
    BY <1>3, <1>6, <2>1, SeqMonotonic DEF FreeText
<1>9. SelectInSeq(field, LAMBDA c : c = Equals) = n + 1
  <2>1. n + 1 \in EqualsIn(field) /\ EqualsIn(field) \in SUBSET Int
    BY <1>3, <1>7 DEF EqualsIn
  <2>2. \A i \in EqualsIn(field) : n + 1 <= i
    BY <1>2, <1>3, <1>7 DEF EqualsIn
  <2>3. Min(EqualsIn(field)) = n + 1
    BY <1>3, <2>1, <2>2, MinOf
  <2> QED
    BY <2>1, <2>3, FirstEquals
<1>10. SubSeq(field, 1, n) = t
  <2>1. \A i \in 1 .. n : field[i] \in Int
    BY <1>3, <1>7, <1>8, ElementOfSeq
  <2> DEFINE u == SubSeq(field, 1, n)
  <2>2. /\ u \in Seq(Int) /\ Len(u) = n
        /\ \A i \in 1 .. n : u[i] = field[i]
    BY <1>3, <2>1, SubSeqProperties
  <2> HIDE DEF u
  <2>3. u = t
    BY <1>7, <1>8, <2>2, SeqEqual
  <2> QED
    BY <2>3 DEF u
<1>11. SubSeq(field, n + 2, Len(field)) = v
  <2> DEFINE u == SubSeq(field, n + 2, Len(field))
  <2>1. \A i \in n + 2 .. Len(field) : field[i] \in Int
    <3>1. \A i \in n + 2 .. Len(field) : i \in 1 .. Len(field)
      BY <1>3, <1>7
    <3> QED
      BY <1>8, <3>1, ElementOfSeq
  <2>2. n + 2 \in Int /\ Len(field) \in Int
    BY <1>3, <1>7
  <2>3. /\ u \in Seq(Int)
        /\ Len(u) = IF n + 2 <= Len(field) THEN Len(field) - (n + 2) + 1 ELSE 0
        /\ \A i \in 1 .. Len(field) - (n + 2) + 1 : u[i] = field[(n + 2) + i - 1]
    BY <2>1, <2>2, SubSeqProperties
  <2> HIDE DEF u
  <2>4. Len(u) = Len(v)
    BY <1>3, <1>7, <2>3
  <2>5. \A i \in 1 .. Len(v) : u[i] = v[i]
    <3> SUFFICES ASSUME NEW i \in 1 .. Len(v) PROVE u[i] = v[i]
      OBVIOUS
    <3>1. i \in 1 .. Len(field) - (n + 2) + 1 /\ (n + 2) + i - 1 = n + 1 + i
      BY <1>3, <1>7
    <3> QED
      BY <1>7, <2>3, <3>1
  <2>6. u = v
    BY <1>8, <2>3, <2>4, <2>5, SeqEqual
  <2> QED
    BY <2>6 DEF u
<1>12. tag # NoInteger
  BY CodecAssumption DEF Ints, NoInteger
<1>13. TakeField(m, field) = SetTagValue(m, tag, v)
  <2>1. (n + 1) - 1 = n /\ (n + 1) + 1 = n + 2 /\ n + 1 # 0
    BY <1>3
  <2> QED
    BY <1>2, <1>9, <1>10, <1>11, <1>12, <2>1 DEF TakeField
<1> QED
  BY <1>1, <1>6, <1>13 DEF field

-----------------------------------------------------------------------------
(* Parsing                                                                  *)

TakeStep == [m \in Messages |-> [field \in FreeText |-> TakeField(m, field)]]

LEMMA TakeStepType == Step(FreeText, Messages, NoFields, TakeStep)
BY MessageIs, TakeFieldType DEF Step, TakeStep

Taken(s) == FoldLeft(TakeField, NoFields, s)

LEMMA TakenRun ==
  ASSUME NEW s \in Seq(FreeText)
  PROVE  Taken(s) = Run(Messages, NoFields, TakeStep, s)
<1> DEFINE rhs(it) == [a \in SUBSET DOMAIN s |->
                         IF a = {} THEN NoFields ELSE TakeField(it[a \ {Max(a)}], s[Max(a)])]
<1>1. Entries(FreeText, s)
  BY FoldDomain
<1>2. PICK i0 : Solves(Messages, NoFields, TakeStep, s, Len(s), i0)
  BY TakeStepType, FoldSolvable DEF Solvable
<1>3. Taken(s) = (CHOOSE i : i = rhs(i))[DOMAIN s]
  BY DEF Taken, FoldLeft, MapThenFoldSet
<1>4. \A m \in Messages : \A f \in FreeText : TakeStep[m][f] = TakeField(m, f)
  BY DEF TakeStep
<1>5. i0 = rhs(i0)
  <2>1. \A a \in SUBSET DOMAIN s : i0[a] = rhs(i0)[a]
    <3>1. i0[{}] = NoFields /\ \A a \in SUBSET DOMAIN s : i0[a] \in Messages
      BY <1>1, <1>2 DEF Entries, Solves
    <3>2. \A a \in SUBSET DOMAIN s : a # {} => i0[a] = TakeField(i0[a \ {Max(a)}], s[Max(a)])
      BY <1>1, <1>2, <1>4, <3>1 DEF Entries, Solves
    <3> QED
      BY <3>1, <3>2
  <2>2. i0 = [a \in SUBSET DOMAIN s |-> i0[a]]
    BY <1>1, <1>2 DEF Entries, Solves
  <2> QED
    BY <2>1, <2>2
<1>6. PICK it : it = CHOOSE i : i = rhs(i)
  OBVIOUS
<1>7. it = rhs(it)
  <2> HIDE DEF rhs
  <2> QED
    BY <1>5, <1>6
<1>8. \A a \in SUBSET DOMAIN s :
        it[a] = IF a = {} THEN NoFields ELSE TakeField(it[a \ {Max(a)}], s[Max(a)])
  BY <1>7
<1>9. Chain(Messages, NoFields, TakeStep, s, it)
  <2>1. it[{}] = NoFields
    BY <1>1, <1>8 DEF Entries
  <2>2. ASSUME NEW k \in 1 .. Len(s), it[1 .. k - 1] \in Messages
        PROVE  it[1 .. k] = TakeStep[it[1 .. k - 1]][s[k]]
    <3>1. it[1 .. k] = TakeField(it[1 .. k - 1], s[k])
      BY <1>1, <1>8 DEF Entries
    <3> QED
      BY <1>1, <1>4, <2>2, <3>1 DEF Entries
  <2> QED
    BY <2>1, <2>2 DEF Chain
<1>10. it[DOMAIN s] = Run(Messages, NoFields, TakeStep, s)
  BY <1>9, TakeStepType, SolutionIsRun
<1> QED
  BY <1>3, <1>6, <1>10

LEMMA TakenFacts ==
  /\ Taken(<<>>) = NoFields
  /\ \A s \in Seq(FreeText) : Taken(s) \in Messages
  /\ \A s \in Seq(FreeText) : \A f \in FreeText :
       Taken(Append(s, f)) = TakeField(Taken(s), f)
<1>1. \A m \in Messages : \A f \in FreeText : TakeStep[m][f] = TakeField(m, f)
  BY DEF TakeStep
<1>2. /\ Run(Messages, NoFields, TakeStep, <<>>) = NoFields
      /\ \A s \in Seq(FreeText) : Run(Messages, NoFields, TakeStep, s) \in Messages
      /\ \A s \in Seq(FreeText) : \A f \in FreeText :
           Run(Messages, NoFields, TakeStep, Append(s, f))
             = TakeStep[Run(Messages, NoFields, TakeStep, s)][f]
  BY TakeStepType, RunFacts
<1>3. /\ <<>> \in Seq(FreeText)
      /\ \A s \in Seq(FreeText) : \A f \in FreeText : Append(s, f) \in Seq(FreeText)
  BY EmptySeq, AppendProperties
<1>4. \A s \in Seq(FreeText) : Taken(s) = Run(Messages, NoFields, TakeStep, s)
  BY TakenRun
<1>5. Taken(<<>>) = NoFields
  BY <1>2, <1>3, <1>4
<1>6. \A s \in Seq(FreeText) : Taken(s) \in Messages
  BY <1>2, <1>4
<1>7. ASSUME NEW s \in Seq(FreeText), NEW f \in FreeText
      PROVE  Taken(Append(s, f)) = TakeField(Taken(s), f)
  <2>1. Taken(Append(s, f)) = TakeStep[Run(Messages, NoFields, TakeStep, s)][f]
    BY <1>2, <1>3, <1>4
  <2>2. Taken(s) = Run(Messages, NoFields, TakeStep, s) /\ Taken(s) \in Messages
    BY <1>4, <1>6
  <2> QED
    BY <1>1, <2>1, <2>2
<1> QED
  BY <1>5, <1>6, <1>7

LEMMA ParseFacts ==
  /\ \A s : Parse(s) = Taken(Fields(s))
  /\ \A s \in Seq(Chars) : Parse(s) \in Messages
  /\ Parse(<<>>) = NoFields /\ Ended(<<>>)
<1>1. \A s : Parse(s) = Taken(Fields(s))
  BY DEF Parse, Taken
<1>2. \A s \in Seq(Chars) : Parse(s) \in Messages
  BY <1>1, FieldsFacts, TakenFacts DEF Lists
<1>3. /\ <<>> \in Seq(FreeText) /\ <<>> \in FreeText
      /\ Fields(<<>>) = Append(<<>>, <<>>)
  BY EmptySeq, FieldsFacts, FreeTextFacts
<1>4. Parse(<<>>) = NoFields
  <2>1. Taken(Append(<<>>, <<>>)) = TakeField(Taken(<<>>), <<>>)
    BY <1>3, TakenFacts
  <2> QED
    BY <1>1, <1>3, <2>1, TakenFacts, TakeEmpty
<1>5. Ended(<<>>)
  BY <1>3 DEF Ended
<1> QED
  BY <1>1, <1>2, <1>4, <1>5

(* A field that is appended to fields is read behind them.                  *)
LEMMA ParseField ==
  ASSUME NEW s \in Seq(Chars), Ended(s), NEW tag \in Ints, NEW v \in FreeText
  PROVE  /\ s \o FieldText(tag, v) \in Seq(Chars)
         /\ Ended(s \o FieldText(tag, v))
         /\ Parse(s \o FieldText(tag, v)) = SetTagValue(Parse(s), tag, v)
<1>1. PICK g \in Seq(FreeText) : Fields(s) = Append(g, <<>>)
  BY DEF Ended
<1>2. PICK f \in FreeText : f = (IntText(tag) \o <<Equals>>) \o v
  BY MessageIs, TakeWritten
<1>3. FieldText(tag, v) = f \o <<SOH>>
  BY <1>2 DEF FieldText
<1>4. f \in Seq(Chars) /\ <<SOH>> \in Seq(Chars)
  <2>1. SOH \in Chars
    BY DEF SOH, Chars
  <2> QED
    BY <2>1, FreeTextFacts
<1>5. /\ s \o (f \o <<SOH>>) = (s \o f) \o <<SOH>>
      /\ s \o (f \o <<SOH>>) \in Seq(Chars)
  BY <1>4
<1>6. Fields(s \o FieldText(tag, v)) = Append(Append(g, f), <<>>)
  <2>1. Fields((s \o f) \o <<SOH>>) = Append(Append(g, f), <<>>)
    BY <1>1, ReadField
  <2>2. s \o FieldText(tag, v) = (s \o f) \o <<SOH>>
    BY <1>3, <1>5
  <2> QED
    BY <2>1, <2>2
<1>7. Append(g, f) \in Seq(FreeText) /\ <<>> \in FreeText
  BY AppendProperties, FreeTextFacts
<1>8. Parse(s) = Taken(g)
  <2>1. Taken(Append(g, <<>>)) = TakeField(Taken(g), <<>>)
    BY <1>7, TakenFacts
  <2> QED
    BY <1>1, <2>1, ParseFacts, TakeEmpty
<1>9. Parse(s \o FieldText(tag, v)) = TakeField(Taken(g), f)
  <2>1. Taken(Append(Append(g, f), <<>>)) = TakeField(Taken(Append(g, f)), <<>>)
    BY <1>7, TakenFacts
  <2>2. Taken(Append(g, f)) = TakeField(Taken(g), f)
    BY TakenFacts
  <2> QED
    BY <1>6, <2>1, <2>2, ParseFacts, TakeEmpty
<1>10. TakeField(Taken(g), f) = SetTagValue(Taken(g), tag, v)
  <2>1. Taken(g) \in Messages
    BY TakenFacts
  <2> QED
    BY <1>2, <2>1, TakeWritten
<1> QED
  BY <1>3, <1>5, <1>6, <1>7, <1>8, <1>9, <1>10 DEF Ended

-----------------------------------------------------------------------------
(* Sums                                                                     *)

SumStep == [n \in Int |-> [c \in Chars |-> n + c]]

LEMMA CharIsInt == \A c \in Chars : c \in Int
BY DEF Chars

LEMMA SumStepType == Step(Chars, Int, 0, SumStep)
BY CharIsInt DEF Step, SumStep

LEMMA SumRun ==
  ASSUME NEW s \in Seq(Chars)
  PROVE  CharSum(s) = Run(Int, 0, SumStep, s)
<1> DEFINE rhs(it) == [a \in SUBSET DOMAIN s |->
                         IF a = {} THEN 0 ELSE it[a \ {Max(a)}] + s[Max(a)]]
<1>1. Entries(Chars, s)
  BY FoldDomain
<1>2. PICK i0 : Solves(Int, 0, SumStep, s, Len(s), i0)
  BY SumStepType, FoldSolvable DEF Solvable
<1>3. CharSum(s) = (CHOOSE i : i = rhs(i))[DOMAIN s]
  BY DEF CharSum, FoldLeft, MapThenFoldSet
<1>4. \A n \in Int : \A c \in Chars : SumStep[n][c] = n + c
  BY DEF SumStep
<1>5. i0 = rhs(i0)
  <2>1. \A a \in SUBSET DOMAIN s : i0[a] = rhs(i0)[a]
    <3>1. i0[{}] = 0 /\ \A a \in SUBSET DOMAIN s : i0[a] \in Int
      BY <1>1, <1>2 DEF Entries, Solves
    <3>2. \A a \in SUBSET DOMAIN s : a # {} => i0[a] = i0[a \ {Max(a)}] + s[Max(a)]
      BY <1>1, <1>2, <1>4, <3>1 DEF Entries, Solves
    <3> QED
      BY <3>1, <3>2
  <2>2. i0 = [a \in SUBSET DOMAIN s |-> i0[a]]
    BY <1>1, <1>2 DEF Entries, Solves
  <2> QED
    BY <2>1, <2>2
<1>6. PICK it : it = CHOOSE i : i = rhs(i)
  OBVIOUS
<1>7. it = rhs(it)
  <2> HIDE DEF rhs
  <2> QED
    BY <1>5, <1>6
<1>8. \A a \in SUBSET DOMAIN s :
        it[a] = IF a = {} THEN 0 ELSE it[a \ {Max(a)}] + s[Max(a)]
  BY <1>7
<1>9. Chain(Int, 0, SumStep, s, it)
  <2>1. it[{}] = 0
    BY <1>1, <1>8 DEF Entries
  <2>2. ASSUME NEW k \in 1 .. Len(s), it[1 .. k - 1] \in Int
        PROVE  it[1 .. k] = SumStep[it[1 .. k - 1]][s[k]]
    <3>1. it[1 .. k] = it[1 .. k - 1] + s[k]
      BY <1>1, <1>8 DEF Entries
    <3> QED
      BY <1>1, <1>4, <2>2, <3>1 DEF Entries
  <2> QED
    BY <2>1, <2>2 DEF Chain
<1>10. it[DOMAIN s] = Run(Int, 0, SumStep, s)
  BY <1>9, SumStepType, SolutionIsRun
<1> QED
  BY <1>3, <1>6, <1>10

LEMMA SumFacts ==
  /\ CharSum(<<>>) = 0
  /\ \A s \in Seq(Chars) : CharSum(s) \in Int
  /\ \A s \in Seq(Chars) : \A c \in Chars : CharSum(Append(s, c)) = CharSum(s) + c
<1>1. \A n \in Int : \A c \in Chars : SumStep[n][c] = n + c
  BY DEF SumStep
<1>2. /\ Run(Int, 0, SumStep, <<>>) = 0
      /\ \A s \in Seq(Chars) : Run(Int, 0, SumStep, s) \in Int
      /\ \A s \in Seq(Chars) : \A c \in Chars :
           Run(Int, 0, SumStep, Append(s, c)) = SumStep[Run(Int, 0, SumStep, s)][c]
  BY SumStepType, RunFacts
<1>3. /\ <<>> \in Seq(Chars)
      /\ \A s \in Seq(Chars) : \A c \in Chars : Append(s, c) \in Seq(Chars)
  BY EmptySeq, AppendProperties
<1>4. \A s \in Seq(Chars) : CharSum(s) = Run(Int, 0, SumStep, s)
  BY SumRun
<1>5. CharSum(<<>>) = 0
  BY <1>2, <1>3, <1>4
<1>6. \A s \in Seq(Chars) : CharSum(s) \in Int
  BY <1>2, <1>4
<1>7. ASSUME NEW s \in Seq(Chars), NEW c \in Chars
      PROVE  CharSum(Append(s, c)) = CharSum(s) + c
  <2>1. CharSum(Append(s, c)) = SumStep[Run(Int, 0, SumStep, s)][c]
    BY <1>2, <1>3, <1>4
  <2>2. CharSum(s) = Run(Int, 0, SumStep, s) /\ CharSum(s) \in Int
    BY <1>4, <1>6
  <2> QED
    BY <1>1, <2>1, <2>2
<1> QED
  BY <1>5, <1>6, <1>7

(* The sum as the receiver forms it, byte by byte and modulo 256.           *)
LowChars == 0 .. 127
ByteSum(s) == FoldLeft(LAMBDA n, c : (n + c) % 256, 0, s)
AddByte(n, c) == (n + c) % 256
ByteStep == [n \in 0 .. 255 |-> [c \in LowChars |-> AddByte(n, c)]]

LEMMA ByteStepType == Step(LowChars, 0 .. 255, 0, ByteStep)
<1> DEFINE X == 0 .. 255
<1>1. \A n \in X : \A c \in LowChars : AddByte(n, c) \in X
  BY DEF LowChars, AddByte
<1>2. ByteStep = [n \in X |-> [c \in LowChars |-> AddByte(n, c)]] /\ 0 \in X
  BY DEF ByteStep
<1> HIDE DEF X
<1>3. ByteStep \in [X -> [LowChars -> X]]
  BY <1>1, <1>2
<1>4. Step(LowChars, X, 0, ByteStep)
  BY <1>2, <1>3 DEF Step
<1> QED
  BY <1>4 DEF X

LEMMA ByteRun ==
  ASSUME NEW s \in Seq(LowChars)
  PROVE  ByteSum(s) = Run(0 .. 255, 0, ByteStep, s)
<1> DEFINE rhs(it) == [a \in SUBSET DOMAIN s |->
                         IF a = {} THEN 0 ELSE AddByte(it[a \ {Max(a)}], s[Max(a)])]
           X == 0 .. 255
<1>1. Entries(LowChars, s)
  BY FoldDomain
<1>2. PICK i0 : Solves(X, 0, ByteStep, s, Len(s), i0)
  BY ByteStepType, FoldSolvable DEF Solvable
<1>3. ByteSum(s) = (CHOOSE i : i = rhs(i))[DOMAIN s]
  BY DEF ByteSum, AddByte, FoldLeft, MapThenFoldSet
<1>4. \A n \in X : \A c \in LowChars : ByteStep[n][c] = AddByte(n, c)
  BY DEF ByteStep
<1> HIDE DEF X
<1>5. i0 = rhs(i0)
  <2>1. \A a \in SUBSET DOMAIN s : i0[a] = rhs(i0)[a]
    <3>1. i0[{}] = 0 /\ \A a \in SUBSET DOMAIN s : i0[a] \in X
      BY <1>1, <1>2 DEF Entries, Solves
    <3>2. \A a \in SUBSET DOMAIN s :
            a # {} => i0[a] = AddByte(i0[a \ {Max(a)}], s[Max(a)])
      BY <1>1, <1>2, <1>4, <3>1 DEF Entries, Solves
    <3> QED
      BY <3>1, <3>2
  <2>2. i0 = [a \in SUBSET DOMAIN s |-> i0[a]]
    BY <1>1, <1>2 DEF Entries, Solves
  <2> QED
    BY <2>1, <2>2
<1>6. PICK it : it = CHOOSE i : i = rhs(i)
  OBVIOUS
<1>7. it = rhs(it)
  <2> HIDE DEF rhs
  <2> QED
    BY <1>5, <1>6
<1>8. \A a \in SUBSET DOMAIN s :
        it[a] = IF a = {} THEN 0 ELSE AddByte(it[a \ {Max(a)}], s[Max(a)])
  BY <1>7
<1>9. Chain(X, 0, ByteStep, s, it)
  <2>1. it[{}] = 0
    BY <1>1, <1>8 DEF Entries
  <2>2. ASSUME NEW k \in 1 .. Len(s), it[1 .. k - 1] \in X
        PROVE  it[1 .. k] = ByteStep[it[1 .. k - 1]][s[k]]
    <3>1. it[1 .. k] = AddByte(it[1 .. k - 1], s[k])
      BY <1>1, <1>8 DEF Entries
    <3> QED
      BY <1>1, <1>4, <2>2, <3>1 DEF Entries
  <2> QED
    BY <2>1, <2>2 DEF Chain
<1>10. it[DOMAIN s] = Run(X, 0, ByteStep, s)
  BY <1>9, ByteStepType, SolutionIsRun DEF X
<1> QED
  BY <1>3, <1>6, <1>10 DEF X

LEMMA ByteFacts ==
  /\ ByteSum(<<>>) = 0
  /\ \A s \in Seq(LowChars) : \A c \in LowChars :
       ByteSum(Append(s, c)) = (ByteSum(s) + c) % 256
<1> DEFINE X == 0 .. 255
<1>1. \A n \in X : \A c \in LowChars : ByteStep[n][c] = AddByte(n, c)
  BY DEF ByteStep
<1>2. Step(LowChars, X, 0, ByteStep)
  BY ByteStepType
<1>3. \A s \in Seq(LowChars) : ByteSum(s) = Run(X, 0, ByteStep, s)
  BY ByteRun
<1> HIDE DEF X
<1>4. /\ Run(X, 0, ByteStep, <<>>) = 0
      /\ \A s \in Seq(LowChars) : Run(X, 0, ByteStep, s) \in X
      /\ \A s \in Seq(LowChars) : \A c \in LowChars :
           Run(X, 0, ByteStep, Append(s, c)) = ByteStep[Run(X, 0, ByteStep, s)][c]
  BY <1>2, RunFacts
<1>5. /\ <<>> \in Seq(LowChars)
      /\ \A s \in Seq(LowChars) : \A c \in LowChars : Append(s, c) \in Seq(LowChars)
  BY EmptySeq, AppendProperties
<1>6. ByteSum(<<>>) = 0
  BY <1>3, <1>4, <1>5
<1>7. ASSUME NEW s \in Seq(LowChars), NEW c \in LowChars
      PROVE  ByteSum(Append(s, c)) = (ByteSum(s) + c) % 256
  <2>1. ByteSum(Append(s, c)) = ByteStep[Run(X, 0, ByteStep, s)][c]
    BY <1>3, <1>4, <1>5
  <2>2. ByteSum(s) = Run(X, 0, ByteStep, s) /\ ByteSum(s) \in X
    BY <1>3, <1>4
  <2> QED
    BY <1>1, <2>1, <2>2 DEF AddByte
<1> QED
  BY <1>6, <1>7

(* The remainder the hub computes at the end is the one the receiver        *)
(* computes on the way.                                                     *)
LEMMA SumsAgree ==
  \A s \in Seq(LowChars) :
    CharSum(s) \in Nat /\ ByteSum(s) = CharSum(s) % 256
<1> DEFINE S == {s \in Seq(LowChars) : CharSum(s) \in Nat /\ ByteSum(s) = CharSum(s) % 256}
<1>1. <<>> \in S
  <2>1. <<>> \in Seq(LowChars)
    BY EmptySeq
  <2>2. CharSum(<<>>) = 0 /\ ByteSum(<<>>) = 0 /\ 0 % 256 = 0
    BY SumFacts, ByteFacts
  <2> QED
    BY <2>1, <2>2
<1>2. ASSUME NEW s \in S, NEW c \in LowChars PROVE Append(s, c) \in S
  <2>1. s \in Seq(LowChars) /\ Append(s, c) \in Seq(LowChars) /\ s \in Seq(Chars)
    <3>1. LowChars \subseteq Chars
      BY DEF LowChars, Chars
    <3> QED
      BY <3>1, SeqMonotonic, AppendProperties
  <2>2. c \in Chars /\ c \in Nat
    BY DEF LowChars, Chars
  <2>3. CharSum(Append(s, c)) = CharSum(s) + c
    BY <2>1, <2>2, SumFacts
  <2>4. ByteSum(Append(s, c)) = (ByteSum(s) + c) % 256
    BY <2>1, ByteFacts
  <2>5. PICK n \in Nat : n = CharSum(s)
    OBVIOUS
  <2>6. ByteSum(s) = n % 256
    BY <2>5
  <2>7. ((n % 256) + c) % 256 = (n + c) % 256 /\ n + c \in Nat
    BY <2>2
  <2>8. CharSum(Append(s, c)) = n + c
    BY <2>3, <2>5
  <2>9. ByteSum(Append(s, c)) = (n + c) % 256
    BY <2>4, <2>6, <2>7
  <2> QED
    BY <2>1, <2>7, <2>8, <2>9
<1>3. S = Seq(LowChars)
  <2>1. S \in SUBSET Seq(LowChars)
    OBVIOUS
  <2> HIDE DEF S
  <2> QED
    BY <1>1, <1>2, <2>1, FromAppend
<1> QED
  BY <1>3

-----------------------------------------------------------------------------
(* The order of a std::map                                                  *)

LEMMA TagsAreFinite ==
  ASSUME NEW S \in SUBSET Ints
  PROVE  S \subseteq Int /\ IsFiniteSet(S) /\ Cardinality(S) \in Nat
<1>1. -MaxInt - 1 \in Int /\ MaxInt \in Int
  BY CodecAssumption
<1>2. IsFiniteSet(Ints)
  BY <1>1, FS_Interval DEF Ints
<1>3. IsFiniteSet(S)
  BY <1>2, FS_Subset
<1>4. \A k \in Ints : k \in Int
  BY <1>1 DEF Ints
<1> QED
  BY <1>3, <1>4, FS_CardinalityType

(* The tags below t, and their number: the place of t.                      *)
Below(S, t) == {u \in S : u < t}
Place(S, t) == Cardinality(Below(S, t))

LEMMA PlaceType ==
  ASSUME NEW S \in SUBSET Ints, NEW t \in S
  PROVE  IsFiniteSet(Below(S, t)) /\ Place(S, t) \in 0 .. Cardinality(S) - 1
<1>1. S \subseteq Int /\ IsFiniteSet(S) /\ Cardinality(S) \in Nat
  BY TagsAreFinite
<1>2. Below(S, t) \in SUBSET S /\ t \notin Below(S, t)
  BY <1>1 DEF Below
<1>3. /\ IsFiniteSet(Below(S, t)) /\ Place(S, t) <= Cardinality(S)
      /\ Place(S, t) # Cardinality(S)
  BY <1>1, <1>2, FS_Subset DEF Place
<1>4. Place(S, t) \in Nat
  BY <1>3, FS_CardinalityType DEF Place
<1> QED
  BY <1>1, <1>3, <1>4

LEMMA PlacesDiffer ==
  ASSUME NEW S \in SUBSET Ints, NEW t \in S, NEW v \in S, Place(S, t) = Place(S, v)
  PROVE  t = v
<1>1. S \subseteq Int
  BY TagsAreFinite
<1>2. ASSUME NEW a \in S, NEW b \in S, a < b PROVE Place(S, a) # Place(S, b)
  <2>1. IsFiniteSet(Below(S, b))
    BY PlaceType
  <2>2. /\ Below(S, a) \in SUBSET Below(S, b)
        /\ a \in Below(S, b) /\ a \notin Below(S, a)
    <3>1. a \in Int /\ b \in Int /\ ~(a < a)
      BY <1>1
    <3>2. \A u \in S : u < a => u < b
      BY <1>1, <1>2, <3>1
    <3> QED
      BY <1>2, <3>1, <3>2 DEF Below
  <2> QED
    BY <2>1, <2>2, FS_Subset DEF Place
<1>3. t < v \/ v < t \/ t = v
  BY <1>1
<1> QED
  BY <1>2, <1>3

LEMMA PlacesAreTaken ==
  ASSUME NEW S \in SUBSET Ints, NEW k \in 0 .. Cardinality(S) - 1
  PROVE  \E t \in S : Place(S, t) = k
<1> DEFINE place == [t \in S |-> Place(S, t)]
           Places == 0 .. Cardinality(S) - 1
<1>1. IsFiniteSet(S) /\ Cardinality(S) \in Nat
  BY TagsAreFinite
<1>2. place \in [S -> Places]
  BY PlaceType
<1>3. ASSUME NEW t \in S, NEW v \in S, place[t] = place[v]
      PROVE  t = v
  BY <1>3, PlacesDiffer
<1>4. place \in Injection(S, Places)
  BY <1>2, <1>3 DEF Injection, IsInjective
<1>5. 0 \in Int /\ Cardinality(S) - 1 \in Int
  BY <1>1
<1>6. IsFiniteSet(Places) /\ Cardinality(Places) = Cardinality(S)
  BY <1>1, <1>5, FS_Interval
<1>7. place \in Surjection(S, Places)
  BY <1>4, <1>6, FS_Injection
<1> QED
  BY <1>7 DEF Surjection

(* The iteration visits every tag.                                          *)
LEMMA InOrderVisits ==
  ASSUME NEW S \in SUBSET Ints
  PROVE  /\ Cardinality(S) \in Nat
         /\ InOrder(S) \in [1 .. Cardinality(S) -> S]
         /\ \A t \in S : \E i \in 1 .. Cardinality(S) : InOrder(S)[i] = t
<1> DEFINE n == Cardinality(S)
<1>1. n \in Nat
  BY TagsAreFinite
<1>2. ASSUME NEW i \in 1 .. n
      PROVE  InOrder(S)[i] \in S /\ Place(S, InOrder(S)[i]) = i - 1
  <2>1. i - 1 \in 0 .. n - 1
    BY <1>1
  <2>2. \E t \in S : Place(S, t) = i - 1
    BY <2>1, PlacesAreTaken
  <2>3. InOrder(S)[i] = CHOOSE t \in S : Place(S, t) = i - 1
    BY DEF InOrder, Place, Below
  <2> QED
    BY <2>2, <2>3
<1>3. InOrder(S) \in [1 .. n -> S]
  BY <1>2 DEF InOrder
<1>4. ASSUME NEW t \in S PROVE \E i \in 1 .. n : InOrder(S)[i] = t
  <2>1. PICK k \in 0 .. n - 1 : k = Place(S, t)
    BY PlaceType
  <2>2. k + 1 \in 1 .. n /\ (k + 1) - 1 = k
    BY <1>1
  <2>3. InOrder(S)[k + 1] \in S /\ Place(S, InOrder(S)[k + 1]) = Place(S, t)
    BY <1>2, <2>1, <2>2
  <2>4. InOrder(S)[k + 1] = t
    BY <2>3, PlacesDiffer
  <2> QED
    BY <2>2, <2>4
<1> QED
  BY <1>1, <1>3, <1>4

-----------------------------------------------------------------------------
(* Serializing                                                              *)

Joined == [a \in Seq(Chars) |-> [b \in Seq(Chars) |-> a \o b]]

LEMMA JoinedType == Step(Seq(Chars), Seq(Chars), <<>>, Joined)
<1>1. <<>> \in Seq(Chars) /\ \A a \in Seq(Chars) : \A b \in Seq(Chars) : a \o b \in Seq(Chars)
  BY EmptySeq, ConcatProperties
<1> QED
  BY <1>1 DEF Step, Joined

(* Flattening joins one sequence after another.                             *)
LEMMA FlattenJoins ==
  ASSUME NEW s \in Seq(Seq(Chars)), NEW p, Partial(Seq(Chars), <<>>, Joined, s, p)
  PROVE  FlattenSeq(s) = p[Len(s)]
<1>1. /\ Len(s) \in Nat /\ \A i \in 1 .. Len(s) : s[i] \in Seq(Chars)
  BY LenProperties, ElementOfSeq
<1>2. /\ p[0] = <<>> /\ \A k \in 0 .. Len(s) : p[k] \in Seq(Chars)
      /\ \A k \in 1 .. Len(s) : p[k] = p[k - 1] \o s[k]
  <2>1. \A k \in 0 .. Len(s) : p[k] \in Seq(Chars)
    BY DEF Partial
  <2>2. ASSUME NEW k \in 1 .. Len(s) PROVE p[k] = p[k - 1] \o s[k]
    <3>1. k - 1 \in 0 .. Len(s)
      BY <1>1
    <3>2. p[k - 1] \in Seq(Chars) /\ s[k] \in Seq(Chars)
      BY <1>1, <2>1, <3>1
    <3>3. p[k] = Joined[p[k - 1]][s[k]]
      BY DEF Partial
    <3> QED
      BY <3>2, <3>3 DEF Joined
  <2> QED
    BY <2>1, <2>2 DEF Partial
<1>3. CASE Len(s) = 0
  <2>1. s = <<>>
    BY <1>3, EmptySeq
  <2> QED
    BY <1>2, <1>3, <2>1 DEF FlattenSeq
<1>4. CASE Len(s) # 0
  <2> DEFINE rhs(it) == [i \in 1 .. Len(s) |-> IF i = 1 THEN s[i] ELSE it[i - 1] \o s[i]]
             q == [i \in 1 .. Len(s) |-> p[i]]
  <2>1. FlattenSeq(s) = (CHOOSE it : it = rhs(it))[Len(s)]
    BY <1>4 DEF FlattenSeq
  <2>2. p[0] \o s[1] = s[1] /\ 1 \in 1 .. Len(s) /\ 1 - 1 = 0
    BY <1>1, <1>2, <1>4, ConcatEmptySeq
  <2>3. q = rhs(q)
    <3>1. ASSUME NEW i \in 1 .. Len(s) PROVE q[i] = rhs(q)[i]
      <4>1. CASE i = 1
        BY <1>2, <2>2, <4>1
      <4>2. CASE i # 1
        <5>1. i - 1 \in 1 .. Len(s)
          BY <1>1, <4>2
        <5> QED
          BY <1>2, <4>2, <5>1
      <4> QED
        BY <4>1, <4>2
    <3> QED
      BY <3>1
  <2>4. PICK it : it = CHOOSE i : i = rhs(i)
    OBVIOUS
  <2>5. it = rhs(it)
    <3> HIDE DEF rhs, q
    <3> QED
      BY <2>3, <2>4
  <2>6. \A i \in 1 .. Len(s) : it[i] = IF i = 1 THEN s[i] ELSE it[i - 1] \o s[i]
    BY <2>5
  <2> DEFINE P == {n \in Nat : n \in 1 .. Len(s) => it[n] = p[n]}
  <2>7. 0 \in P
    BY <1>1
  <2>8. ASSUME NEW n \in P PROVE n + 1 \in P
    <3> SUFFICES ASSUME n + 1 \in 1 .. Len(s) PROVE it[n + 1] = p[n + 1]
      OBVIOUS
    <3>0. n \in Nat /\ Len(s) \in Nat
      BY <1>1
    <3>1. CASE n = 0
      <4>1. n + 1 = 1
        BY <3>1
      <4>2. it[1] = s[1] /\ p[1] = p[0] \o s[1]
        BY <1>2, <2>2, <2>6
      <4> QED
        BY <2>2, <4>1, <4>2
    <3>2. CASE n # 0
      <4>1. (n + 1) - 1 = n /\ n + 1 # 1
        BY <3>0, <3>2
      <4>2. n \in 1 .. Len(s)
        BY <3>0, <3>2
      <4>3. it[n] = p[n]
        BY <4>2
      <4>4. it[n + 1] = it[n] \o s[n + 1]
        BY <2>6, <4>1
      <4>5. p[n + 1] = p[n] \o s[n + 1]
        BY <1>2, <4>1
      <4> QED
        BY <4>3, <4>4, <4>5
    <3> QED
      BY <3>1, <3>2
  <2>9. P = Nat
    <3>1. P \in SUBSET Nat
      OBVIOUS
    <3> HIDE DEF P
    <3> QED
      BY <2>7, <2>8, <3>1, FromOneBelow
  <2>10. it[Len(s)] = p[Len(s)]
    <3>1. Len(s) \in P /\ Len(s) \in 1 .. Len(s)
      BY <1>1, <1>4, <2>9
    <3> QED
      BY <3>1
  <2> HIDE DEF rhs
  <2> QED
    BY <2>1, <2>4, <2>10
<1> QED
  BY <1>3, <1>4

(* The texts of numbers have no SOH.                                        *)
LEMMA IntTextIsFree ==
  ASSUME NEW n \in Int
  PROVE  IntText(n) \in FreeText
<1>1. DigitChars \subseteq FreeChars /\ Minus \in FreeChars
  BY DEF DigitChars, FreeChars, Chars, Zero, Minus, SOH
<1>2. Seq(DigitChars) \subseteq Seq(FreeChars)
  BY <1>1, SeqMonotonic
<1>3. CASE n >= 0
  <2>1. n \in Nat /\ IntText(n) = NatText[n]
    BY <1>3 DEF IntText
  <2> QED
    BY <1>2, <2>1, NatTextFacts DEF FreeText
<1>4. CASE n < 0
  <2>1. -n \in Nat /\ IntText(n) = <<Minus>> \o NatText[-n]
    BY <1>4 DEF IntText
  <2>2. NatText[-n] \in Seq(FreeChars)
    BY <1>2, <2>1, NatTextFacts
  <2>3. <<Minus>> \o NatText[-n] \in Seq(FreeChars)
    BY <1>1, <2>2
  <2> QED
    BY <2>1, <2>3 DEF FreeText
<1> QED
  BY <1>3, <1>4

LEMMA PaddedIsFree ==
  ASSUME NEW v \in FreeText
  PROVE  Padded(v) \in FreeText
<1>1. Zero \in FreeChars
  BY DEF Zero, FreeChars, Chars, SOH
<1>2. Len(v) \in Nat /\ v \in Seq(FreeChars)
  BY LenProperties DEF FreeText
<1>3. PICK z : z = [i \in 1 .. 3 - Len(v) |-> Zero]
  OBVIOUS
<1>4. z \in Seq(FreeChars)
  <2>1. CASE 3 - Len(v) \in Nat
    <3>1. z \in [1 .. 3 - Len(v) -> FreeChars]
      BY <1>1, <1>3
    <3> QED
      BY <2>1, <3>1, SeqDef
  <2>2. CASE 3 - Len(v) \notin Nat
    <3>1. 1 .. 3 - Len(v) = 1 .. 0
      BY <1>2, <2>2
    <3>2. z \in [1 .. 0 -> FreeChars]
      BY <1>1, <1>3, <3>1
    <3> QED
      BY <3>2, SeqDef
  <2> QED
    BY <2>1, <2>2
<1>5. z \o v \in Seq(FreeChars)
  BY <1>2, <1>4, ConcatProperties
<1> QED
  BY <1>3, <1>5 DEF Padded, FreeText

LEMMA RemainderIsInt ==
  ASSUME NEW n \in Int
  PROVE  Remainder(n, 256) \in Int
<1>1. CASE n < 0
  BY <1>1 DEF Remainder
<1>2. CASE ~(n < 0)
  BY <1>2 DEF Remainder
<1> QED
  BY <1>1, <1>2

LEMMA FieldTextType ==
  ASSUME NEW tag \in Ints, NEW v \in FreeText
  PROVE  FieldText(tag, v) \in Seq(Chars)
<1>1. IntText(tag) \in Seq(Chars) /\ v \in Seq(Chars)
  BY IntTextFacts, FreeTextFacts
<1>2. <<Equals>> \in Seq(Chars) /\ <<SOH>> \in Seq(Chars)
  BY DEF Equals, SOH, Chars
<1>3. IntText(tag) \o <<Equals>> \in Seq(Chars)
  BY <1>1, <1>2, ConcatProperties
<1>4. (IntText(tag) \o <<Equals>>) \o v \in Seq(Chars)
  BY <1>1, <1>3, ConcatProperties
<1> QED
  BY <1>2, <1>4, ConcatProperties DEF FieldText

(* f with the fields of m that S names.                                     *)
Over(f, m, S) == [t \in DOMAIN f \cup S |-> IF t \in S THEN m[t] ELSE f[t]]

LEMMA OverNext ==
  ASSUME NEW f, NEW m, NEW S, NEW t
  PROVE  SetTagValue(Over(f, m, S), t, m[t]) = Over(f, m, S \cup {t})
  BY DEF SetTagValue, Over

LEMMA OverNone ==
  ASSUME NEW f \in Messages, NEW m
  PROVE  Over(f, m, {}) = f
<1>1. f = [t \in DOMAIN f |-> f[t]]
  BY MessageIs
<1> QED
  BY <1>1 DEF Over

(* A body that is appended to fields is read behind them.                   *)
LEMMA BodyIsRead ==
  ASSUME NEW m \in Messages, NEW b \in Seq(Chars), Ended(b)
  PROVE  /\ Body(m) \in Seq(Chars)
         /\ Ended(b \o Body(m))
         /\ Parse(b \o Body(m)) = Over(Parse(b), m, DOMAIN m \ Header)
<1>1. PICK S \in SUBSET Ints : S = DOMAIN m \ Header
  BY MessageIs
<1>2. PICK o : o = InOrder(S)
  OBVIOUS
<1>3. PICK n \in Nat : n = Cardinality(S)
  BY InOrderVisits
<1>4. o \in [1 .. n -> S] /\ \A t \in S : \E i \in 1 .. n : o[i] = t
  BY <1>2, <1>3, InOrderVisits
<1>5. PICK q : q = [i \in 1 .. n |-> FieldText(o[i], m[o[i]])]
  OBVIOUS
<1>6. \A i \in 1 .. n : o[i] \in Ints /\ m[o[i]] \in FreeText
  BY <1>1, <1>4, MessageIs
<1>7. q \in Seq(Seq(Chars)) /\ Len(q) = n
  <2>1. \A i \in 1 .. n : q[i] \in Seq(Chars)
    BY <1>5, <1>6, FieldTextType
  <2>2. q \in [1 .. n -> Seq(Chars)]
    BY <1>5, <2>1
  <2> QED
    BY <2>2, SeqDef, LenProperties
<1>8. PICK p : Partial(Seq(Chars), <<>>, Joined, q, p)
  BY <1>7, JoinedType, PartialExists
<1>9. Body(m) = p[n]
  <2>1. FlattenSeq(q) = p[n]
    BY <1>7, <1>8, FlattenJoins
  <2>2. Body(m) = FlattenSeq([i \in DOMAIN o |-> FieldText(o[i], m[o[i]])])
    BY <1>1, <1>2 DEF Body
  <2>3. DOMAIN o = 1 .. n
    BY <1>4
  <2> QED
    BY <1>5, <2>1, <2>2, <2>3
<1>10. /\ p[0] = <<>> /\ \A k \in 0 .. n : p[k] \in Seq(Chars)
       /\ \A k \in 1 .. n : p[k] = p[k - 1] \o FieldText(o[k], m[o[k]])
  <2>1. \A k \in 0 .. n : p[k] \in Seq(Chars)
    BY <1>7, <1>8 DEF Partial
  <2>2. ASSUME NEW k \in 1 .. n PROVE p[k] = p[k - 1] \o FieldText(o[k], m[o[k]])
    <3>1. k - 1 \in 0 .. n
      BY <1>3
    <3>2. p[k - 1] \in Seq(Chars) /\ q[k] \in Seq(Chars)
      BY <1>7, <2>1, <3>1, ElementOfSeq
    <3>3. p[k] = Joined[p[k - 1]][q[k]]
      BY <1>7, <1>8 DEF Partial
    <3>4. p[k] = p[k - 1] \o q[k]
      BY <3>2, <3>3 DEF Joined
    <3> QED
      BY <1>5, <3>4
  <2> QED
    BY <1>8, <2>1, <2>2 DEF Partial
<1> DEFINE Sofar(k) == {o[i] : i \in 1 .. k}
           Good(k) == /\ Ended(b \o p[k])
                      /\ Parse(b \o p[k]) = Over(Parse(b), m, Sofar(k))
           P == {k \in Nat : k \in 0 .. n => Good(k)}
<1>11. 0 \in P
  <2>1. b \o p[0] = b
    BY <1>10, ConcatEmptySeq
  <2>2. Sofar(0) = {}
    OBVIOUS
  <2>3. Over(Parse(b), m, Sofar(0)) = Parse(b)
    BY <2>2, ParseFacts, OverNone
  <2> QED
    BY <2>1, <2>3
<1>12. ASSUME NEW k \in P PROVE k + 1 \in P
  <2> SUFFICES ASSUME k + 1 \in 0 .. n PROVE Good(k + 1)
    OBVIOUS
  <2>1. k \in Nat /\ k \in 0 .. n /\ k + 1 \in 1 .. n /\ (k + 1) - 1 = k
    BY <1>3
  <2>2. PICK t \in Ints : t = o[k + 1]
    BY <1>6, <2>1
  <2>3. m[t] \in FreeText
    BY <1>6, <2>1, <2>2
  <2>4. p[k + 1] = p[k] \o FieldText(t, m[t])
    BY <1>10, <2>1, <2>2
  <2>5. p[k] \in Seq(Chars) /\ FieldText(t, m[t]) \in Seq(Chars)
    BY <1>10, <2>1, <2>3, FieldTextType
  <2>6. b \o p[k + 1] = (b \o p[k]) \o FieldText(t, m[t]) /\ b \o p[k] \in Seq(Chars)
    <3>1. PICK u \in Seq(Chars) : u = p[k]
      BY <2>5
    <3>2. PICK w \in Seq(Chars) : w = FieldText(t, m[t])
      BY <2>5
    <3>3. (b \o u) \o w = b \o (u \o w) /\ b \o u \in Seq(Chars)
      BY ConcatProperties, ConcatAssociative
    <3> QED
      BY <2>4, <3>1, <3>2, <3>3
  <2>7. Ended(b \o p[k]) /\ Parse(b \o p[k]) = Over(Parse(b), m, Sofar(k))
    BY <2>1
  <2>8. PICK c \in Seq(Chars) : c = b \o p[k]
    BY <2>6
  <2>9. /\ Ended(c \o FieldText(t, m[t]))
        /\ Parse(c \o FieldText(t, m[t])) = SetTagValue(Parse(c), t, m[t])
    BY <2>3, <2>7, <2>8, ParseField
  <2>10. SetTagValue(Parse(c), t, m[t]) = Over(Parse(b), m, Sofar(k) \cup {t})
    <3>1. PICK A : A = Sofar(k)
      OBVIOUS
    <3>2. SetTagValue(Over(Parse(b), m, A), t, m[t]) = Over(Parse(b), m, A \cup {t})
      BY OverNext
    <3>3. Parse(c) = Over(Parse(b), m, A)
      BY <2>7, <2>8, <3>1
    <3> QED
      BY <3>1, <3>2, <3>3
  <2>11. Sofar(k) \cup {t} = Sofar(k + 1)
    <3>1. 1 .. k + 1 = (1 .. k) \cup {k + 1}
      BY <2>1
    <3> QED
      BY <2>2, <3>1
  <2> QED
    BY <2>6, <2>8, <2>9, <2>10, <2>11
<1>13. P = Nat
  <2>1. P \in SUBSET Nat
    OBVIOUS
  <2> HIDE DEF P
  <2> QED
    BY <1>11, <1>12, <2>1, FromOneBelow
<1>14. Good(n)
  <2>1. n \in P /\ n \in 0 .. n
    BY <1>3, <1>13
  <2> QED
    BY <2>1
<1>15. Sofar(n) = S
  BY <1>4
<1> QED
  <2>1. n \in 0 .. n
    BY <1>3
  <2>2. p[n] \in Seq(Chars)
    BY <1>10, <2>1
  <2>3. Parse(b \o p[n]) = Over(Parse(b), m, S) /\ Ended(b \o p[n])
    BY <1>14, <1>15
  <2> QED
    BY <1>1, <1>9, <2>2, <2>3

LengthText(m) == IntText(Len(Body(m)))
Begin(m)      == FieldText(8, ValueOf(m, 8)) \o FieldText(9, LengthText(m))
CheckText(m)  == Padded(IntText(Remainder(Wrapped(CharSum(Begin(m) \o Body(m))), 256)))

LEMMA SerializeIs ==
  ASSUME NEW m
  PROVE  /\ Serialize(m).text = (Begin(m) \o Body(m)) \o FieldText(10, CheckText(m))
         /\ Serialize(m).fields
              = SetTagValue(SetTagValue(SetTagValue(m, 8, ValueOf(m, 8)), 9, LengthText(m)),
                            10, CheckText(m))
  BY DEF Serialize, LengthText, Begin, CheckText

LEMMA HeaderTags == Header = {8, 9, 10} /\ Header \subseteq Ints
  BY CodecAssumption DEF Header, Ints

(* What a serialized text begins with, and how it is read.                  *)
LEMMA BeginIsRead ==
  ASSUME NEW m \in Messages
  PROVE  /\ ValueOf(m, 8) \in FreeText /\ LengthText(m) \in FreeText
         /\ Body(m) \in Seq(Chars) /\ Begin(m) \in Seq(Chars) /\ Ended(Begin(m))
         /\ Parse(Begin(m))
              = SetTagValue(SetTagValue(NoFields, 8, ValueOf(m, 8)), 9, LengthText(m))
<1>1. ValueOf(m, 8) \in FreeText
  BY MessageIs, FreeTextFacts DEF ValueOf
<1>2. /\ <<>> \in Seq(Chars) /\ Ended(<<>>) /\ Parse(<<>>) = NoFields
  BY EmptySeq, ParseFacts
<1>3. Body(m) \in Seq(Chars)
  BY <1>2, BodyIsRead
<1>4. LengthText(m) \in FreeText
  <2>1. Len(Body(m)) \in Int
    BY <1>3, LenProperties
  <2> QED
    BY <2>1, IntTextIsFree DEF LengthText
<1>5. PICK a : a = FieldText(8, ValueOf(m, 8))
  OBVIOUS
<1>6. a \in Seq(Chars) /\ <<>> \o a = a
  BY <1>1, <1>5, FieldTextType, HeaderTags, ConcatEmptySeq
<1>7. Ended(a) /\ Parse(a) = SetTagValue(NoFields, 8, ValueOf(m, 8))
  <2>1. /\ Ended(<<>> \o FieldText(8, ValueOf(m, 8)))
        /\ Parse(<<>> \o FieldText(8, ValueOf(m, 8)))
             = SetTagValue(Parse(<<>>), 8, ValueOf(m, 8))
    BY <1>1, <1>2, HeaderTags, ParseField
  <2> QED
    BY <1>2, <1>5, <1>6, <2>1
<1>8. /\ a \o FieldText(9, LengthText(m)) \in Seq(Chars)
      /\ Ended(a \o FieldText(9, LengthText(m)))
      /\ Parse(a \o FieldText(9, LengthText(m))) = SetTagValue(Parse(a), 9, LengthText(m))
  BY <1>4, <1>6, <1>7, HeaderTags, ParseField
<1> QED
  BY <1>1, <1>3, <1>4, <1>5, <1>7, <1>8 DEF Begin

(* An int that does not overflow is the number.                             *)
LEMMA WrappedIs ==
  ASSUME NEW n \in Int
  PROVE  /\ Wrapped(n) \in Int
         /\ n \in Ints => Wrapped(n) = n
<1>1. PICK k \in Nat \ {0} : k = MaxInt + 1
  BY CodecAssumption
<1>2. MaxInt \in Nat /\ -MaxInt - 1 = -k /\ MaxInt = k - 1
  BY <1>1, CodecAssumption
<1>3. Wrapped(n) = ((n + k) % (2 * k)) - k
  <2>1. n + MaxInt + 1 = n + k
    BY <1>1, <1>2
  <2> QED
    BY <1>1, <2>1 DEF Wrapped
<1>4. (n + k) % (2 * k) \in Int
  BY <1>1
<1>5. ASSUME n \in Ints PROVE (n + k) % (2 * k) = n + k
  <2>1. -k <= n /\ n <= k - 1
    BY <1>2, <1>5 DEF Ints
  <2>2. PICK a \in Nat, b \in Nat \ {0} : a = n + k /\ b = 2 * k
    BY <1>1, <2>1
  <2>3. a < b
    BY <1>1, <2>1, <2>2
  <2>4. a % b = a
    BY ONLY a \in Nat, b \in Nat \ {0}, a < b
  <2> QED
    BY <2>2, <2>4
<1> QED
  BY <1>1, <1>3, <1>4, <1>5

LEMMA CheckTextIsFree ==
  ASSUME NEW m \in Messages
  PROVE  CheckText(m) \in FreeText
<1>1. Begin(m) \o Body(m) \in Seq(Chars)
  BY BeginIsRead, ConcatProperties
<1>2. Wrapped(CharSum(Begin(m) \o Body(m))) \in Int
  BY <1>1, SumFacts, WrappedIs
<1> QED
  BY <1>2, RemainderIsInt, IntTextIsFree, PaddedIsFree DEF CheckText

(* The fields of the header around those of the body are the message.       *)
LEMMA HeaderAndBody ==
  ASSUME NEW m \in Messages, NEW v8, NEW v9, NEW v10
  PROVE  SetTagValue(Over(SetTagValue(SetTagValue(NoFields, 8, v8), 9, v9), m,
                          DOMAIN m \ Header), 10, v10)
           = SetTagValue(SetTagValue(SetTagValue(m, 8, v8), 9, v9), 10, v10)
<1>1. PICK f : f = SetTagValue(SetTagValue(NoFields, 8, v8), 9, v9)
  OBVIOUS
<1>2. f = [t \in {8, 9} |-> IF t = 9 THEN v9 ELSE v8]
  BY <1>1 DEF SetTagValue, NoFields
<1>3. PICK g : g = Over(f, m, DOMAIN m \ Header)
  OBVIOUS
<1>4. DOMAIN g = (DOMAIN m \ {10}) \cup {8, 9}
  BY <1>2, <1>3, HeaderTags DEF Over
<1>5. \A t \in DOMAIN g : g[t] = IF t = 9 THEN v9 ELSE IF t = 8 THEN v8 ELSE m[t]
  BY <1>2, <1>3, HeaderTags DEF Over
<1>6. PICK h : h = SetTagValue(SetTagValue(m, 8, v8), 9, v9)
  OBVIOUS
<1>7. DOMAIN h = DOMAIN m \cup {8, 9}
  BY <1>6 DEF SetTagValue
<1>8. \A t \in DOMAIN h : h[t] = IF t = 9 THEN v9 ELSE IF t = 8 THEN v8 ELSE m[t]
  BY <1>6 DEF SetTagValue
<1>9. DOMAIN g \cup {10} = DOMAIN h \cup {10}
  BY <1>4, <1>7
<1>10. \A t \in DOMAIN h \cup {10} : t # 10 => g[t] = h[t]
  BY <1>4, <1>5, <1>7, <1>8
<1>11. SetTagValue(g, 10, v10) = SetTagValue(h, 10, v10)
  BY <1>9, <1>10 DEF SetTagValue
<1> QED
  BY <1>1, <1>3, <1>6, <1>11

(* Parsing undoes serializing.                                              *)
LEMMA SerializedIsRead ==
  ASSUME NEW m \in Messages
  PROVE  /\ Serialize(m).text \in Seq(Chars) /\ Serialize(m).fields \in Messages
         /\ Parse(Serialize(m).text) = Serialize(m).fields
<1>1. PICK c \in Seq(Chars) : c = Begin(m) \o Body(m)
  BY BeginIsRead, ConcatProperties
<1>2. /\ Ended(c)
      /\ Parse(c) = Over(Parse(Begin(m)), m, DOMAIN m \ Header)
  BY <1>1, BeginIsRead, BodyIsRead
<1>3. PICK v \in FreeText : v = CheckText(m)
  BY CheckTextIsFree
<1>4. /\ c \o FieldText(10, v) \in Seq(Chars)
      /\ Parse(c \o FieldText(10, v)) = SetTagValue(Parse(c), 10, v)
  BY <1>2, HeaderTags, ParseField
<1>5. SetTagValue(Parse(c), 10, v)
        = SetTagValue(SetTagValue(SetTagValue(m, 8, ValueOf(m, 8)), 9, LengthText(m)), 10, v)
  BY <1>2, BeginIsRead, HeaderAndBody
<1>6. Serialize(m).fields \in Messages
  <2>1. PICK a \in Messages : a = SetTagValue(m, 8, ValueOf(m, 8))
    BY BeginIsRead, HeaderTags, MessageIs
  <2>2. PICK b \in Messages : b = SetTagValue(a, 9, LengthText(m))
    BY BeginIsRead, HeaderTags, MessageIs
  <2>3. SetTagValue(b, 10, v) \in Messages
    BY HeaderTags, MessageIs
  <2> QED
    BY <1>3, <2>1, <2>2, <2>3, SerializeIs
<1> QED
  BY <1>1, <1>3, <1>4, <1>5, <1>6, SerializeIs

-----------------------------------------------------------------------------
(* The tags of a rule                                                       *)

Tags         == Ints \X FreeText
AddTag(m, t) == SetTagValue(m, t[1], t[2])
TagStep      == [m \in Messages |-> [t \in Tags |-> AddTag(m, t)]]
Tagged(m, s) == FoldLeft(LAMBDA f, t : SetTagValue(f, t[1], t[2]), m, s)

LEMMA AddTagType == \A m \in Messages : \A t \in Tags : AddTag(m, t) \in Messages
<1> SUFFICES ASSUME NEW m \in Messages, NEW t \in Tags PROVE AddTag(m, t) \in Messages
  OBVIOUS
<1>1. t[1] \in Ints /\ t[2] \in FreeText
  BY DEF Tags
<1> QED
  BY <1>1, MessageIs DEF AddTag

LEMMA TaggedType ==
  ASSUME NEW m \in Messages, NEW s \in Seq(Tags)
  PROVE  Tagged(m, s) \in Messages
<1> DEFINE rhs(it) == [a \in SUBSET DOMAIN s |->
                         IF a = {} THEN m ELSE AddTag(it[a \ {Max(a)}], s[Max(a)])]
<1>0. Step(Tags, Messages, m, TagStep)
  BY AddTagType DEF Step, TagStep
<1>1. Entries(Tags, s)
  BY FoldDomain
<1>2. PICK i0 : Solves(Messages, m, TagStep, s, Len(s), i0)
  BY <1>0, FoldSolvable DEF Solvable
<1>3. Tagged(m, s) = (CHOOSE i : i = rhs(i))[DOMAIN s]
  BY DEF Tagged, FoldLeft, MapThenFoldSet, AddTag
<1>4. \A f \in Messages : \A t \in Tags : TagStep[f][t] = AddTag(f, t)
  BY DEF TagStep
<1>5. i0 = rhs(i0)
  <2>1. \A a \in SUBSET DOMAIN s : i0[a] = rhs(i0)[a]
    <3>1. i0[{}] = m /\ \A a \in SUBSET DOMAIN s : i0[a] \in Messages
      BY <1>1, <1>2 DEF Entries, Solves
    <3>2. \A a \in SUBSET DOMAIN s : a # {} => i0[a] = AddTag(i0[a \ {Max(a)}], s[Max(a)])
      BY <1>1, <1>2, <1>4, <3>1 DEF Entries, Solves
    <3> QED
      BY <3>1, <3>2
  <2>2. i0 = [a \in SUBSET DOMAIN s |-> i0[a]]
    BY <1>1, <1>2 DEF Entries, Solves
  <2> QED
    BY <2>1, <2>2
<1>6. PICK it : it = CHOOSE i : i = rhs(i)
  OBVIOUS
<1>7. it = rhs(it)
  <2> HIDE DEF rhs
  <2> QED
    BY <1>5, <1>6
<1>8. \A a \in SUBSET DOMAIN s :
        it[a] = IF a = {} THEN m ELSE AddTag(it[a \ {Max(a)}], s[Max(a)])
  BY <1>7
<1>9. Chain(Messages, m, TagStep, s, it)
  <2>1. it[{}] = m
    BY <1>1, <1>8 DEF Entries
  <2>2. ASSUME NEW k \in 1 .. Len(s), it[1 .. k - 1] \in Messages
        PROVE  it[1 .. k] = TagStep[it[1 .. k - 1]][s[k]]
    <3>1. it[1 .. k] = AddTag(it[1 .. k - 1], s[k])
      BY <1>1, <1>8 DEF Entries
    <3> QED
      BY <1>1, <1>4, <2>2, <3>1 DEF Entries
  <2> QED
    BY <2>1, <2>2 DEF Chain
<1>10. it[DOMAIN s] = Run(Messages, m, TagStep, s)
  BY <1>0, <1>9, SolutionIsRun
<1>11. Run(Messages, m, TagStep, s) \in Messages
  BY <1>0, RunFacts
<1> QED
  BY <1>3, <1>6, <1>10, <1>11

-----------------------------------------------------------------------------
(* A message on its way                                                     *)

(* What is on its way is a message, and what is on the wire is serialized.  *)
Travelling ==
  /\ stage \in {"raw", "parsed", "tagged", "serialized", "received"}
  /\ text \in Seq(Chars) /\ fields \in Messages
  /\ Outgoing => \E m \in Messages :
                   text = Serialize(m).text /\ fields = Serialize(m).fields
  /\ stage = "received" => received = Parse(text)

LEMMA TravellingInit == CodecInit => Travelling
BY CodecAssumption, MessageIs DEF CodecInit, Travelling, Outgoing

LEMMA TravellingNext == TagsAreFixText /\ Travelling /\ [CodecNext]_codecVars => Travelling'
<1> SUFFICES ASSUME TagsAreFixText, Travelling, [CodecNext]_codecVars PROVE Travelling'
  OBVIOUS
<1>1. CASE ParseMessage
  BY <1>1, ParseFacts DEF ParseMessage, Travelling, Outgoing
<1>2. CASE SetCustomTags
  <2>1. PICK s \in CustomTags : fields' = Tagged(fields, s)
    BY <1>2 DEF SetCustomTags, Tagged
  <2>2. fields' \in Messages
    BY <2>1, TaggedType DEF Travelling, TagsAreFixText, Tags
  <2> QED
    BY <1>2, <2>2 DEF SetCustomTags, Travelling, Outgoing
<1>3. CASE SerializeMessage
  <2>1. PICK m \in Messages : m = fields
    BY DEF Travelling
  <2>2. text' = Serialize(m).text /\ fields' = Serialize(m).fields /\ stage' = "serialized"
    BY <1>3, <2>1 DEF SerializeMessage
  <2> QED
    BY <2>2, SerializedIsRead DEF Travelling, Outgoing
<1>4. CASE Receive
  BY <1>4 DEF Receive, Travelling, Outgoing
<1>5. CASE Done \/ UNCHANGED codecVars
  BY <1>5 DEF Done, codecVars, Travelling, Outgoing
<1> QED
  BY <1>1, <1>2, <1>3, <1>4, <1>5 DEF CodecNext

LEMMA TravellingAlways == TagsAreFixText /\ CodecSpec => []Travelling
<1> SUFFICES ASSUME TagsAreFixText PROVE CodecSpec => []Travelling
  OBVIOUS
<1>1. CodecInit => Travelling
  BY TravellingInit
<1>2. Travelling /\ [CodecNext]_codecVars => Travelling'
  BY TravellingNext
<1> QED
  BY <1>1, <1>2, PTL DEF CodecSpec

(* For every text that may arrive and every rule whose values have no SOH:  *)
(* what serializeFixMessage writes, parseFixMessage reads back as it was    *)
(* (FixServer.cpp:249-304).                                                 *)
THEOREM SerializingKeepsFields == TagsAreFixText /\ CodecSpec => []ReadBackAsWritten
<1>1. Travelling => ReadBackAsWritten
  BY SerializedIsRead DEF Travelling, Outgoing, ReadBackAsWritten
<1> QED
  BY <1>1, TravellingAlways, PTL

-----------------------------------------------------------------------------
(* What the receiver can check                                              *)

(* setw(3) pads a number below 1000 to three digits, which stoi reads.      *)
LEMMA PaddedNumber ==
  ASSUME NEW n \in Nat, n < 256
  PROVE  Stoi(Padded(IntText(n))) = n
<1>1. PICK s \in Seq(DigitChars) : s = NatText[n]
  BY NatTextFacts
<1>2. s # <<>> /\ DigitsValue(s) = n /\ n \in Ints
  BY <1>1, NatTextFacts, CodecAssumption DEF Ints
<1>3. IntText(n) = s
  BY <1>1 DEF IntText
<1>4. Len(s) \in {1, 2, 3}
  BY <1>1, ThreeDigits
<1>5. <<Zero>> \in Seq(DigitChars) /\ Zero \in DigitChars
  BY DEF DigitChars, Zero
<1>6. PICK d \in Seq(DigitChars) : d = <<Zero>> \o s
  BY <1>5, ConcatProperties
<1>7. PICK e \in Seq(DigitChars) : e = <<Zero>> \o d
  BY <1>5, ConcatProperties
<1>8. /\ DigitsValue(d) = n /\ DigitsValue(e) = n
  BY <1>2, <1>6, <1>7, ZeroInFront
<1>9. d # <<>> /\ e # <<>>
  <2>1. Len(d) = 1 + Len(s) /\ Len(e) = 1 + Len(d) /\ Len(s) \in Nat /\ Len(d) \in Nat
    BY <1>5, <1>6, <1>7, ConcatProperties, LenProperties
  <2> QED
    BY <2>1
<1>10. Stoi(s) = n /\ Stoi(d) = n /\ Stoi(e) = n
  BY <1>2, <1>8, <1>9, StoiOfDigits
<1>11. Padded(s) \in {s, d, e}
  <2>1. CASE Len(s) = 3
    <3>1. [i \in 1 .. 3 - Len(s) |-> Zero] = <<>>
      BY <2>1
    <3> QED
      BY <3>1, ConcatEmptySeq DEF Padded
  <2>2. CASE Len(s) = 2
    <3>1. [i \in 1 .. 3 - Len(s) |-> Zero] = <<Zero>>
      BY <2>2
    <3> QED
      BY <1>6, <3>1 DEF Padded
  <2>3. CASE Len(s) = 1
    <3>1. [i \in 1 .. 3 - Len(s) |-> Zero] = <<Zero>> \o <<Zero>>
      BY <2>3
    <3>2. (<<Zero>> \o <<Zero>>) \o s = <<Zero>> \o (<<Zero>> \o s)
      BY <1>5, ConcatAssociative
    <3> QED
      BY <1>6, <1>7, <3>1, <3>2 DEF Padded
  <2> QED
    BY <1>4, <2>1, <2>2, <2>3
<1> QED
  BY <1>3, <1>10, <1>11

LEMMA TextOfTen == Len(IntText(10)) = 2
<1>1. NatText[1] = <<Zero + 1>>
  BY NatTextIs
<1>2. 10 \div 10 = 1 /\ 10 % 10 = 0
  OBVIOUS
<1>3. NatText[10] = Append(NatText[1], Zero)
  BY <1>2, NatTextIs DEF Zero
<1> QED
  BY <1>1, <1>3 DEF IntText

(* A field is a text without SOH, and SOH.                                  *)
LEMMA FieldIs ==
  ASSUME NEW tag \in Ints, NEW v \in FreeText
  PROVE  \E x \in FreeText : /\ FieldText(tag, v) = x \o <<SOH>>
                             /\ Len(x) = Len(IntText(tag)) + 1 + Len(v)
<1>1. tag \in Int
  BY CodecAssumption DEF Ints
<1>2. IntText(tag) \in FreeText
  BY <1>1, IntTextIsFree
<1>3. <<Equals>> \in FreeText /\ Len(<<Equals>>) = 1
  BY DEF FreeText, FreeChars, Chars, Equals, SOH
<1>4. PICK a \in FreeText : a = IntText(tag) \o <<Equals>>
  BY <1>2, <1>3, FreeTextFacts
<1>5. Len(a) = Len(IntText(tag)) + 1
  BY <1>2, <1>3, <1>4, ConcatProperties DEF FreeText
<1>6. PICK x \in FreeText : x = a \o v
  BY <1>4, FreeTextFacts
<1>7. Len(x) = Len(a) + Len(v)
  BY <1>6, ConcatProperties DEF FreeText
<1> QED
  BY <1>4, <1>5, <1>6, <1>7 DEF FieldText

EndsOf(s)    == {i \in 1 .. Len(s) : s[i] = SOH}
SecondEnd(s) == Min(EndsOf(s) \ {Min(EndsOf(s))})
TwoFields(x, y, r) == ((x \o <<SOH>>) \o (y \o <<SOH>>)) \o r

(* The first two SOH of two fields are where these end.                     *)
LEMMA SecondEndIs ==
  ASSUME NEW x \in FreeText, NEW y \in FreeText, NEW r \in Seq(Chars)
  PROVE  SecondEnd(TwoFields(x, y, r)) = Len(x) + Len(y) + 2
<1>0. PICK s : s = TwoFields(x, y, r)
  OBVIOUS
<1>1. PICK j \in Nat, k \in Nat, n \in Nat : j = Len(x) /\ k = Len(y) /\ n = Len(r)
  BY FreeTextFacts, LenProperties
<1>2. /\ \A i \in 1 .. j : x[i] # SOH
      /\ \A i \in 1 .. k : y[i] # SOH
  BY <1>1, ElementOfSeq DEF FreeText, FreeChars
<1>3. x \in Seq(Chars) /\ y \in Seq(Chars) /\ <<SOH>> \in Seq(Chars)
  BY FreeTextFacts DEF SOH, Chars
<1>4. PICK f \in Seq(Chars) : f = x \o <<SOH>>
  BY <1>3, ConcatProperties
<1>5. PICK g \in Seq(Chars) : g = y \o <<SOH>>
  BY <1>3, ConcatProperties
<1>6. PICK b \in Seq(Chars) : b = f \o g
  BY ConcatProperties
<1>7. /\ Len(f) = j + 1 /\ f[j + 1] = SOH /\ \A i \in 1 .. j : f[i] # SOH
  <2>1. f = Append(x, SOH)
    BY <1>3, <1>4, AppendIsConcat
  <2> QED
    BY <1>1, <1>2, <1>3, <2>1, AppendProperties
<1>8. /\ Len(g) = k + 1 /\ g[k + 1] = SOH /\ \A i \in 1 .. k : g[i] # SOH
  <2>1. g = Append(y, SOH)
    BY <1>3, <1>5, AppendIsConcat
  <2> QED
    BY <1>1, <1>2, <1>3, <2>1, AppendProperties
<1>9. /\ Len(b) = (j + 1) + (k + 1)
      /\ \A i \in 1 .. (j + 1) + (k + 1) :
           b[i] = IF i <= j + 1 THEN f[i] ELSE g[i - (j + 1)]
  <2>1. /\ Len(f \o g) = Len(f) + Len(g)
        /\ \A i \in 1 .. Len(f) + Len(g) :
             (f \o g)[i] = IF i <= Len(f) THEN f[i] ELSE g[i - Len(f)]
    BY ConcatProperties
  <2> QED
    BY <1>6, <1>7, <1>8, <2>1
<1>10. /\ s = b \o r /\ Len(s) = ((j + 1) + (k + 1)) + n
       /\ \A i \in 1 .. ((j + 1) + (k + 1)) + n :
            s[i] = IF i <= (j + 1) + (k + 1) THEN b[i] ELSE r[i - ((j + 1) + (k + 1))]
  <2>1. s = b \o r
    BY <1>0, <1>4, <1>5, <1>6 DEF TwoFields
  <2>2. /\ Len(b \o r) = Len(b) + Len(r)
        /\ \A i \in 1 .. Len(b) + Len(r) :
             (b \o r)[i] = IF i <= Len(b) THEN b[i] ELSE r[i - Len(b)]
    BY ConcatProperties
  <2> QED
    BY <1>1, <1>9, <2>1, <2>2
<1>11. \A i \in 1 .. j : s[i] # SOH
  BY <1>7, <1>9, <1>10
<1>12. s[j + 1] = SOH /\ j + 1 \in 1 .. Len(s)
  <2>1. /\ j + 1 <= (j + 1) + (k + 1) /\ j + 1 \in 1 .. (j + 1) + (k + 1)
        /\ j + 1 \in 1 .. ((j + 1) + (k + 1)) + n /\ j + 1 <= j + 1
    OBVIOUS
  <2>2. s[j + 1] = b[j + 1]
    BY <1>10, <2>1
  <2>3. b[j + 1] = f[j + 1]
    BY <1>9, <2>1
  <2> QED
    BY <1>7, <1>10, <2>1, <2>2, <2>3
<1>13. ASSUME NEW i \in j + 2 .. j + 1 + k PROVE s[i] # SOH
  <2>1. i - (j + 1) \in 1 .. k /\ ~(i <= j + 1) /\ i \in 1 .. (j + 1) + (k + 1)
    BY <1>1
  <2>2. b[i] = g[i - (j + 1)]
    BY <1>9, <2>1
  <2>3. s[i] = b[i]
    BY <1>10, <2>1
  <2> QED
    BY <1>8, <2>1, <2>2, <2>3
<1>14. s[j + k + 2] = SOH /\ j + k + 2 \in 1 .. Len(s)
  <2>1. /\ (j + k + 2) - (j + 1) = k + 1 /\ ~(j + k + 2 <= j + 1)
        /\ j + k + 2 \in 1 .. (j + 1) + (k + 1)
    OBVIOUS
  <2>2. b[j + k + 2] = g[k + 1]
    BY <1>9, <2>1
  <2>3. /\ j + k + 2 \in 1 .. ((j + 1) + (k + 1)) + n
        /\ j + k + 2 <= (j + 1) + (k + 1)
    OBVIOUS
  <2>4. s[j + k + 2] = b[j + k + 2]
    BY <1>10, <2>3
  <2>5. j + k + 2 \in 1 .. Len(s)
    BY <1>10, <2>3
  <2> QED
    BY <1>8, <2>2, <2>4, <2>5
<1>15. EndsOf(s) \in SUBSET Int
  BY <1>10 DEF EndsOf
<1> DEFINE last == ((j + 1) + (k + 1)) + n
<1>16. last \in Nat /\ Len(s) = last
  BY <1>10
<1>17. \A i \in EndsOf(s) : i \in Nat /\ i >= 1 /\ s[i] = SOH
  <2> HIDE DEF last
  <2> QED
    BY <1>16 DEF EndsOf
<1>18. Min(EndsOf(s)) = j + 1
  <2>1. j + 1 \in EndsOf(s)
    BY <1>12 DEF EndsOf
  <2>2. ASSUME NEW i \in EndsOf(s) PROVE j + 1 <= i
    <3>1. i \in Nat /\ i >= 1 /\ s[i] = SOH
      BY <1>17
    <3>2. i \notin 1 .. j
      BY <1>11, <3>1
    <3> QED
      BY <3>1, <3>2
  <2> QED
    BY <1>15, <2>1, <2>2, MinOf
<1>19. Min(EndsOf(s) \ {j + 1}) = j + k + 2
  <2>1. j + k + 2 \in EndsOf(s) \ {j + 1}
    BY <1>14 DEF EndsOf
  <2>2. ASSUME NEW i \in EndsOf(s) \ {j + 1} PROVE j + k + 2 <= i
    <3>1. i \in Nat /\ i >= 1 /\ s[i] = SOH /\ i # j + 1
      BY <1>17
    <3>2. i \notin 1 .. j /\ i \notin j + 2 .. j + 1 + k
      BY <1>11, <1>13, <3>1
    <3> QED
      BY <3>1, <3>2
  <2>3. EndsOf(s) \ {j + 1} \in SUBSET Int
    BY <1>15
  <2> QED
    BY <2>1, <2>2, <2>3, MinOf
<1> QED
  BY <1>0, <1>1, <1>18, <1>19 DEF SecondEnd

LEMMA SetField ==
  ASSUME NEW f, NEW tag, NEW v
  PROVE  /\ tag \in DOMAIN SetTagValue(f, tag, v) /\ SetTagValue(f, tag, v)[tag] = v
         /\ \A t \in DOMAIN f : t # tag => SetTagValue(f, tag, v)[t] = f[t]
  BY DEF SetTagValue

(* Where the body of a serialized text is.                                  *)
LEMMA BodyIsThere ==
  ASSUME NEW m \in Messages, text = Serialize(m).text, fields = Serialize(m).fields
  PROVE  /\ BodyStart = Len(Begin(m)) + 1
         /\ CheckStart = Len(Begin(m)) + Len(Body(m)) + 1
<1>1. PICK v8 \in FreeText, v9 \in FreeText, v10 \in FreeText :
        v8 = ValueOf(m, 8) /\ v9 = LengthText(m) /\ v10 = CheckText(m)
  BY BeginIsRead, CheckTextIsFree
<1>2. PICK x \in FreeText : FieldText(8, v8) = x \o <<SOH>>
  BY HeaderTags, FieldIs
<1>3. PICK y \in FreeText : FieldText(9, v9) = y \o <<SOH>>
  BY HeaderTags, FieldIs
<1>4. PICK z \in FreeText : /\ FieldText(10, v10) = z \o <<SOH>>
                            /\ Len(z) = Len(IntText(10)) + 1 + Len(v10)
  BY HeaderTags, FieldIs
<1>5. PICK b \in Seq(Chars) : b = Begin(m)
  BY BeginIsRead
<1>6. PICK c \in Seq(Chars) : c = Body(m)
  BY BeginIsRead
<1>7. <<SOH>> \in Seq(Chars) /\ Len(<<SOH>>) = 1
  BY DEF SOH, Chars
<1>8. PICK d \in Seq(Chars) : d = z \o <<SOH>>
  BY <1>7, FreeTextFacts, ConcatProperties
<1>9. text = (b \o c) \o d
  BY <1>1, <1>4, <1>5, <1>6, <1>8, SerializeIs
<1>10. b = (x \o <<SOH>>) \o (y \o <<SOH>>)
  BY <1>1, <1>2, <1>3, <1>5 DEF Begin
<1>11. /\ x \in Seq(Chars) /\ Len(x) \in Nat /\ y \in Seq(Chars) /\ Len(y) \in Nat
       /\ z \in Seq(Chars) /\ Len(z) \in Nat /\ Len(v10) \in Nat
       /\ Len(b) \in Nat /\ Len(c) \in Nat
  BY FreeTextFacts, LenProperties
<1>12. Len(b) = Len(x) + Len(y) + 2
  <2>1. x \o <<SOH>> \in Seq(Chars) /\ Len(x \o <<SOH>>) = Len(x) + 1
    BY <1>7, <1>11, ConcatProperties
  <2>2. y \o <<SOH>> \in Seq(Chars) /\ Len(y \o <<SOH>>) = Len(y) + 1
    BY <1>7, <1>11, ConcatProperties
  <2>3. Len((x \o <<SOH>>) \o (y \o <<SOH>>)) = Len(x \o <<SOH>>) + Len(y \o <<SOH>>)
    BY <2>1, <2>2, ConcatProperties
  <2> QED
    BY <1>10, <1>11, <2>1, <2>2, <2>3
<1>13. Len(d) = Len(v10) + 4
  <2>1. Len(d) = Len(z) + 1
    BY <1>7, <1>8, <1>11, ConcatProperties
  <2>2. PICK n \in Nat : n = Len(v10)
    BY <1>11
  <2>3. Len(z) = 2 + 1 + n
    BY <1>4, <2>2, TextOfTen
  <2>4. Len(d) = (2 + 1 + n) + 1
    BY <2>1, <2>3
  <2> QED
    BY <2>2, <2>4
<1>14. Len(text) = (Len(b) + Len(c)) + (Len(v10) + 4)
  <2>1. b \o c \in Seq(Chars) /\ Len(b \o c) = Len(b) + Len(c)
    BY ConcatProperties
  <2>2. Len((b \o c) \o d) = Len(b \o c) + Len(d)
    BY <2>1, ConcatProperties
  <2> QED
    BY <1>9, <1>13, <2>1, <2>2
<1>15. fields[10] = v10
  BY <1>1, SerializeIs, SetField
<1>16. CheckStart = Len(b) + Len(c) + 1
  BY <1>11, <1>14, <1>15 DEF CheckStart
<1>17. SecondEnd(text) = Len(x) + Len(y) + 2
  <2>1. c \o d \in Seq(Chars) /\ (b \o c) \o d = b \o (c \o d)
    BY ConcatProperties, ConcatAssociative
  <2>2. PICK r \in Seq(Chars) : r = c \o d
    BY <2>1
  <2>3. text = TwoFields(x, y, r)
    BY <1>9, <1>10, <2>1, <2>2 DEF TwoFields
  <2>4. SecondEnd(TwoFields(x, y, r)) = Len(x) + Len(y) + 2
    BY SecondEndIs
  <2> QED
    BY <2>3, <2>4
<1>18. BodyStart = Len(b) + 1
  BY <1>12, <1>17 DEF BodyStart, SecondEnd, EndsOf
<1> QED
  BY <1>5, <1>6, <1>16, <1>18

LEMMA CheckIsRight ==
  ASSUME NEW m \in Messages, text = Serialize(m).text, fields = Serialize(m).fields,
         Len(text) <= MaxInt
  PROVE  /\ Stoi(fields[9]) = CheckStart - BodyStart
         /\ (\A i \in 1 .. Len(text) : text[i] >= 0)
              /\ CharSum(SubSeq(text, 1, CheckStart - 1)) \in Ints =>
              Stoi(fields[10]) = ByteSum(SubSeq(text, 1, CheckStart - 1))
<1>1. PICK b \in Seq(Chars) : b = Begin(m)
  BY BeginIsRead
<1>2. PICK c \in Seq(Chars) : c = Body(m)
  BY BeginIsRead
<1>3. PICK d \in Seq(Chars) : d = FieldText(10, CheckText(m))
  BY CheckTextIsFree, HeaderTags, FieldTextType
<1>4. PICK e \in Seq(Chars) : e = b \o c
  BY ConcatProperties
<1>5. text = e \o d
  BY <1>1, <1>2, <1>3, <1>4, SerializeIs
<1>6. Len(b) \in Nat /\ Len(c) \in Nat /\ Len(d) \in Nat /\ Len(e) = Len(b) + Len(c)
  BY <1>4, LenProperties, ConcatProperties
<1>7. /\ Len(text) = Len(e) + Len(d)
      /\ \A i \in 1 .. Len(e) + Len(d) :
           text[i] = IF i <= Len(e) THEN e[i] ELSE d[i - Len(e)]
  BY <1>5, ConcatProperties
<1>8. BodyStart = Len(b) + 1 /\ CheckStart = Len(e) + 1
  BY <1>1, <1>2, <1>6, BodyIsThere
<1>9. fields[9] = IntText(Len(c)) /\ fields[10] = Padded(IntText(Remainder(Wrapped(CharSum(e)), 256)))
  <2>1. fields[9] = LengthText(m) /\ fields[10] = CheckText(m)
    <3>1. PICK f : f = SetTagValue(m, 8, ValueOf(m, 8))
      OBVIOUS
    <3>2. PICK g : g = SetTagValue(f, 9, LengthText(m))
      OBVIOUS
    <3>3. fields = SetTagValue(g, 10, CheckText(m))
      BY <3>1, <3>2, SerializeIs
    <3>4. 9 \in DOMAIN g /\ g[9] = LengthText(m)
      BY <3>2, SetField
    <3> QED
      BY <3>3, <3>4, SetField
  <2> QED
    BY <1>1, <1>2, <1>4, <2>1 DEF LengthText, CheckText
<1>10. Stoi(fields[9]) = CheckStart - BodyStart
  <2>1. MaxInt \in Nat /\ Len(c) <= MaxInt
    <3>1. Len(c) <= Len(text) /\ Len(text) \in Nat
      BY <1>6, <1>7
    <3> QED
      BY <1>6, <3>1, CodecAssumption
  <2>2. Len(c) \in Ints
    BY <1>6, <2>1 DEF Ints
  <2>3. Stoi(fields[9]) = Len(c)
    BY <1>9, <2>2, IntTextFacts
  <2>4. CheckStart - BodyStart = Len(c)
    BY <1>6, <1>8
  <2> QED
    BY <2>3, <2>4
<1>11. ASSUME \A i \in 1 .. Len(text) : text[i] >= 0,
              CharSum(SubSeq(text, 1, CheckStart - 1)) \in Ints
       PROVE  Stoi(fields[10]) = ByteSum(SubSeq(text, 1, CheckStart - 1))
  <2>1. PICK k \in Nat : k = Len(e)
    BY <1>6
  <2>2. ASSUME NEW i \in 1 .. k PROVE e[i] \in LowChars /\ text[i] = e[i]
    <3>1. i \in 1 .. Len(e) + Len(d) /\ i \in 1 .. Len(text) /\ i <= Len(e)
      BY <1>6, <1>7, <2>1
    <3>2. text[i] = e[i] /\ text[i] >= 0
      BY <1>7, <1>11, <3>1
    <3>3. e[i] \in Chars
      BY <2>1, ElementOfSeq
    <3>4. PICK a \in Chars : a = e[i]
      BY <3>3
    <3>5. a >= 0
      BY <3>2, <3>4
    <3>6. a \in LowChars
      BY <3>5 DEF Chars, LowChars
    <3> QED
      BY <3>2, <3>4, <3>6
  <2>3. e \in Seq(LowChars)
    <3>1. e = [i \in 1 .. k |-> e[i]]
      BY <2>1, LenProperties
    <3>2. e \in [1 .. k -> LowChars]
      BY <2>2, <3>1
    <3> QED
      BY <3>2, SeqDef
  <2>4. SubSeq(text, 1, CheckStart - 1) = e
    <3>1. CheckStart - 1 = k
      BY <1>8, <2>1
    <3>2. SubSeq(text, 1, k) = [i \in 1 .. k |-> text[i]]
      <4>1. SubSeq(text, 1, k) = [i \in 1 .. 1 + k - 1 |-> text[i + 1 - 1]]
        OBVIOUS
      <4> QED
        BY <4>1
    <3>3. e = [i \in 1 .. k |-> e[i]]
      BY <2>1, LenProperties
    <3> QED
      BY <2>2, <3>1, <3>2, <3>3
  <2>5. PICK n \in Nat : n = CharSum(e)
    BY <2>3, SumsAgree
  <2>6. ByteSum(e) = n % 256
    BY <2>3, <2>5, SumsAgree
  <2>7. n % 256 \in Nat /\ n % 256 < 256 /\ Remainder(n, 256) = n % 256
    BY DEF Remainder
  <2>9. Wrapped(CharSum(e)) = n
    <3>1. n \in Ints
      BY <1>11, <2>4, <2>5
    <3> QED
      BY <2>5, <3>1, WrappedIs
  <2>8. Stoi(Padded(IntText(n % 256))) = n % 256
    BY <2>7, PaddedNumber
  <2> QED
    BY <1>9, <2>4, <2>6, <2>7, <2>8, <2>9
<1> QED
  BY <1>10, <1>11

(* For every text that may arrive and every rule whose values have no SOH:  *)
(* a message no longer than the largest int, which is what a receiver can   *)
(* read the BodyLength of, has the BodyLength and, where all bytes are      *)
(* below 128 and their sum is an int, the CheckSum of what is sent          *)
(* (FixServer.cpp:268-304).                                                 *)
THEOREM ReceiverCanCheckWhatFits ==
  TagsAreFixText /\ CodecSpec => [](Len(text) <= MaxInt => ReceiverCanCheck)
<1>1. ASSUME Travelling, Len(text) <= MaxInt, Outgoing
      PROVE  /\ Stoi(fields[9]) = CheckStart - BodyStart
             /\ (\A i \in 1 .. Len(text) : text[i] >= 0)
                  /\ CharSum(SubSeq(text, 1, CheckStart - 1)) \in Ints =>
                  Stoi(fields[10]) = ByteSum(SubSeq(text, 1, CheckStart - 1))
  <2>1. PICK m \in Messages : text = Serialize(m).text /\ fields = Serialize(m).fields
    BY <1>1 DEF Travelling
  <2> QED
    BY <1>1, <2>1, CheckIsRight
<1>2. Travelling => (Len(text) <= MaxInt => ReceiverCanCheck)
  BY <1>1 DEF ReceiverCanCheck, ByteSum
<1> QED
  BY <1>2, TravellingAlways, PTL
=============================================================================
