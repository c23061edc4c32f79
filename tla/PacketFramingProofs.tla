-------------------------- MODULE PacketFramingProofs --------------------------
(***************************************************************************)
(* Proofs about PacketFraming, for integers of any width and messages of   *)
(* any length whose packets are shorter than half the modulus, so that the *)
(* cast to int in the loop is harmless.                                    *)
(***************************************************************************)
EXTENDS PacketFraming, SequenceTheorems, TLAPS

(* 4 + packetSize is a positive int.                                        *)
PacketsFit == \A len \in Lengths : HeaderSize + len < Modulus \div 2

-----------------------------------------------------------------------------
(* Where the packets lie in a stream of bytes                               *)

Bytes == Nat \X Nat

(* The lengths s of l packets.                                              *)
Sizes(s, l) == l \in Nat /\ \A n \in 1 .. l : s[n] \in Nat

(* The e bytes st hold packets t + 1 to l of those whose lengths are s,     *)
(* whole and one after the other; packet n begins after at[n] bytes.        *)
Laid(st, e, s, l, t, at) ==
  /\ t \in 0 .. l
  /\ at \in [t + 1 .. l + 1 -> Nat]
  /\ at[t + 1] = 0
  /\ at[l + 1] = e
  /\ \A n \in t + 1 .. l : at[n + 1] = at[n] + HeaderSize + s[n]
  /\ \A n, m \in t + 1 .. l + 1 : n <= m => at[n] <= at[m]
  /\ \A n \in t + 1 .. l : \A k \in 1 .. HeaderSize + s[n] : st[at[n] + k] = <<n, k - 1>>
  /\ \A p \in 1 .. e : \E n \in t + 1 .. l : \E k \in 1 .. HeaderSize + s[n] : p = at[n] + k

LEMMA NoBytes == Laid(<<>>, 0, <<>>, 0, 0, [n \in 1 .. 1 |-> 0])
BY DEF Laid

(* pb is the bytes of packet n, of length len.                              *)
IsPacket(pb, n, len) ==
  /\ pb \in Seq(Bytes)
  /\ Len(pb) = HeaderSize + len
  /\ \A k \in 1 .. HeaderSize + len : pb[k] = <<n, k - 1>>

LEMMA PacketIsBytes == \A n, len \in Nat : IsPacket(PacketBytes(n, len), n, len)
BY DEF IsPacket, PacketBytes, Bytes, HeaderSize

(* A position within a packet, and the same position d bytes earlier.       *)
LEMMA Within ==
  \A a, k, c, e \in Int : 1 <= k /\ k <= c /\ 0 <= a /\ a + c <= e => a + k \in 1 .. e
OBVIOUS

LEMMA Back ==
  \A a, u, d, p, k \in Int : a = d + u => /\ d + p = a + k => p = u + k
                                        /\ d + (u + k) = a + k
OBVIOUS

LEMMA BackTwice ==
  \A a, u, b, w, d, c, e \in Int :
    a = d + u /\ b = d + w /\ b = a + 4 + c => w = u + 4 + c /\ (b <= d + e => u + (4 + c) <= e)
OBVIOUS

(* The u bytes su lay packet n where at does, d bytes earlier, from packet  *)
(* lo to hi.                                                                *)
LaidBy(su, u, s, l, t, at, lo, hi, d) ==
  \E to : Laid(su, u, s, l, t, to) /\ \A n \in lo .. hi : at[n] = d + to[n]

(* The u bytes su are the e bytes st and packet l + 1, of length len; r is  *)
(* the l lengths s and len.                                                 *)
Grown(su, u, st, e, l, len) ==
  /\ u = e + HeaderSize + len
  /\ \A p \in 1 .. e : su[p] = st[p]
  /\ \A k \in 1 .. HeaderSize + len : su[e + k] = <<l + 1, k - 1>>
Longer(r, s, l, len) == r[l + 1] = len /\ \A n \in 1 .. l : r[n] = s[n]

(* A packet more at the end.                                                *)
LEMMA SentIsLaid ==
  ASSUME NEW st, NEW e \in Nat, NEW s, NEW l \in Nat, NEW t \in Nat, NEW at,
         Sizes(s, l), Laid(st, e, s, l, t, at),
         NEW len \in Nat, NEW su, NEW u \in Nat, NEW r,
         Grown(su, u, st, e, l, len), Longer(r, s, l, len)
  PROVE  LaidBy(su, u, r, l + 1, t, at, t + 1, l + 1, 0)
<1> USE DEF HeaderSize
<1> DEFINE end == e + 4 + len
           to  == [n \in t + 1 .. l + 1 + 1 |-> IF n <= l + 1 THEN at[n] ELSE end]
<1>t. /\ t \in 0 .. l /\ at \in [t + 1 .. l + 1 -> Nat]
      /\ at[t + 1] = 0 /\ at[l + 1] = e
  BY DEF Laid
<1>n. \A n \in t + 1 .. l : at[n + 1] = at[n] + 4 + s[n]
  BY DEF Laid
<1>m. \A n, m \in t + 1 .. l + 1 : n <= m => at[n] <= at[m]
  BY DEF Laid
<1>k. \A n \in t + 1 .. l : \A k \in 1 .. 4 + s[n] : st[at[n] + k] = <<n, k - 1>>
  BY DEF Laid
<1>q. \A p \in 1 .. e : \E n \in t + 1 .. l : \E k \in 1 .. 4 + s[n] : p = at[n] + k
  BY DEF Laid
<1>s. \A n \in 1 .. l : s[n] \in Nat
  BY DEF Sizes
<1>r. r[l + 1] = len /\ \A n \in 1 .. l : r[n] = s[n]
  BY DEF Longer
<1>u. \A p \in 1 .. e : su[p] = st[p]
  BY DEF Grown
<1>v. \A k \in 1 .. 4 + len : su[e + k] = <<l + 1, k - 1>>
  BY DEF Grown
<1>e. end \in Nat /\ end >= e
  OBVIOUS
<1>o. /\ to \in [t + 1 .. l + 1 + 1 -> Nat]
      /\ \A n \in t + 1 .. l + 1 : to[n] = at[n]
      /\ to[l + 1 + 1] = end
  <2>1. \A n \in t + 1 .. l + 1 + 1 : n <= l + 1 => n \in t + 1 .. l + 1
    BY <1>t
  <2> HIDE DEF end
  <2>2. to \in [t + 1 .. l + 1 + 1 -> Nat]
    BY <1>e, <1>t, <2>1
  <2>3. \A n \in t + 1 .. l + 1 : n \in t + 1 .. l + 1 + 1 /\ n <= l + 1
    BY <1>t
  <2>4. l + 1 + 1 \in t + 1 .. l + 1 + 1 /\ ~(l + 1 + 1 <= l + 1)
    BY <1>t
  <2> QED
    BY <2>2, <2>3, <2>4
<1> HIDE DEF to
<1>a. \A n \in t + 1 .. l + 1 : n # l + 1 => n \in t + 1 .. l /\ n \in 1 .. l
  BY <1>t
<1>b. \A n \in t + 1 .. l : n \in t + 1 .. l + 1 /\ n + 1 \in t + 1 .. l + 1 /\ n + 1 <= l + 1
                            /\ n \in 1 .. l /\ n # l + 1
  BY <1>t
<1>c. l + 1 \in t + 1 .. l + 1
  BY <1>t
<1>7. /\ t \in 0 .. l + 1 /\ to \in [t + 1 .. l + 1 + 1 -> Nat]
      /\ to[t + 1] = 0 /\ to[l + 1 + 1] = end
  <2>1. t \in 0 .. l + 1 /\ t + 1 \in t + 1 .. l + 1
    BY <1>t
  <2> QED
    BY <1>t, <1>o, <2>1
<1>8. \A n \in t + 1 .. l + 1 : to[n + 1] = to[n] + 4 + r[n]
  <2> SUFFICES ASSUME NEW n \in t + 1 .. l + 1
               PROVE  to[n + 1] = to[n] + 4 + r[n]
    OBVIOUS
  <2>1. CASE n = l + 1
    <3>1. to[n + 1] = end /\ to[n] = e /\ r[n] = len
      BY <1>t, <1>r, <1>o, <1>c, <2>1
    <3> QED
      BY <3>1
  <2>2. CASE n # l + 1
    <3>1. to[n + 1] = at[n + 1] /\ to[n] = at[n] /\ r[n] = s[n]
      BY <1>a, <1>b, <1>r, <1>o, <2>2
    <3>2. at[n + 1] = at[n] + 4 + s[n]
      BY <1>a, <1>n, <2>2
    <3> QED
      BY <3>1, <3>2
  <2> QED
    BY <2>1, <2>2
<1>9. \A n, m \in t + 1 .. l + 1 + 1 : n <= m => to[n] <= to[m]
  <2> SUFFICES ASSUME NEW n \in t + 1 .. l + 1 + 1, NEW m \in t + 1 .. l + 1 + 1, n <= m
               PROVE  to[n] <= to[m]
    OBVIOUS
  <2>0. \A i \in t + 1 .. l + 1 : to[i] = at[i] /\ at[i] \in Nat
    BY <1>o, <1>t
  <2>1. CASE m # l + 1 + 1
    <3>1. n \in t + 1 .. l + 1 /\ m \in t + 1 .. l + 1
      BY <1>t, <2>1
    <3> QED
      BY <1>m, <2>0, <3>1
  <2>2. CASE m = l + 1 + 1 /\ n # l + 1 + 1
    <3>1. n \in t + 1 .. l + 1 /\ n <= l + 1
      BY <1>t, <2>2
    <3>2. at[n] <= e /\ at[n] \in Nat /\ to[n] = at[n]
      BY <1>c, <1>m, <1>t, <2>0, <3>1
    <3>3. to[m] = end
      BY <1>o, <2>2
    <3> QED
      BY <3>2, <3>3
  <2>3. CASE m = l + 1 + 1 /\ n = l + 1 + 1
    <3>1. to[m] = end /\ to[n] = end
      BY <1>o, <2>3
    <3> QED
      BY <3>1
  <2> QED
    BY <2>1, <2>2, <2>3
<1>10. ASSUME NEW n \in t + 1 .. l + 1, NEW k \in 1 .. 4 + r[n]
       PROVE  su[to[n] + k] = <<n, k - 1>>
  <2>1. CASE n = l + 1
    <3>1. to[n] = e /\ k \in 1 .. 4 + len
      BY <1>r, <1>t, <1>o, <1>c, <2>1
    <3> QED
      BY <1>v, <2>1, <3>1
  <2>2. CASE n # l + 1
    <3>1. n \in t + 1 .. l /\ n \in 1 .. l
      BY <1>a, <2>2
    <3>2. to[n] = at[n] /\ k \in 1 .. 4 + s[n] /\ at[n] \in Nat /\ s[n] \in Nat
      BY <1>b, <1>r, <1>s, <1>t, <1>o, <3>1
    <3>3. at[n + 1] = at[n] + 4 + s[n] /\ at[n + 1] <= e
      BY <1>b, <1>c, <1>m, <1>n, <1>t, <3>1
    <3>4. at[n] + k \in 1 .. e
      BY <3>2, <3>3
    <3>5. su[at[n] + k] = st[at[n] + k]
      BY <1>u, <3>4
    <3>6. st[at[n] + k] = <<n, k - 1>>
      BY <1>k, <3>1, <3>2
    <3> QED
      BY <3>2, <3>5, <3>6
  <2> QED
    BY <2>1, <2>2
<1>11. ASSUME NEW p \in 1 .. end
       PROVE  \E n \in t + 1 .. l + 1 : \E k \in 1 .. 4 + r[n] : p = to[n] + k
  <2>1. CASE p \in 1 .. e
    <3>1. PICK n \in t + 1 .. l : \E k \in 1 .. 4 + s[n] : p = at[n] + k
      BY <1>q, <2>1
    <3>2. n \in t + 1 .. l + 1 /\ r[n] = s[n] /\ to[n] = at[n]
      BY <1>b, <1>r, <1>o, <3>1
    <3> QED
      BY <3>1, <3>2
  <2>2. CASE p \notin 1 .. e
    <3>1. p - e \in 1 .. 4 + len /\ p = e + (p - e)
      BY <2>2
    <3>2. to[l + 1] = e /\ r[l + 1] = len
      BY <1>c, <1>r, <1>t, <1>o
    <3> QED
      BY <1>c, <3>1, <3>2
  <2> QED
    BY <2>1, <2>2
<1>12. Laid(su, end, r, l + 1, t, to)
  <2> HIDE DEF end
  <2> QED
    BY <1>7, <1>8, <1>9, <1>10, <1>11 DEF Laid
<1>13. u = end
  BY DEF Grown
<1>14. \A n \in t + 1 .. l + 1 : at[n] = 0 + to[n]
  <2>1. \A n \in t + 1 .. l + 1 : at[n] = to[n] /\ at[n] \in Nat
    BY <1>o, <1>t
  <2> QED
    BY <2>1
<1> HIDE DEF end
<1> QED
  BY <1>12, <1>13, <1>14 DEF LaidBy

(* The e bytes st begin with packet n of the l whose lengths are s.         *)
BeginsWith(st, e, s, l, n) ==
  /\ n \in 1 .. l
  /\ s[n] \in Nat
  /\ HeaderSize + s[n] <= e
  /\ \A k \in 1 .. HeaderSize + s[n] : st[k] = <<n, k - 1>>

(* What is not empty begins with the next packet.                           *)
LEMMA FrontIsNext ==
  ASSUME NEW st, NEW e \in Nat, NEW s, NEW l \in Nat, NEW t \in Nat, NEW at,
         Sizes(s, l), Laid(st, e, s, l, t, at), e # 0
  PROVE  BeginsWith(st, e, s, l, t + 1)
<1> USE DEF HeaderSize
<1>1. t \in 0 .. l
  BY DEF Laid
<1>2. t # l
  BY DEF Laid
<1>3. t + 1 \in 1 .. l /\ t + 1 \in t + 1 .. l /\ t + 1 + 1 \in t + 1 .. l + 1
      /\ l + 1 \in t + 1 .. l + 1 /\ t + 1 + 1 <= l + 1
  BY <1>1, <1>2
<1>4. s[t + 1] \in Nat
  BY <1>3 DEF Sizes
<1>5. at[t + 1 + 1] = 4 + s[t + 1]
  <2>1. at[t + 1 + 1] = at[t + 1] + 4 + s[t + 1] /\ at[t + 1] = 0
    BY <1>3 DEF Laid
  <2> QED
    BY <1>4, <2>1
<1>6. 4 + s[t + 1] <= e
  BY <1>3, <1>5 DEF Laid
<1>7. \A k \in 1 .. 4 + s[t + 1] : st[at[t + 1] + k] = <<t + 1, k - 1>>
  BY <1>3 DEF Laid
<1>8. \A k \in 1 .. 4 + s[t + 1] : at[t + 1] + k = k
  BY <1>4 DEF Laid
<1> QED
  BY <1>3, <1>4, <1>6, <1>7, <1>8 DEF BeginsWith

(* The u bytes su are the e bytes st without the first d, the packet of     *)
(* length len.                                                              *)
Cut(su, u, st, e, d, len) ==
  /\ d = HeaderSize + len
  /\ e = d + u
  /\ \A p \in 1 .. u : su[p] = st[d + p]

(* A packet less at the front.                                              *)
LEMMA TakenIsLaid ==
  ASSUME NEW st, NEW e \in Nat, NEW s, NEW l \in Nat, NEW t \in Nat, NEW at,
         Sizes(s, l), Laid(st, e, s, l, t, at), t # l,
         NEW d \in Nat, NEW u \in Nat, NEW su,
         Cut(su, u, st, e, d, s[t + 1])
  PROVE  LaidBy(su, u, s, l, t + 1, at, t + 1 + 1, l + 1, d)
<1> USE DEF HeaderSize
<1> DEFINE to == [n \in t + 1 + 1 .. l + 1 |-> at[n] - d]
<1>t. /\ t \in 0 .. l /\ at \in [t + 1 .. l + 1 -> Nat]
      /\ at[t + 1] = 0 /\ at[l + 1] = e
  BY DEF Laid
<1>n. \A n \in t + 1 .. l : at[n + 1] = at[n] + 4 + s[n]
  BY DEF Laid
<1>m. \A n, m \in t + 1 .. l + 1 : n <= m => at[n] <= at[m]
  BY DEF Laid
<1>k. \A n \in t + 1 .. l : \A k \in 1 .. 4 + s[n] : st[at[n] + k] = <<n, k - 1>>
  BY DEF Laid
<1>q. \A p \in 1 .. e : \E n \in t + 1 .. l : \E k \in 1 .. 4 + s[n] : p = at[n] + k
  BY DEF Laid
<1>s. \A n \in 1 .. l : s[n] \in Nat
  BY DEF Sizes
<1>v. \A p \in 1 .. u : su[p] = st[d + p]
  BY DEF Cut
<1>e. e = d + u
  BY DEF Cut
<1>f. d = 4 + s[t + 1]
  BY DEF Cut
<1>a. t + 1 \in 1 .. l /\ t + 1 \in t + 1 .. l /\ t + 1 + 1 \in t + 1 .. l + 1
      /\ t + 1 + 1 \in t + 1 + 1 .. l + 1 /\ l + 1 \in t + 1 + 1 .. l + 1
      /\ l + 1 \in t + 1 .. l + 1 /\ t + 1 \in 0 .. l
  BY <1>t
<1>b. \A n \in t + 1 + 1 .. l : /\ n \in t + 1 + 1 .. l + 1 /\ n + 1 \in t + 1 + 1 .. l + 1
                                /\ n \in t + 1 .. l /\ n \in 1 .. l
                                /\ n + 1 \in t + 1 .. l + 1 /\ n + 1 <= l + 1
  BY <1>t
<1>d. at[t + 1 + 1] = d
  <2>1. at[t + 1 + 1] = at[t + 1] + 4 + s[t + 1] /\ at[t + 1] = 0 /\ s[t + 1] \in Nat
    BY <1>a, <1>n, <1>s, <1>t
  <2> QED
    BY <1>f, <2>1
<1>c. \A n \in t + 1 + 1 .. l + 1 : n \in t + 1 .. l + 1 /\ at[n] \in Nat /\ at[n] >= d
  <2> SUFFICES ASSUME NEW n \in t + 1 + 1 .. l + 1
               PROVE  n \in t + 1 .. l + 1 /\ at[n] \in Nat /\ at[n] >= d
    OBVIOUS
  <2>1. n \in t + 1 .. l + 1 /\ t + 1 + 1 <= n
    BY <1>t
  <2>2. at[n] \in Nat /\ at[t + 1 + 1] <= at[n]
    BY <1>a, <1>m, <1>t, <2>1
  <2> QED
    BY <1>d, <2>1, <2>2
<1>o. /\ to \in [t + 1 + 1 .. l + 1 -> Nat]
      /\ \A n \in t + 1 + 1 .. l + 1 : at[n] = d + to[n]
  <2>1. \A n \in t + 1 + 1 .. l + 1 : at[n] - d \in Nat /\ at[n] = d + (at[n] - d)
    BY <1>c
  <2> QED
    BY <2>1
<1> HIDE DEF to
<1>i. \A n \in t + 1 + 1 .. l + 1 : at[n] \in Int /\ to[n] \in Int /\ 0 <= to[n]
  <2> SUFFICES ASSUME NEW n \in t + 1 + 1 .. l + 1
               PROVE  at[n] \in Int /\ to[n] \in Int /\ 0 <= to[n]
    OBVIOUS
  <2>1. at[n] \in Nat /\ to[n] \in Nat
    BY <1>c, <1>o
  <2> QED
    BY <2>1
<1>j. \A n \in 1 .. l : s[n] \in Int
  BY <1>s
<1>7. /\ t + 1 \in 0 .. l /\ to \in [t + 1 + 1 .. l + 1 -> Nat]
      /\ to[t + 1 + 1] = 0 /\ to[l + 1] = u
  <2>1. at[t + 1 + 1] = d + to[t + 1 + 1] /\ at[l + 1] = d + to[l + 1]
        /\ to[t + 1 + 1] \in Int /\ to[l + 1] \in Int
    BY <1>a, <1>i, <1>o
  <2>2. to[t + 1 + 1] = 0
    BY <1>d, <2>1
  <2>3. to[l + 1] = u
    BY <1>e, <1>t, <2>1
  <2> QED
    BY <1>a, <1>o, <2>2, <2>3
<1>8. \A n \in t + 1 + 1 .. l : to[n + 1] = to[n] + 4 + s[n]
  <2> SUFFICES ASSUME NEW n \in t + 1 + 1 .. l
               PROVE  to[n + 1] = to[n] + 4 + s[n]
    OBVIOUS
  <2>1. at[n] = d + to[n] /\ at[n + 1] = d + to[n + 1]
    BY <1>b, <1>o
  <2>2. at[n + 1] = at[n] + 4 + s[n]
    BY <1>b, <1>n
  <2>3. at[n] \in Int /\ to[n] \in Int /\ at[n + 1] \in Int /\ to[n + 1] \in Int
        /\ s[n] \in Int
    BY <1>b, <1>i, <1>j
  <2> QED
    BY <1>j, <2>1, <2>2, <2>3, BackTwice
<1>9. \A n, m \in t + 1 + 1 .. l + 1 : n <= m => to[n] <= to[m]
  <2> SUFFICES ASSUME NEW n \in t + 1 + 1 .. l + 1, NEW m \in t + 1 + 1 .. l + 1, n <= m
               PROVE  to[n] <= to[m]
    OBVIOUS
  <2>1. at[n] <= at[m] /\ to[n] \in Int /\ to[m] \in Int
    BY <1>c, <1>i, <1>m
  <2>2. at[n] = d + to[n] /\ at[m] = d + to[m]
    BY <1>o
  <2> QED
    BY <1>j, <2>1, <2>2
<1>10. ASSUME NEW n \in t + 1 + 1 .. l, NEW k \in 1 .. 4 + s[n]
       PROVE  su[to[n] + k] = <<n, k - 1>>
  <2>1. at[n] = d + to[n] /\ at[n + 1] = d + to[n + 1] /\ at[n + 1] = at[n] + 4 + s[n]
    BY <1>b, <1>n, <1>o
  <2>2. at[n] \in Int /\ to[n] \in Int /\ at[n + 1] \in Int /\ to[n + 1] \in Int
        /\ s[n] \in Int /\ 0 <= to[n] /\ 4 + s[n] \in Int /\ u \in Int
    BY <1>b, <1>i, <1>j
  <2>3. k \in Int /\ 1 <= k /\ k <= 4 + s[n]
    BY <2>2
  <2>4. at[n + 1] <= d + u
    <3>1. at[n + 1] <= e
      BY <1>a, <1>b, <1>m, <1>t
    <3> QED
      BY <1>e, <3>1
  <2>5. to[n] + (4 + s[n]) <= u
    BY <1>j, <2>1, <2>2, <2>4, BackTwice
  <2>6. to[n] + k \in 1 .. u
    BY <2>2, <2>3, <2>5, Within
  <2>7. d + (to[n] + k) = at[n] + k
    BY <1>j, <2>1, <2>2, <2>3, Back
  <2>8. st[at[n] + k] = <<n, k - 1>>
    BY <1>b, <1>k
  <2>9. su[to[n] + k] = st[d + (to[n] + k)]
    BY <1>v, <2>6
  <2> QED
    BY <2>7, <2>8, <2>9
<1>11. ASSUME NEW p \in 1 .. u
       PROVE  \E n \in t + 1 + 1 .. l : \E k \in 1 .. 4 + s[n] : p = to[n] + k
  <2>1. d + p \in 1 .. e
    BY <1>e
  <2>0. PICK n \in t + 1 .. l : \E k \in 1 .. 4 + s[n] : d + p = at[n] + k
    BY <1>q, <2>1
  <2>2. PICK k \in 1 .. 4 + s[n] : d + p = at[n] + k
    BY <2>0
  <2>3. n # t + 1
    <3> SUFFICES ASSUME n = t + 1 PROVE FALSE
      OBVIOUS
    <3>1. at[n] = 0 /\ d = 4 + s[n]
      BY <1>f, <1>t
    <3> QED
      BY <1>d, <2>2, <3>1
  <2>4. n \in t + 1 + 1 .. l
    BY <1>t, <2>3
  <2>5. at[n] = d + to[n] /\ at[n] \in Int /\ to[n] \in Int
    BY <1>b, <1>i, <1>o, <2>4
  <2>6. p \in Int /\ k \in Int
    OBVIOUS
  <2>7. p = to[n] + k
    BY <1>j, <2>2, <2>5, <2>6, Back
  <2> QED
    BY <2>2, <2>4, <2>7
<1>12. Laid(su, u, s, l, t + 1, to)
  BY <1>7, <1>8, <1>9, <1>10, <1>11 DEF Laid
<1> QED
  BY <1>o, <1>12 DEF LaidBy

-----------------------------------------------------------------------------
(* The stream of a connection                                               *)

Packet == [of : Nat, data : Seq(Bytes)]

FramingTypes ==
  /\ sent \in Seq(Lengths)
  /\ wire \in Seq(Bytes) /\ buffer \in Seq(Bytes)
  /\ reading \in BOOLEAN
  /\ taken \in Seq(Packet)

(* What is buffered and what is on the wire are the packets not yet taken.  *)
StreamLaid(buf, w, s, t, at) == Laid(buf \o w, Len(buf) + Len(w), s, Len(s), t, at)

FramingInv ==
  /\ FramingTypes
  /\ PacketsComeOutAsSent
  /\ \E at : StreamLaid(buffer, wire, sent, Len(taken), at)

(* c is a followed by b.                                                    *)
IsJoin(c, a, b) ==
  /\ c \in Seq(Bytes) /\ Len(a) \in Nat /\ Len(b) \in Nat
  /\ Len(c) = Len(a) + Len(b)
  /\ \A p \in 1 .. Len(a) : c[p] = a[p]
  /\ \A k \in 1 .. Len(b) : c[Len(a) + k] = b[k]

LEMMA Joined == \A a, b \in Seq(Bytes) : IsJoin(a \o b, a, b)
<1> SUFFICES ASSUME NEW a \in Seq(Bytes), NEW b \in Seq(Bytes)
             PROVE  IsJoin(a \o b, a, b)
  OBVIOUS
<1>1. Len(a) \in Nat /\ Len(b) \in Nat
  BY LenProperties
<1> DEFINE c == a \o b
<1>2. /\ c \in Seq(Bytes) /\ Len(c) = Len(a) + Len(b)
      /\ \A i \in 1 .. Len(a) + Len(b) : c[i] = IF i <= Len(a) THEN a[i] ELSE b[i - Len(a)]
  BY ConcatProperties
<1> HIDE DEF c
<1>3. ASSUME NEW p \in 1 .. Len(a) PROVE c[p] = a[p]
  <2>1. p \in 1 .. Len(a) + Len(b) /\ p <= Len(a)
    BY <1>1
  <2> QED
    BY <1>2, <2>1
<1>4. ASSUME NEW k \in 1 .. Len(b) PROVE c[Len(a) + k] = b[k]
  <2>1. /\ Len(a) + k \in 1 .. Len(a) + Len(b) /\ ~(Len(a) + k <= Len(a))
        /\ Len(a) + k - Len(a) = k
    BY <1>1
  <2>2. c[Len(a) + k] = b[Len(a) + k - Len(a)]
    BY <1>2, <2>1
  <2> QED
    BY <2>1, <2>2
<1>5. /\ c \in Seq(Bytes) /\ Len(a) \in Nat /\ Len(b) \in Nat
      /\ Len(c) = Len(a) + Len(b)
      /\ \A p \in 1 .. Len(a) : c[p] = a[p]
      /\ \A k \in 1 .. Len(b) : c[Len(a) + k] = b[k]
  BY <1>1, <1>2, <1>3, <1>4
<1>6. IsJoin(c, a, b)
  BY <1>5 DEF IsJoin
<1> QED
  BY <1>6 DEF c

LEMMA JoinedTwice == \A a, b, c \in Seq(Bytes) : (a \o b) \o c = a \o (b \o c)
BY ConcatAssociative

LEMMA LengthsAreSizes ==
  ASSUME NEW s \in Seq(Lengths)
  PROVE  Len(s) \in Nat /\ Sizes(s, Len(s)) /\ \A n \in 1 .. Len(s) : s[n] \in Lengths
<1>1. Len(s) \in Nat /\ \A n \in 1 .. Len(s) : s[n] \in Lengths
  BY LenProperties, ElementOfSeq
<1>2. Lengths \subseteq Nat
  BY FramingAssumption
<1> QED
  BY <1>1, <1>2 DEF Sizes

(* A length that fits is not changed by the code's arithmetic.              *)
LEMMA LengthFits ==
  ASSUME PacketsFit, NEW len \in Lengths
  PROVE  /\ len \in Nat /\ len % Modulus = len
         /\ TotalSize(len) = HeaderSize + len /\ ToInt(TotalSize(len)) = HeaderSize + len
<1>1. Modulus \in Nat /\ Modulus > 4 /\ len \in Nat
  BY FramingAssumption DEF HeaderSize
<1>2. 4 + len < Modulus \div 2
  BY DEF PacketsFit, HeaderSize
<1> HIDE DEF Modulus
<1>3. Modulus \div 2 \in Nat /\ Modulus \div 2 <= Modulus
  BY <1>1
<1>4. 4 + len < Modulus /\ len < Modulus /\ ~(4 + len >= Modulus \div 2)
  BY <1>1, <1>2, <1>3
<1>5. \A i \in Nat : i < Modulus => i % Modulus = i
  BY <1>1
<1>6. len % Modulus = len /\ (4 + len) % Modulus = 4 + len
  BY <1>1, <1>4, <1>5
<1>7. TotalSize(len) = 4 + len
  BY <1>6 DEF TotalSize, HeaderSize
<1> QED
  BY <1>1, <1>4, <1>6, <1>7 DEF ToInt, HeaderSize

(* The header the loop reads is that of the next packet.                    *)
LEMMA HeaderIsNext ==
  ASSUME PacketsFit, FramingTypes, NEW at, StreamLaid(buffer, wire, sent, Len(taken), at),
         Len(buffer) >= HeaderSize
  PROVE  LET n == Len(taken) + 1
         IN  /\ n \in 1 .. Len(sent) /\ sent[n] \in Lengths /\ Len(taken) # Len(sent)
             /\ HeaderOf(buffer) = n
             /\ PacketSizes(buffer) = {sent[n]}
             /\ \A k \in 1 .. HeaderSize + sent[n] :
                  k <= Len(buffer) => buffer[k] = <<n, k - 1>>
<1> DEFINE e == Len(buffer) + Len(wire)
           t == Len(taken)
           l == Len(sent)
           st == buffer \o wire
<1>1. buffer \in Seq(Bytes) /\ wire \in Seq(Bytes) /\ sent \in Seq(Lengths) /\ taken \in Seq(Packet)
  BY DEF FramingTypes
<1>2. Len(buffer) \in Nat /\ Len(wire) \in Nat /\ \A p \in 1 .. Len(buffer) : st[p] = buffer[p]
  <2>1. IsJoin(st, buffer, wire)
    BY <1>1, Joined
  <2> QED
    BY <2>1 DEF IsJoin
<1>3. t \in Nat /\ l \in Nat /\ Sizes(sent, l) /\ \A n \in 1 .. l : sent[n] \in Lengths
  BY <1>1, LenProperties, LengthsAreSizes
<1>4. e \in Nat /\ e # 0
  BY <1>2 DEF HeaderSize
<1>5. Laid(st, e, sent, l, t, at)
  BY DEF StreamLaid
<1> HIDE DEF e, t, l, st
<1>6. /\ t + 1 \in 1 .. l /\ sent[t + 1] \in Nat /\ HeaderSize + sent[t + 1] <= e
      /\ \A k \in 1 .. HeaderSize + sent[t + 1] : st[k] = <<t + 1, k - 1>>
  <2>1. BeginsWith(st, e, sent, l, t + 1)
    BY <1>3, <1>4, <1>5, FrontIsNext
  <2> QED
    BY <2>1 DEF BeginsWith
<1>7. ASSUME NEW k \in 1 .. HeaderSize + sent[t + 1], k <= Len(buffer)
      PROVE  buffer[k] = <<t + 1, k - 1>>
  <2>1. k \in 1 .. Len(buffer)
    BY <1>2, <1>7
  <2> QED
    BY <1>2, <1>6, <2>1
<1>8. \A k \in 1 .. HeaderSize : buffer[k] = <<t + 1, k - 1>>
  <2> SUFFICES ASSUME NEW k \in 1 .. HeaderSize PROVE buffer[k] = <<t + 1, k - 1>>
    OBVIOUS
  <2>1. k \in 1 .. HeaderSize + sent[t + 1] /\ k <= Len(buffer)
    BY <1>2, <1>6 DEF HeaderSize
  <2> QED
    BY <1>7, <2>1
<1>9. buffer[1][1] = t + 1
  <2>1. buffer[1] = <<t + 1, 1 - 1>>
    BY <1>8 DEF HeaderSize
  <2> QED
    BY <2>1
<1>10. HeaderOf(buffer) = t + 1
  BY <1>8, <1>9 DEF HeaderOf
<1>11. sent[t + 1] \in Lengths /\ t # l /\ t + 1 # 0
  BY <1>3, <1>6
<1>12. PacketSizes(buffer) = {sent[t + 1]}
  <2>1. sent[t + 1] % Modulus = sent[t + 1]
    BY <1>11, LengthFits
  <2> QED
    BY <1>10, <1>11, <2>1 DEF PacketSizes
<1> QED
  BY <1>6, <1>7, <1>10, <1>11, <1>12 DEF t, l

-----------------------------------------------------------------------------
(* What a step does to the stream                                           *)

StreamLaidBy(buf, w, s, t, at, lo, hi, d) ==
  \E to : StreamLaid(buf, w, s, t, to) /\ \A n \in lo .. hi : at[n] = d + to[n]

LEMMA SendLaid ==
  ASSUME NEW buf \in Seq(Bytes), NEW w \in Seq(Bytes), NEW s \in Seq(Lengths),
         NEW t \in Nat, NEW at, StreamLaid(buf, w, s, t, at), NEW len \in Lengths
  PROVE  /\ w \o PacketBytes(Len(s) + 1, len) \in Seq(Bytes)
         /\ StreamLaidBy(buf, w \o PacketBytes(Len(s) + 1, len), Append(s, len), t,
                         at, t + 1, Len(s) + 1, 0)
<1> DEFINE l  == Len(s)
           r  == Append(s, len)
           pb == PacketBytes(l + 1, len)
           v  == w \o pb
           st == buf \o w
           e  == Len(buf) + Len(w)
           su == buf \o v
           u  == Len(buf) + Len(v)
<1>1. l \in Nat /\ Sizes(s, l) /\ len \in Nat
  BY LengthsAreSizes, FramingAssumption
<1>2. Len(r) = l + 1 /\ Longer(r, s, l, len)
  BY AppendProperties DEF Longer
<1>3. IsPacket(pb, l + 1, len)
  <2> HIDE DEF l
  <2>1. l + 1 \in Nat
    BY <1>1
  <2> QED
    BY <1>1, <2>1, PacketIsBytes
<1> HIDE DEF pb, l
<1>4. pb \in Seq(Bytes) /\ Len(pb) = HeaderSize + len
  BY <1>3 DEF IsPacket
<1>5. IsJoin(v, w, pb)
  BY <1>4, Joined
<1>6. IsJoin(st, buf, w)
  BY Joined
<1>7. /\ v \in Seq(Bytes) /\ Len(v) = Len(w) + (HeaderSize + len)
      /\ st \in Seq(Bytes) /\ Len(st) = e /\ Len(w) \in Nat /\ Len(buf) \in Nat
  BY <1>4, <1>5, <1>6 DEF IsJoin
<1>8. su = st \o pb
  BY <1>4, JoinedTwice
<1>9. e \in Nat /\ u \in Nat /\ u = e + HeaderSize + len
  BY <1>1, <1>7 DEF HeaderSize
<1>10. IsJoin(su, st, pb)
  BY <1>4, <1>7, <1>8, Joined
<1> HIDE DEF v, st, e, su, u, r
<1>11. Grown(su, u, st, e, l, len)
  <2>1. \A p \in 1 .. e : su[p] = st[p]
    BY <1>7, <1>10 DEF IsJoin
  <2>2. \A k \in 1 .. HeaderSize + len : su[e + k] = pb[k]
    BY <1>4, <1>7, <1>10 DEF IsJoin
  <2>3. \A k \in 1 .. HeaderSize + len : pb[k] = <<l + 1, k - 1>>
    BY <1>3 DEF IsPacket
  <2> QED
    BY <1>9, <2>1, <2>2, <2>3 DEF Grown
<1>12. Laid(st, e, s, l, t, at)
  BY DEF StreamLaid, st, e, l
<1>13. LaidBy(su, u, r, l + 1, t, at, t + 1, l + 1, 0)
  BY <1>1, <1>2, <1>9, <1>11, <1>12, SentIsLaid
<1>14. ASSUME NEW to, Laid(su, u, r, l + 1, t, to)
       PROVE  StreamLaid(buf, v, r, t, to)
  BY <1>2, <1>14 DEF StreamLaid, su, u
<1>15. StreamLaidBy(buf, v, r, t, at, t + 1, l + 1, 0)
  BY <1>13, <1>14 DEF LaidBy, StreamLaidBy
<1> QED
  BY <1>7, <1>15 DEF l, r, v, pb

LEMMA ReadLaid ==
  ASSUME NEW buf \in Seq(Bytes), NEW w \in Seq(Bytes), NEW k \in 1 .. Len(w)
  PROVE  /\ buf \o SubSeq(w, 1, k) \in Seq(Bytes)
         /\ SubSeq(w, k + 1, Len(w)) \in Seq(Bytes)
         /\ Len(buf \o SubSeq(w, 1, k)) = Len(buf) + k
         /\ \A s, t, at : StreamLaid(buf, w, s, t, at)
                          => StreamLaid(buf \o SubSeq(w, 1, k), SubSeq(w, k + 1, Len(w)), s, t, at)
<1> DEFINE x == SubSeq(w, 1, k)
           y == SubSeq(w, k + 1, Len(w))
<1>1. Len(w) \in Nat /\ Len(buf) \in Nat /\ \A i \in 1 .. Len(w) : w[i] \in Bytes
  BY LenProperties, ElementOfSeq
<1>2. x \in Seq(Bytes) /\ Len(x) = k
  <2>1. 1 \in Int /\ k \in Int /\ 1 <= k /\ \A i \in 1 .. k : w[i] \in Bytes
    BY <1>1
  <2> QED
    BY <2>1, SubSeqProperties
<1>3. y \in Seq(Bytes) /\ Len(y) = Len(w) - k
  <2>1. k + 1 \in Int /\ Len(w) \in Int /\ \A i \in k + 1 .. Len(w) : w[i] \in Bytes
    BY <1>1
  <2>2. y \in Seq(Bytes) /\ Len(y) = IF k + 1 <= Len(w) THEN Len(w) - (k + 1) + 1 ELSE 0
    BY <2>1, SubSeqProperties
  <2> QED
    BY <1>1, <2>2
<1>4. x \o y = w
  <2>1. 1 \in 1 .. Len(w) + 1 /\ k \in 1 - 1 .. Len(w) /\ Len(w) \in k .. Len(w)
    BY <1>1
  <2>2. x \o y = SubSeq(w, 1, Len(w))
    BY <2>1, ConcatAdjacentSubSeq
  <2> QED
    BY <2>2, SubSeqFull
<1> HIDE DEF x, y
<1>5. (buf \o x) \o y = buf \o w
  BY <1>2, <1>3, <1>4, JoinedTwice
<1>6. buf \o x \in Seq(Bytes) /\ Len(buf \o x) = Len(buf) + k
  <2>1. IsJoin(buf \o x, buf, x)
    BY <1>2, Joined
  <2> QED
    BY <1>2, <2>1 DEF IsJoin
<1>7. Len(buf \o x) + Len(y) = Len(buf) + Len(w)
  BY <1>1, <1>3, <1>6
<1>8. \A s, t, at : StreamLaid(buf, w, s, t, at) => StreamLaid(buf \o x, y, s, t, at)
  BY <1>5, <1>7 DEF StreamLaid
<1> QED
  BY <1>3, <1>6, <1>8 DEF x, y

(* x is what follows the first d of the b bytes q.                          *)
IsRest(x, q, d, b) ==
  /\ x \in Seq(Bytes)
  /\ Len(x) = b - d
  /\ \A p \in 1 .. Len(x) : x[p] = q[d + p]

LEMMA RestOf ==
  ASSUME NEW q, NEW b \in Nat, \A i \in 1 .. b : q[i] \in Bytes, NEW d \in Nat, d <= b
  PROVE  IsRest(SubSeq(q, d + 1, b), q, d, b)
<1> DEFINE x == SubSeq(q, d + 1, b)
<1>1. d + 1 \in Int /\ b \in Int /\ \A i \in d + 1 .. b : q[i] \in Bytes
  OBVIOUS
<1>2. /\ x \in Seq(Bytes)
      /\ Len(x) = IF d + 1 <= b THEN b - (d + 1) + 1 ELSE 0
      /\ \A i \in 1 .. b - (d + 1) + 1 : x[i] = q[d + 1 + i - 1]
  BY <1>1, SubSeqProperties
<1> HIDE DEF x
<1>3. Len(x) = b - d
  BY <1>2
<1>4. ASSUME NEW p \in 1 .. Len(x) PROVE x[p] = q[d + p]
  <2>1. p \in 1 .. b - (d + 1) + 1 /\ d + 1 + p - 1 = d + p
    BY <1>3
  <2>2. x[p] = q[d + 1 + p - 1]
    BY <1>2, <2>1
  <2> QED
    BY <2>1, <2>2
<1>5. IsRest(x, q, d, b)
  BY <1>2, <1>3, <1>4 DEF IsRest
<1> QED
  BY <1>5 DEF x

(* The bytes of a packet of length len.                                     *)
IsTotal(d, len) == d = HeaderSize + len

LEMMA TakeLaid ==
  ASSUME NEW buf \in Seq(Bytes), NEW w \in Seq(Bytes), NEW s \in Seq(Lengths),
         NEW t \in Nat, NEW at, StreamLaid(buf, w, s, t, at), t # Len(s),
         NEW d \in Nat, IsTotal(d, s[t + 1]), d <= Len(buf)
  PROVE  /\ SubSeq(buf, d + 1, Len(buf)) \in Seq(Bytes)
         /\ Len(SubSeq(buf, d + 1, Len(buf))) = Len(buf) - d
         /\ StreamLaidBy(SubSeq(buf, d + 1, Len(buf)), w, s, t + 1,
                         at, t + 1 + 1, Len(s) + 1, d)
<1> DEFINE l  == Len(s)
           x  == SubSeq(buf, d + 1, Len(buf))
           st == buf \o w
           su == x \o w
           e  == Len(buf) + Len(w)
           u  == Len(x) + Len(w)
<1>1. l \in Nat /\ Sizes(s, l)
  BY LengthsAreSizes
<1>2. Len(buf) \in Nat /\ \A i \in 1 .. Len(buf) : buf[i] \in Bytes
  BY LenProperties, ElementOfSeq
<1>3. x \in Seq(Bytes) /\ Len(x) = Len(buf) - d /\ \A p \in 1 .. Len(x) : x[p] = buf[d + p]
  <2> HIDE DEF x
  <2>1. IsRest(x, buf, d, Len(buf))
    BY <1>2, RestOf DEF x
  <2> QED
    BY <2>1 DEF IsRest
<1> HIDE DEF x
<1>4. IsJoin(su, x, w)
  BY <1>3, Joined
<1>5. IsJoin(st, buf, w)
  BY Joined
<1>6. e \in Nat /\ u \in Nat /\ e = d + u
  BY <1>3, <1>4, <1>5 DEF IsJoin
<1>8. Laid(st, e, s, l, t, at) /\ t # l
  BY DEF StreamLaid
<1> HIDE DEF st, su, e, l
<1>7. ASSUME NEW p \in 1 .. u PROVE su[p] = st[d + p]
  <2> DEFINE f == Len(x)
             g == Len(w)
             b == Len(buf)
  <2>1. /\ f \in Nat /\ g \in Nat /\ b \in Nat /\ b = d + f /\ u = f + g
        /\ \A q \in 1 .. f : x[q] = buf[d + q] /\ su[q] = x[q]
        /\ \A k \in 1 .. g : su[f + k] = w[k] /\ st[b + k] = w[k]
        /\ \A q \in 1 .. b : st[q] = buf[q]
    BY <1>2, <1>3, <1>4, <1>5 DEF IsJoin
  <2> HIDE DEF f, g, b, u
  <2>2. CASE p <= f
    <3>1. p \in 1 .. f /\ d + p \in 1 .. b
      BY <2>1, <2>2
    <3> QED
      BY <2>1, <3>1
  <2>3. CASE ~(p <= f)
    <3>1. p - f \in 1 .. g /\ f + (p - f) = p /\ b + (p - f) = d + p
      BY <2>1, <2>3
    <3>2. su[f + (p - f)] = w[p - f] /\ st[b + (p - f)] = w[p - f]
      BY <2>1, <3>1
    <3> QED
      BY <3>1, <3>2
  <2> QED
    BY <2>2, <2>3
<1> HIDE DEF u
<1>9. Cut(su, u, st, e, d, s[t + 1])
  BY <1>6, <1>7 DEF Cut, IsTotal
<1>10. LaidBy(su, u, s, l, t + 1, at, t + 1 + 1, l + 1, d)
  BY <1>1, <1>6, <1>8, <1>9, TakenIsLaid
<1>11. ASSUME NEW to, Laid(su, u, s, l, t + 1, to)
       PROVE  StreamLaid(x, w, s, t + 1, to)
  BY <1>11 DEF StreamLaid, su, u, l
<1>12. StreamLaidBy(x, w, s, t + 1, at, t + 1 + 1, l + 1, d)
  BY <1>10, <1>11 DEF LaidBy, StreamLaidBy
<1> QED
  BY <1>3, <1>12 DEF l, x

-----------------------------------------------------------------------------
(* The packets come out as they were sent                                   *)

LEMMA PacketLengthIsLengthSent ==
  ASSUME NEW len \in Lengths, sent \in Seq(Lengths)
  PROVE  /\ Append(sent, len) \in Seq(Lengths) /\ Len(Append(sent, len)) = Len(sent) + 1
         /\ \A n \in 1 .. Len(sent) : Append(sent, len)[n] = sent[n]
BY AppendProperties

LEMMA EmptyIsSeq == \A S : <<>> \in Seq(S)
BY EmptySeq

(* The bytes between two positions.                                         *)
LEMMA MiddlePart ==
  ASSUME NEW b \in Seq(Bytes), NEW lo \in Nat, NEW n \in Nat, lo + n <= Len(b)
  PROVE  SubSeq(b, lo + 1, lo + n) = [k \in 1 .. n |-> b[lo + k]]
<1> DEFINE q == SubSeq(b, lo + 1, lo + n)
<1>1. Len(b) \in Nat /\ \A i \in 1 .. Len(b) : b[i] \in Bytes
  BY LenProperties, ElementOfSeq
<1>2. lo + 1 \in Int /\ lo + n \in Int /\ \A i \in lo + 1 .. lo + n : b[i] \in Bytes
  BY <1>1
<1>3. /\ q \in Seq(Bytes)
      /\ Len(q) = IF lo + 1 <= lo + n THEN lo + n - (lo + 1) + 1 ELSE 0
      /\ \A i \in 1 .. lo + n - (lo + 1) + 1 : q[i] = b[lo + 1 + i - 1]
  BY <1>2, SubSeqProperties
<1> HIDE DEF q
<1>4. Len(q) = n
  BY <1>3
<1>5. ASSUME NEW i \in 1 .. n PROVE q[i] = b[lo + i]
  <2>1. i \in 1 .. lo + n - (lo + 1) + 1 /\ lo + 1 + i - 1 = lo + i
    OBVIOUS
  <2>2. q[i] = b[lo + 1 + i - 1]
    BY <1>3, <2>1
  <2> QED
    BY <2>1, <2>2
<1>6. q \in [1 .. n -> Bytes]
  BY <1>3, <1>4, LenProperties
<1>7. q = [k \in 1 .. n |-> b[lo + k]]
  BY <1>5, <1>6
<1> QED
  BY <1>7 DEF q

(* The packets tk are the first of those whose lengths are s, whole.        *)
AsSent(tk, s) ==
  /\ Len(tk) <= Len(s)
  /\ \A i \in 1 .. Len(tk) :
       /\ tk[i].of = i
       /\ tk[i].data = [k \in 1 .. s[i] |-> <<i, HeaderSize + k - 1>>]

LEMMA WholeIsAsSent ==
  ASSUME taken \in Seq(Packet) PROVE PacketsComeOutAsSent <=> AsSent(taken, sent)
<1>1. DOMAIN taken = 1 .. Len(taken) /\ \A i \in 1 .. Len(taken) : i # 0
  BY LenProperties
<1>2. ASSUME NEW i \in 1 .. Len(taken)
      PROVE  taken[i].of = i /\ IsWhole(taken[i])
             <=> /\ taken[i].of = i
                 /\ taken[i].data = [k \in 1 .. sent[i] |-> <<i, HeaderSize + k - 1>>]
  <2>1. i # 0
    BY <1>1
  <2>2. CASE taken[i].of = i
    BY <2>1, <2>2 DEF IsWhole
  <2> QED
    BY <2>2
<1> QED
  BY <1>1, <1>2, Zenon DEF PacketsComeOutAsSent, AsSent

LEMMA WholeIsAsSentThen ==
  (taken \in Seq(Packet) => (PacketsComeOutAsSent <=> AsSent(taken, sent)))'
BY WholeIsAsSent, PTL

LEMMA InitFraming == FramingInit => FramingInv
<1> SUFFICES ASSUME FramingInit PROVE FramingInv
  OBVIOUS
<1> USE DEF FramingInit
<1>1. FramingTypes
  <2>1. sent \in Seq(Lengths) /\ wire \in Seq(Bytes) /\ buffer \in Seq(Bytes)
        /\ taken \in Seq(Packet)
    BY EmptyIsSeq, Zenon
  <2>2. reading \in BOOLEAN
    OBVIOUS
  <2> QED
    BY <2>1, <2>2 DEF FramingTypes
<1>2. PacketsComeOutAsSent
  BY DEF PacketsComeOutAsSent
<1>3. StreamLaid(buffer, wire, sent, Len(taken), [n \in 1 .. 1 |-> 0])
  <2>1. <<>> \o <<>> = <<>> /\ Len(<<>>) = 0
    OBVIOUS
  <2> QED
    BY <2>1, NoBytes DEF StreamLaid
<1> QED
  BY <1>1, <1>2, <1>3 DEF FramingInv

LEMMA FramingSend ==
  ASSUME FramingInv, NEW len \in Lengths, SendPacket(len)
  PROVE  FramingInv'
<1>1. FramingTypes /\ Len(sent) \in Nat
  BY LenProperties DEF FramingInv, FramingTypes
<1>2. /\ sent' = Append(sent, len) /\ wire' = wire \o PacketBytes(Len(sent) + 1, len)
      /\ buffer' = buffer /\ reading' = reading /\ taken' = taken
  BY <1>1, AppendProperties DEF SendPacket, FramingTypes
<1>3. PICK at : StreamLaid(buffer, wire, sent, Len(taken), at)
  BY DEF FramingInv
<1>4. Len(taken) \in Nat
  BY <1>1, LenProperties DEF FramingTypes
<1>5. /\ wire' \in Seq(Bytes)
      /\ StreamLaidBy(buffer, wire', sent', Len(taken), at, Len(taken) + 1, Len(sent) + 1, 0)
  BY <1>1, <1>2, <1>3, <1>4, SendLaid DEF FramingTypes
<1>6. FramingTypes'
  BY <1>1, <1>2, <1>5, PacketLengthIsLengthSent DEF FramingTypes
<1>7. PacketsComeOutAsSent'
  <2>1. AsSent(taken, sent)
    BY <1>1, WholeIsAsSent DEF FramingInv, FramingTypes
  <2>2. Len(sent') = Len(sent) + 1 /\ \A n \in 1 .. Len(sent) : sent'[n] = sent[n]
    BY <1>1, <1>2, PacketLengthIsLengthSent DEF FramingTypes
  <2>3. \A i \in 1 .. Len(taken) : i \in 1 .. Len(sent)
    BY <1>1, <1>4, <2>1 DEF AsSent
  <2>4. Len(taken) <= Len(sent')
    BY <1>1, <1>4, <2>1, <2>2 DEF AsSent
  <2>5. AsSent(taken', sent')
    BY <1>2, <2>1, <2>2, <2>3, <2>4 DEF AsSent
  <2> QED
    BY <1>6, <2>5, WholeIsAsSentThen DEF FramingTypes
<1>8. \E to : StreamLaid(buffer, wire', sent', Len(taken), to)
  BY <1>5 DEF StreamLaidBy
<1> QED
  BY <1>2, <1>6, <1>7, <1>8 DEF FramingInv

LEMMA FramingRead == ASSUME FramingInv, ReadyRead PROVE FramingInv'
<1>1. FramingTypes
  BY DEF FramingInv
<1>2. PICK k \in 1 .. Len(wire) : /\ buffer' = buffer \o SubSeq(wire, 1, k)
                                  /\ wire' = SubSeq(wire, k + 1, Len(wire))
  BY DEF ReadyRead
<1>3. reading' = TRUE /\ sent' = sent /\ taken' = taken
  BY DEF ReadyRead
<1>4. /\ buffer' \in Seq(Bytes) /\ wire' \in Seq(Bytes)
      /\ \A s, t, at : StreamLaid(buffer, wire, s, t, at) => StreamLaid(buffer', wire', s, t, at)
  BY <1>1, <1>2, ReadLaid DEF FramingTypes
<1>5. FramingTypes'
  BY <1>1, <1>3, <1>4 DEF FramingTypes
<1>6. PacketsComeOutAsSent'
  BY <1>3 DEF FramingInv, PacketsComeOutAsSent, IsWhole
<1>7. PICK at : StreamLaid(buffer, wire, sent, Len(taken), at)
  BY DEF FramingInv
<1>8. StreamLaid(buffer', wire', sent', Len(taken'), at)
  BY <1>3, <1>4, <1>7
<1> QED
  BY <1>5, <1>6, <1>8 DEF FramingInv

(* What a step that takes a packet does, when its length fits.              *)
LEMMA TakeIsNext ==
  ASSUME PacketsFit, FramingTypes, NEW at, StreamLaid(buffer, wire, sent, Len(taken), at),
         TakePacket
  PROVE  LET n == Len(taken) + 1
             d == HeaderSize + sent[n]
         IN  /\ n \in 1 .. Len(sent) /\ Len(taken) # Len(sent)
             /\ d \in Nat /\ d <= Len(buffer)
             /\ taken' = Append(taken, [of   |-> n,
                                        data |-> [k \in 1 .. sent[n] |->
                                                    <<n, HeaderSize + k - 1>>]])
             /\ buffer' = SubSeq(buffer, d + 1, Len(buffer))
             /\ sent' = sent /\ wire' = wire /\ reading' \in BOOLEAN
<1> DEFINE n == Len(taken) + 1
           d == HeaderSize + sent[n]
           p == sent[n]
<1>1. Len(buffer) >= HeaderSize
  BY DEF TakePacket
<1>2. /\ n \in 1 .. Len(sent) /\ p \in Lengths /\ Len(taken) # Len(sent)
      /\ HeaderOf(buffer) = n /\ PacketSizes(buffer) = {p}
      /\ \A k \in 1 .. HeaderSize + p : k <= Len(buffer) => buffer[k] = <<n, k - 1>>
  BY <1>1, HeaderIsNext
<1>3. /\ p \in Nat /\ TotalSize(p) = HeaderSize + p
      /\ ToInt(TotalSize(p)) = HeaderSize + p
  BY <1>2, LengthFits
<1>4. /\ ~IsPartial(p)
      /\ taken' = Append(taken, [of |-> n, data |-> Mid(buffer, p)])
      /\ buffer' = Rest(buffer, p)
  BY <1>2 DEF TakePacket
<1>5. Len(buffer) \in Nat
  BY LenProperties DEF FramingTypes
<1> HIDE DEF n, p
<1>6. HeaderSize + p \in Nat /\ HeaderSize + p <= Len(buffer)
  BY <1>3, <1>4, <1>5 DEF IsPartial, HeaderSize
<1>7. Mid(buffer, p) = [k \in 1 .. p |-> <<n, HeaderSize + k - 1>>]
  <2>1. Mid(buffer, p) = SubSeq(buffer, HeaderSize + 1, HeaderSize + p)
    BY <1>6 DEF Mid
  <2>2. SubSeq(buffer, HeaderSize + 1, HeaderSize + p)
          = [k \in 1 .. p |-> buffer[HeaderSize + k]]
    <3>1. HeaderSize \in Nat
      BY DEF HeaderSize
    <3> QED
      BY <1>3, <1>6, <3>1, MiddlePart DEF FramingTypes
  <2>3. ASSUME NEW k \in 1 .. p PROVE buffer[HeaderSize + k] = <<n, HeaderSize + k - 1>>
    <3> DEFINE j == HeaderSize + k
    <3>1. j \in 1 .. HeaderSize + p /\ j <= Len(buffer)
      BY <1>3, <1>5, <1>6 DEF HeaderSize
    <3>2. j - 1 = HeaderSize + k - 1
      BY DEF HeaderSize
    <3> HIDE DEF j
    <3>3. buffer[j] = <<n, j - 1>>
      BY <1>2, <3>1
    <3>4. buffer[j] = <<n, HeaderSize + k - 1>>
      BY <3>2, <3>3
    <3> QED
      BY <3>4 DEF j
  <2> QED
    BY <2>1, <2>2, <2>3
<1>8. buffer' = SubSeq(buffer, HeaderSize + p + 1, Len(buffer))
  BY <1>3, <1>4 DEF Rest, Removed
<1>9. sent' = sent /\ wire' = wire /\ reading' \in BOOLEAN
  BY DEF TakePacket
<1> QED
  BY <1>2, <1>4, <1>6, <1>7, <1>8, <1>9 DEF n, p

LEMMA FramingTake == ASSUME PacketsFit, FramingInv, TakePacket PROVE FramingInv'
<1> DEFINE t == Len(taken)
           d == HeaderSize + sent[t + 1]
           q == [of   |-> t + 1,
                 data |-> [k \in 1 .. sent[t + 1] |-> <<t + 1, HeaderSize + k - 1>>]]
<1>1. FramingTypes /\ PacketsComeOutAsSent
  BY DEF FramingInv
<1>2. PICK at : StreamLaid(buffer, wire, sent, t, at)
  BY DEF FramingInv
<1>3. /\ t + 1 \in 1 .. Len(sent) /\ t # Len(sent) /\ d \in Nat /\ d <= Len(buffer)
      /\ taken' = Append(taken, q)
      /\ buffer' = SubSeq(buffer, d + 1, Len(buffer))
      /\ sent' = sent /\ wire' = wire /\ reading' \in BOOLEAN
  BY <1>1, <1>2, TakeIsNext
<1>4. t \in Nat /\ Len(sent) \in Nat /\ sent[t + 1] \in Nat
  <2>1. t \in Nat /\ sent \in Seq(Lengths)
    BY <1>1, LenProperties DEF FramingTypes
  <2> HIDE DEF t
  <2> QED
    BY <1>3, <2>1, LengthsAreSizes DEF Sizes
<1>5. IsTotal(d, sent[t + 1])
  BY DEF IsTotal
<1> HIDE DEF d, q
<1>6. /\ buffer' \in Seq(Bytes)
      /\ StreamLaidBy(buffer', wire, sent, t + 1, at, t + 1 + 1, Len(sent) + 1, d)
  <2> HIDE DEF t
  <2> QED
    BY <1>1, <1>2, <1>3, <1>4, <1>5, TakeLaid DEF FramingTypes
<1>7. q \in Packet
  <2>1. ASSUME NEW k \in 1 .. sent[t + 1] PROVE <<t + 1, HeaderSize + k - 1>> \in Bytes
    BY <1>4 DEF Bytes, HeaderSize
  <2>2. [k \in 1 .. sent[t + 1] |-> <<t + 1, HeaderSize + k - 1>>] \in Seq(Bytes)
    BY <1>4, <2>1
  <2> QED
    BY <1>4, <2>2 DEF q, Packet
<1>8. /\ taken' \in Seq(Packet) /\ Len(taken') = t + 1 /\ taken'[t + 1] = q
      /\ \A i \in 1 .. t : taken'[i] = taken[i]
  BY <1>1, <1>3, <1>7, AppendProperties DEF FramingTypes
<1>9. FramingTypes'
  BY <1>1, <1>3, <1>6, <1>8 DEF FramingTypes
<1>10. PacketsComeOutAsSent'
  <2>1. AsSent(taken, sent)
    BY <1>1, WholeIsAsSent DEF FramingTypes
  <2>2. /\ t <= Len(sent)
        /\ \A i \in 1 .. t :
             /\ taken[i].of = i
             /\ taken[i].data = [k \in 1 .. sent[i] |-> <<i, HeaderSize + k - 1>>]
    BY <2>1 DEF AsSent
  <2>3. q.of = t + 1
        /\ q.data = [k \in 1 .. sent[t + 1] |-> <<t + 1, HeaderSize + k - 1>>]
    BY DEF q
  <2> HIDE DEF t
  <2>4. ASSUME NEW i \in 1 .. t + 1
        PROVE  /\ taken'[i].of = i
               /\ taken'[i].data = [k \in 1 .. sent[i] |-> <<i, HeaderSize + k - 1>>]
    <3>1. i \in 1 .. t \/ i = t + 1
      BY <1>4
    <3> QED
      BY <1>8, <2>2, <2>3, <3>1
  <2>5. Len(taken') <= Len(sent)
    BY <1>3, <1>4, <1>8
  <2>6. AsSent(taken', sent')
    BY <1>3, <1>8, <2>4, <2>5 DEF AsSent
  <2> QED
    BY <1>9, <2>6, WholeIsAsSentThen DEF FramingTypes
<1>11. \E to : StreamLaid(buffer', wire, sent, t + 1, to)
  BY <1>6 DEF StreamLaidBy
<1>12. \E to : StreamLaid(buffer', wire', sent', Len(taken'), to)
  BY <1>3, <1>8, <1>11
<1> QED
  BY <1>9, <1>10, <1>12 DEF FramingInv

LEMMA FramingInductive ==
  ASSUME PacketsFit PROVE FramingInv /\ [FramingNext]_framingVars => FramingInv'
<1> SUFFICES ASSUME FramingInv, [FramingNext]_framingVars PROVE FramingInv'
  OBVIOUS
<1>1. ASSUME NEW len \in Lengths, SendPacket(len) PROVE FramingInv'
  BY <1>1, FramingSend
<1>2. CASE ReadyRead
  BY <1>2, FramingRead
<1>3. CASE TakePacket
  BY <1>3, FramingTake
<1>4. CASE LoopEnds
  <2>1. UNCHANGED <<sent, wire, buffer, taken>> /\ reading' \in BOOLEAN
    BY <1>4 DEF LoopEnds
  <2> QED
    BY <2>1 DEF FramingInv, FramingTypes, PacketsComeOutAsSent, IsWhole
<1>5. CASE Reconnect
  <2>1. /\ sent' = <<>> /\ wire' = <<>> /\ buffer' = <<>> /\ taken' = <<>>
        /\ reading' = reading /\ reading \in BOOLEAN
    BY <1>5 DEF Reconnect, FramingInv, FramingTypes
  <2>2. FramingTypes'
    BY <2>1 DEF FramingTypes
  <2>3. PacketsComeOutAsSent'
    BY <2>1 DEF PacketsComeOutAsSent
  <2>4. <<>> \o <<>> = <<>> /\ Len(<<>>) = 0
    OBVIOUS
  <2>5. StreamLaid(buffer', wire', sent', Len(taken'), [n \in 1 .. 1 |-> 0])
    BY <2>1, <2>4, NoBytes DEF StreamLaid
  <2> QED
    BY <2>2, <2>3, <2>5 DEF FramingInv
<1>6. CASE UNCHANGED framingVars
  BY <1>6 DEF framingVars, FramingInv, FramingTypes, PacketsComeOutAsSent, IsWhole
<1> QED
  BY <1>1, <1>2, <1>3, <1>4, <1>5, <1>6 DEF FramingNext

LEMMA AlwaysFraming == ASSUME PacketsFit PROVE FramingSpec => []FramingInv
<1>1. FramingInit => FramingInv
  BY InitFraming
<1>2. FramingInv /\ [FramingNext]_framingVars => FramingInv'
  BY FramingInductive
<1> QED
  BY <1>1, <1>2, PTL DEF FramingSpec

(* Wherever TCP cuts the stream, the loop takes the packets that were sent, *)
(* whole and in order (FixServer.cpp:133-142): for any number of packets of *)
(* any lengths that stay, header included, below half the modulus.          *)
THEOREM PacketsAsSent == ASSUME PacketsFit PROVE FramingSpec => []PacketsComeOutAsSent
<1>1. FramingInv => PacketsComeOutAsSent
  BY DEF FramingInv
<1> QED
  BY <1>1, AlwaysFraming, PTL

-----------------------------------------------------------------------------
(* The packets that have arrived                                            *)

(* Of packets t + 1 to l, m is the last whose bytes are among the first b.  *)
UpTo(at, b, t, l, m) ==
  /\ m \in t .. l
  /\ \A n \in t + 1 .. l : at[n + 1] <= b <=> n <= m

(* The packet that the last of b bytes belongs to tells which packets are   *)
(* whole, so that no induction over the packets is needed.                  *)
LEMMA SomeLast ==
  ASSUME NEW st, NEW e \in Nat, NEW s, NEW l \in Nat, NEW t \in Nat, NEW at,
         Sizes(s, l), Laid(st, e, s, l, t, at), NEW b \in 0 .. e
  PROVE  \E m : UpTo(at, b, t, l, m)
<1> USE DEF HeaderSize
<1>t. t \in 0 .. l /\ at \in [t + 1 .. l + 1 -> Nat] /\ at[t + 1] = 0
  BY DEF Laid
<1>n. \A n \in t + 1 .. l : at[n + 1] = at[n] + 4 + s[n]
  BY DEF Laid
<1>m. \A n, m \in t + 1 .. l + 1 : n <= m => at[n] <= at[m]
  BY DEF Laid
<1>q. \A p \in 1 .. e : \E n \in t + 1 .. l : \E k \in 1 .. 4 + s[n] : p = at[n] + k
  BY DEF Laid
<1>s. \A n \in 1 .. l : s[n] \in Nat
  BY DEF Sizes
<1>a. ASSUME NEW n \in t + 1 .. l
      PROVE  /\ n \in t + 1 .. l + 1 /\ n + 1 \in t + 1 .. l + 1
             /\ s[n] \in Nat /\ at[n] \in Nat /\ at[n + 1] \in Nat
             /\ at[n + 1] = at[n] + 4 + s[n] /\ at[n] < at[n + 1]
  <2>1. n \in t + 1 .. l + 1 /\ n + 1 \in t + 1 .. l + 1 /\ n \in 1 .. l
    BY <1>t
  <2>2. s[n] \in Nat /\ at[n] \in Nat /\ at[n + 1] \in Nat /\ at[n + 1] = at[n] + 4 + s[n]
    BY <1>n, <1>s, <1>t, <2>1
  <2>3. at[n] < at[n + 1]
    BY <2>2
  <2> QED
    BY <2>1, <2>2, <2>3
<1>1. CASE b = 0
  <2>1. ASSUME NEW n \in t + 1 .. l PROVE ~(at[n + 1] <= b) /\ ~(n <= t)
    <3>1. at[n] \in Nat /\ at[n + 1] \in Nat /\ at[n] < at[n + 1]
      BY <1>a
    <3> QED
      BY <1>1, <3>1
  <2>2. t \in t .. l
    BY <1>t
  <2>3. UpTo(at, b, t, l, t)
    BY <2>1, <2>2 DEF UpTo
  <2> QED
    BY <2>3
<1>2. CASE b # 0
  <2>1. b \in 1 .. e
    BY <1>2
  <2>2. PICK n \in t + 1 .. l : \E k \in 1 .. 4 + s[n] : b = at[n] + k
    BY <1>q, <2>1
  <2>3. PICK k \in 1 .. 4 + s[n] : b = at[n] + k
    BY <2>2
  <2>4. /\ at[n] \in Nat /\ at[n + 1] \in Nat /\ s[n] \in Nat
        /\ at[n] < b /\ b <= at[n + 1]
    <3>1. at[n] \in Nat /\ at[n + 1] \in Nat /\ s[n] \in Nat /\ at[n + 1] = at[n] + 4 + s[n]
      BY <1>a
    <3> QED
      BY <2>3, <3>1
  <2>5. CASE b = at[n + 1]
    <3>1. ASSUME NEW i \in t + 1 .. l PROVE at[i + 1] <= b <=> i <= n
      <4>1. CASE i <= n
        <5>1. i + 1 \in t + 1 .. l + 1 /\ n + 1 \in t + 1 .. l + 1 /\ i + 1 <= n + 1
          BY <1>a, <4>1
        <5>2. at[i + 1] <= at[n + 1]
          BY <1>m, <5>1
        <5> QED
          BY <2>5, <4>1, <5>2
      <4>2. CASE ~(i <= n)
        <5>1. i \in t + 1 .. l + 1 /\ n + 1 \in t + 1 .. l + 1 /\ n + 1 <= i
          BY <1>a, <4>2
        <5>2. at[n + 1] <= at[i]
          BY <1>m, <5>1
        <5>3. at[i] \in Nat /\ at[i + 1] \in Nat /\ at[i] < at[i + 1]
          BY <1>a
        <5> QED
          BY <2>4, <2>5, <4>2, <5>2, <5>3
      <4> QED
        BY <4>1, <4>2
    <3>2. n \in t .. l
      BY <1>t
    <3>3. UpTo(at, b, t, l, n)
      BY <3>1, <3>2 DEF UpTo
    <3> QED
      BY <3>3
  <2>6. CASE b # at[n + 1]
    <3>1. ASSUME NEW i \in t + 1 .. l PROVE at[i + 1] <= b <=> i <= n - 1
      <4>1. CASE i <= n - 1
        <5>1. i + 1 \in t + 1 .. l + 1 /\ n \in t + 1 .. l + 1 /\ i + 1 <= n
          BY <1>a, <4>1
        <5>2. at[i + 1] <= at[n] /\ at[i + 1] \in Nat
          BY <1>a, <1>m, <5>1
        <5> QED
          BY <2>4, <4>1, <5>2
      <4>2. CASE ~(i <= n - 1)
        <5>1. i + 1 \in t + 1 .. l + 1 /\ n + 1 \in t + 1 .. l + 1 /\ n + 1 <= i + 1
          BY <1>a, <4>2
        <5>2. at[n + 1] <= at[i + 1] /\ at[i + 1] \in Nat
          BY <1>a, <1>m, <5>1
        <5> QED
          BY <2>4, <2>6, <4>2, <5>2
      <4> QED
        BY <4>1, <4>2
    <3>2. n - 1 \in t .. l
      BY <1>t
    <3>3. UpTo(at, b, t, l, n - 1)
      BY <3>1, <3>2 DEF UpTo
    <3> QED
      BY <3>3
  <2> QED
    BY <2>5, <2>6
<1> QED
  BY <1>1, <1>2

ArrivedOf(buf, s) ==
  {n \in DOMAIN s : \E i \in DOMAIN buf : buf[i] = <<n, HeaderSize + s[n] - 1>>}
LastOf(buf, s, t) ==
  CHOOSE n \in ArrivedOf(buf, s) \cup {t} : \A m \in ArrivedOf(buf, s) : m <= n

LEMMA LastIsLast ==
  /\ LastArrived = LastOf(buffer, sent, Len(taken))
  /\ LastArrived' = LastOf(buffer', sent', Len(taken'))
BY DEF LastArrived, Arrived, LastOf, ArrivedOf

(* The packets whose last byte is among the first b bytes buf of the stream *)
(* are those up to m.                                                       *)
IsFront(buf, b, st) == \A p \in 1 .. b : st[p] = buf[p]
LastBytes(buf, b, s, l) ==
  {n \in 1 .. l : \E i \in 1 .. b : buf[i] = <<n, HeaderSize + s[n] - 1>>}

LEMMA ArrivedIs ==
  ASSUME NEW st, NEW e \in Nat, NEW s, NEW l \in Nat, NEW t \in Nat, NEW at,
         Sizes(s, l), Laid(st, e, s, l, t, at),
         NEW b \in 0 .. e, NEW buf, IsFront(buf, b, st), NEW m, UpTo(at, b, t, l, m)
  PROVE  LastBytes(buf, b, s, l) = t + 1 .. m
<1>1. b \in Nat /\ b <= e
  OBVIOUS
<1>2. \A p \in 1 .. b : st[p] = buf[p]
  BY DEF IsFront
<1>3. /\ t \in 0 .. l /\ at \in [t + 1 .. l + 1 -> Nat]
      /\ \A n \in t + 1 .. l : at[n + 1] = at[n] + 4 + s[n]
      /\ \A n \in t + 1 .. l : \A k \in 1 .. 4 + s[n] : st[at[n] + k] = <<n, k - 1>>
      /\ \A p \in 1 .. e : \E n \in t + 1 .. l : \E k \in 1 .. 4 + s[n] : p = at[n] + k
  BY DEF Laid, HeaderSize
<1>4. m \in t .. l /\ \A n \in t + 1 .. l : at[n + 1] <= b <=> n <= m
  BY DEF UpTo
<1>5. \A n \in 1 .. l : s[n] \in Nat
  BY DEF Sizes
<1>6. ASSUME NEW n \in LastBytes(buf, b, s, l) PROVE n \in t + 1 .. m
  <2>1. n \in 1 .. l /\ \E i \in 1 .. b : buf[i] = <<n, HeaderSize + s[n] - 1>>
    BY DEF LastBytes
  <2>2. PICK i \in 1 .. b : buf[i] = <<n, 4 + s[n] - 1>>
    BY <2>1 DEF HeaderSize
  <2>3. i \in 1 .. e /\ st[i] = buf[i]
    BY <1>1, <1>2
  <2>4. PICK j \in t + 1 .. l : \E k \in 1 .. 4 + s[j] : i = at[j] + k
    BY <1>3, <2>3
  <2>5. PICK k \in 1 .. 4 + s[j] : i = at[j] + k
    BY <2>4
  <2>6. st[at[j] + k] = <<j, k - 1>>
    BY <1>3
  <2>7. <<j, k - 1>> = <<n, 4 + s[n] - 1>>
    BY <2>2, <2>3, <2>5, <2>6
  <2>8. j = n /\ k - 1 = 4 + s[n] - 1
    BY <2>7
  <2>9. n \in t + 1 .. l /\ n \in t + 1 .. l + 1
    BY <2>8
  <2>10. s[n] \in Nat /\ at[n] \in Nat /\ at[n + 1] = at[n] + 4 + s[n]
    BY <1>3, <1>5, <2>1, <2>9
  <2>11. k = 4 + s[n]
    BY <2>8, <2>10
  <2>12. at[n + 1] <= b
    BY <2>5, <2>8, <2>10, <2>11
  <2> QED
    BY <1>4, <2>9, <2>12
<1>7. ASSUME NEW n \in t + 1 .. m PROVE n \in LastBytes(buf, b, s, l)
  <2>1. n \in t + 1 .. l /\ n \in 1 .. l /\ n \in t + 1 .. l + 1 /\ n <= m
    BY <1>4
  <2>2. s[n] \in Nat /\ at[n] \in Nat /\ at[n + 1] = at[n] + 4 + s[n] /\ at[n + 1] <= b
    BY <1>3, <1>4, <1>5, <2>1
  <2> DEFINE k == 4 + s[n]
  <2>3. k \in 1 .. 4 + s[n] /\ at[n] + k \in 1 .. b
    BY <2>2
  <2>4. st[at[n] + k] = <<n, k - 1>>
    BY <1>3, <2>1, <2>3
  <2>5. k - 1 = HeaderSize + s[n] - 1
    BY <2>2 DEF HeaderSize
  <2> HIDE DEF k
  <2>6. buf[at[n] + k] = <<n, HeaderSize + s[n] - 1>>
    BY <1>2, <2>3, <2>4, <2>5
  <2> QED
    BY <2>1, <2>3, <2>6 DEF LastBytes
<1> QED
  BY <1>6, <1>7

LEMMA LastIs ==
  ASSUME NEW buf \in Seq(Bytes), NEW w \in Seq(Bytes), NEW s \in Seq(Lengths),
         NEW t \in Nat, NEW at, StreamLaid(buf, w, s, t, at),
         NEW m, UpTo(at, Len(buf), t, Len(s), m)
  PROVE  LastOf(buf, s, t) = m
<1> DEFINE l  == Len(s)
           b  == Len(buf)
           st == buf \o w
           e  == Len(buf) + Len(w)
<1>1. l \in Nat /\ Sizes(s, l) /\ DOMAIN s = 1 .. l /\ DOMAIN buf = 1 .. b
  BY LengthsAreSizes, LenProperties
<1>2. e \in Nat /\ b \in 0 .. e /\ IsFront(buf, b, st)
  <2>1. IsJoin(st, buf, w)
    BY Joined
  <2>2. Len(buf) \in Nat /\ Len(w) \in Nat
    BY <2>1 DEF IsJoin
  <2> QED
    BY <2>1, <2>2 DEF IsJoin, IsFront
<1>3. Laid(st, e, s, l, t, at) /\ UpTo(at, b, t, l, m)
  BY DEF StreamLaid
<1> HIDE DEF l, b, st, e
<1>4. LastBytes(buf, b, s, l) = t + 1 .. m
  BY <1>1, <1>2, <1>3, ArrivedIs
<1>5. ArrivedOf(buf, s) = t + 1 .. m
  BY <1>1, <1>4 DEF ArrivedOf, LastBytes
<1>6. m \in t .. l
  BY <1>3 DEF UpTo
<1>7. /\ m \in (t + 1 .. m) \cup {t} /\ \A n \in t + 1 .. m : n <= m
      /\ \A n \in (t + 1 .. m) \cup {t} : (\A i \in t + 1 .. m : i <= n) => n = m
  BY <1>1, <1>6
<1> QED
  BY <1>5, <1>7 DEF LastOf

-----------------------------------------------------------------------------
(* Runs of packet numbers                                                   *)

LEMMA SpanIsRun ==
  \A lo, hi \in Nat : lo <= hi => /\ Span(lo, hi) \in Seq(Nat) /\ Len(Span(lo, hi)) = hi - lo
                                  /\ \A i \in 1 .. hi - lo : Span(lo, hi)[i] = lo + i
<1> SUFFICES ASSUME NEW lo \in Nat, NEW hi \in Nat, lo <= hi
             PROVE  /\ Span(lo, hi) \in Seq(Nat) /\ Len(Span(lo, hi)) = hi - lo
                    /\ \A i \in 1 .. hi - lo : Span(lo, hi)[i] = lo + i
  OBVIOUS
<1>1. hi - lo \in Nat
  OBVIOUS
<1>2. ASSUME NEW i \in 1 .. hi - lo PROVE lo + i \in Nat
  OBVIOUS
<1> QED
  BY <1>1, <1>2 DEF Span

LEMMA NothingInSpan == \A n \in Nat : Span(n, n) = <<>>
<1> SUFFICES ASSUME NEW n \in Nat PROVE Span(n, n) = <<>>
  OBVIOUS
<1>1. Span(n, n) \in Seq(Nat) /\ Len(Span(n, n)) = 0
  BY SpanIsRun
<1> QED
  BY <1>1, EmptySeq

LEMMA SpanGrows ==
  \A lo, hi \in Nat : lo <= hi => Append(Span(lo, hi), hi + 1) = Span(lo, hi + 1)
<1> SUFFICES ASSUME NEW lo \in Nat, NEW hi \in Nat, lo <= hi
             PROVE  Append(Span(lo, hi), hi + 1) = Span(lo, hi + 1)
  OBVIOUS
<1> DEFINE a == Span(lo, hi)
           c == Span(lo, hi + 1)
           d == Append(a, hi + 1)
<1>1. /\ a \in Seq(Nat) /\ Len(a) = hi - lo
      /\ \A i \in 1 .. hi - lo : a[i] = lo + i
  BY SpanIsRun
<1>2. /\ c \in Seq(Nat) /\ Len(c) = hi + 1 - lo
      /\ \A i \in 1 .. hi + 1 - lo : c[i] = lo + i
  BY SpanIsRun
<1> HIDE DEF a, c
<1>3. /\ d \in Seq(Nat) /\ Len(d) = hi - lo + 1 /\ d[hi - lo + 1] = hi + 1
      /\ \A i \in 1 .. hi - lo : d[i] = a[i]
  BY <1>1, AppendProperties
<1> HIDE DEF d
<1>4. Len(c) = Len(d)
  BY <1>2, <1>3
<1>5. ASSUME NEW i \in 1 .. Len(d) PROVE d[i] = c[i]
  <2>1. i \in 1 .. hi + 1 - lo /\ (i \in 1 .. hi - lo \/ i = hi - lo + 1)
    BY <1>3
  <2>2. CASE i \in 1 .. hi - lo
    BY <1>1, <1>2, <1>3, <2>1, <2>2
  <2>3. CASE i = hi - lo + 1
    <3>1. lo + i = hi + 1 /\ c[i] = lo + i
      BY <1>2, <2>1, <2>3
    <3> QED
      BY <1>3, <2>3, <3>1
  <2> QED
    BY <2>1, <2>2, <2>3
<1>6. c = d
  BY <1>2, <1>3, <1>4, <1>5, SeqEqual
<1> QED
  BY <1>6 DEF c, d, a

LEMMA SpanShrinks ==
  \A lo, hi \in Nat : lo < hi =>
    /\ Span(lo, hi) # <<>> /\ Head(Span(lo, hi)) = lo + 1
    /\ Tail(Span(lo, hi)) = Span(lo + 1, hi)
<1> SUFFICES ASSUME NEW lo \in Nat, NEW hi \in Nat, lo < hi
             PROVE  /\ Span(lo, hi) # <<>> /\ Head(Span(lo, hi)) = lo + 1
                    /\ Tail(Span(lo, hi)) = Span(lo + 1, hi)
  OBVIOUS
<1> DEFINE a == Span(lo, hi)
           c == Span(lo + 1, hi)
           d == Tail(a)
<1>1. /\ a \in Seq(Nat) /\ Len(a) = hi - lo
      /\ \A i \in 1 .. hi - lo : a[i] = lo + i
  BY SpanIsRun
<1>2. /\ c \in Seq(Nat) /\ Len(c) = hi - (lo + 1)
      /\ \A i \in 1 .. hi - (lo + 1) : c[i] = lo + 1 + i
  BY SpanIsRun
<1> HIDE DEF a, c
<1>3. a # <<>>
  <2>1. Len(<<>>) = 0 /\ Len(a) # 0
    BY <1>1
  <2> QED
    BY <2>1
<1>4. Head(a) = lo + 1
  <2>1. Head(a) = a[1]
    BY <1>1, <1>3
  <2> QED
    BY <1>1, <2>1
<1>5. /\ d \in Seq(Nat) /\ Len(d) = hi - lo - 1
      /\ \A i \in 1 .. Len(d) : d[i] = a[i + 1]
  BY <1>1, <1>3, HeadTailProperties
<1> HIDE DEF d
<1>6. Len(c) = Len(d)
  BY <1>2, <1>5
<1>7. ASSUME NEW i \in 1 .. Len(d) PROVE d[i] = c[i]
  <2>1. i \in 1 .. hi - (lo + 1) /\ i + 1 \in 1 .. hi - lo
    BY <1>5
  <2>2. d[i] = lo + (i + 1) /\ c[i] = lo + 1 + i
    BY <1>1, <1>2, <1>5, <2>1
  <2> QED
    BY <2>2
<1>8. c = d
  BY <1>2, <1>5, <1>6, <1>7, SeqEqual
<1> QED
  BY <1>3, <1>4, <1>8 DEF c, d, a

LEMMA SpanSplits ==
  \A lo, mid, hi \in Nat : lo <= mid /\ mid <= hi =>
    /\ SubSeq(Span(lo, hi), 1, mid - lo) = Span(lo, mid)
    /\ SubSeq(Span(lo, hi), mid - lo + 1, Len(Span(lo, hi))) = Span(mid, hi)
    /\ Span(lo, mid) \o Span(mid, hi) = Span(lo, hi)
<1> SUFFICES ASSUME NEW lo \in Nat, NEW mid \in Nat, NEW hi \in Nat, lo <= mid, mid <= hi
             PROVE  /\ SubSeq(Span(lo, hi), 1, mid - lo) = Span(lo, mid)
                    /\ SubSeq(Span(lo, hi), mid - lo + 1, Len(Span(lo, hi))) = Span(mid, hi)
                    /\ Span(lo, mid) \o Span(mid, hi) = Span(lo, hi)
  OBVIOUS
<1> DEFINE a == Span(lo, hi)
           c == Span(lo, mid)
           d == Span(mid, hi)
           x == SubSeq(a, 1, mid - lo)
           y == SubSeq(a, mid - lo + 1, hi - lo)
           z == c \o d
<1>1. /\ a \in Seq(Nat) /\ Len(a) = hi - lo
      /\ \A i \in 1 .. hi - lo : a[i] = lo + i
  BY SpanIsRun
<1>2. /\ c \in Seq(Nat) /\ Len(c) = mid - lo
      /\ \A i \in 1 .. mid - lo : c[i] = lo + i
  BY SpanIsRun
<1>3. /\ d \in Seq(Nat) /\ Len(d) = hi - mid
      /\ \A i \in 1 .. hi - mid : d[i] = mid + i
  BY SpanIsRun
<1> HIDE DEF a, c, d
<1>4. \A i \in 1 .. hi - lo : a[i] \in Nat
  BY <1>1
<1>5. x = c
  <2>1. mid - lo \in Int /\ \A i \in 1 .. mid - lo : a[i] \in Nat
    BY <1>4
  <2>2. /\ x \in Seq(Nat)
        /\ Len(x) = IF 1 <= mid - lo THEN mid - lo - 1 + 1 ELSE 0
        /\ \A i \in 1 .. mid - lo - 1 + 1 : x[i] = a[1 + i - 1]
    BY <2>1, SubSeqProperties
  <2> HIDE DEF x
  <2>3. Len(x) = Len(c)
    BY <1>2, <2>2
  <2>4. ASSUME NEW i \in 1 .. Len(c) PROVE x[i] = c[i]
    <3>1. i \in 1 .. mid - lo - 1 + 1 /\ 1 + i - 1 = i /\ i \in 1 .. hi - lo /\ i \in 1 .. mid - lo
      BY <1>2
    <3>2. x[i] = a[1 + i - 1]
      BY <2>2, <3>1
    <3> QED
      BY <1>1, <1>2, <3>1, <3>2
  <2> QED
    BY <1>2, <2>2, <2>3, <2>4, SeqEqual
<1>6. y = d
  <2>1. /\ mid - lo + 1 \in Int /\ hi - lo \in Int
        /\ \A i \in mid - lo + 1 .. hi - lo : a[i] \in Nat
    BY <1>4
  <2>2. /\ y \in Seq(Nat)
        /\ Len(y) = IF mid - lo + 1 <= hi - lo THEN hi - lo - (mid - lo + 1) + 1 ELSE 0
        /\ \A i \in 1 .. hi - lo - (mid - lo + 1) + 1 : y[i] = a[mid - lo + 1 + i - 1]
    BY <2>1, SubSeqProperties
  <2> HIDE DEF y
  <2>3. Len(y) = Len(d)
    BY <1>3, <2>2
  <2>4. ASSUME NEW i \in 1 .. Len(d) PROVE y[i] = d[i]
    <3>1. /\ i \in 1 .. hi - lo - (mid - lo + 1) + 1
          /\ mid - lo + 1 + i - 1 = mid - lo + i
          /\ mid - lo + i \in 1 .. hi - lo /\ lo + (mid - lo + i) = mid + i
          /\ i \in 1 .. hi - mid
      BY <1>3
    <3>2. y[i] = a[mid - lo + i]
      BY <2>2, <3>1
    <3>3. a[mid - lo + i] = lo + (mid - lo + i)
      BY <1>1, <3>1
    <3> QED
      BY <1>3, <3>1, <3>2, <3>3
  <2> QED
    BY <1>3, <2>2, <2>3, <2>4, SeqEqual
<1>7. z = a
  <2>1. /\ z \in Seq(Nat) /\ Len(z) = Len(c) + Len(d)
        /\ \A i \in 1 .. Len(c) + Len(d) : z[i] = IF i <= Len(c) THEN c[i] ELSE d[i - Len(c)]
    BY <1>2, <1>3, ConcatProperties
  <2> HIDE DEF z
  <2>2. Len(z) = Len(a)
    BY <1>1, <1>2, <1>3, <2>1
  <2>3. ASSUME NEW i \in 1 .. Len(a) PROVE z[i] = a[i]
    <3>1. i \in 1 .. Len(c) + Len(d) /\ i \in 1 .. hi - lo
      BY <1>1, <1>2, <1>3
    <3>2. CASE i <= mid - lo
      <4>1. z[i] = c[i] /\ i \in 1 .. mid - lo
        BY <1>2, <2>1, <3>1, <3>2
      <4> QED
        BY <1>1, <1>2, <3>1, <4>1
    <3>3. CASE ~(i <= mid - lo)
      <4>1. /\ i - (mid - lo) \in 1 .. hi - mid
            /\ mid + (i - (mid - lo)) = lo + i
        BY <3>1, <3>3
      <4>2. z[i] = d[i - (mid - lo)]
        BY <1>2, <2>1, <3>1, <3>3
      <4>3. d[i - (mid - lo)] = mid + (i - (mid - lo))
        BY <1>3, <4>1
      <4> QED
        BY <1>1, <3>1, <4>1, <4>2, <4>3
    <3> QED
      BY <3>2, <3>3
  <2> QED
    BY <1>1, <2>1, <2>2, <2>3, SeqEqual
<1>8. SubSeq(a, mid - lo + 1, Len(a)) = d
  BY <1>1, <1>6
<1> QED
  BY <1>5, <1>7, <1>8 DEF a, c, d

-----------------------------------------------------------------------------
(* The byte stream implements PacketChannel                                 *)

LEMMA StreamLast ==
  ASSUME NEW buf \in Seq(Bytes), NEW w \in Seq(Bytes), NEW s \in Seq(Lengths),
         NEW t \in Nat, NEW at, StreamLaid(buf, w, s, t, at)
  PROVE  \E m : UpTo(at, Len(buf), t, Len(s), m)
<1> DEFINE l == Len(s)
           e == Len(buf) + Len(w)
           b == Len(buf)
           st == buf \o w
<1>1. l \in Nat /\ Sizes(s, l)
  BY LengthsAreSizes
<1>2. e \in Nat /\ b \in 0 .. e
  BY LenProperties
<1>3. Laid(st, e, s, l, t, at)
  BY DEF StreamLaid
<1> HIDE DEF l, e, b, st
<1>4. \E m : UpTo(at, b, t, l, m)
  BY <1>1, <1>2, <1>3, SomeLast
<1> QED
  BY <1>4 DEF b, l

LEMMA GotIsSpan ==
  ASSUME NEW tk \in Seq(Packet), NEW s, AsSent(tk, s)
  PROVE  [i \in DOMAIN tk |-> tk[i].of] = Span(0, Len(tk))
<1>1. Len(tk) \in Nat /\ DOMAIN tk = 1 .. Len(tk)
  BY LenProperties
<1>2. \A i \in 1 .. Len(tk) : tk[i].of = i
  BY DEF AsSent
<1>3. 1 .. Len(tk) - 0 = 1 .. Len(tk) /\ \A i \in 1 .. Len(tk) : 0 + i = i
  BY <1>1
<1> QED
  BY <1>1, <1>2, <1>3 DEF Span

(* The stream has been cut after t packets of l, m of them in the buffer to *)
(* their last byte.                                                         *)
Cuts(t, m, l) ==
  /\ t \in Nat /\ m \in t .. l /\ l \in Nat
  /\ [i \in DOMAIN taken |-> taken[i].of] = Span(0, t)
  /\ Span(Len(taken), LastArrived) = Span(t, m)
  /\ Span(LastArrived, Len(sent)) = Span(m, l)

LEMMA CutsAt ==
  ASSUME FramingInv, NEW at, StreamLaid(buffer, wire, sent, Len(taken), at),
         NEW m, UpTo(at, Len(buffer), Len(taken), Len(sent), m)
  PROVE  Cuts(Len(taken), m, Len(sent))
<1>1. FramingTypes /\ AsSent(taken, sent)
  BY WholeIsAsSent DEF FramingInv, FramingTypes
<1>2. Len(taken) \in Nat /\ Len(sent) \in Nat
  BY <1>1, LenProperties DEF FramingTypes
<1>3. LastArrived = m
  BY <1>1, <1>2, LastIs, LastIsLast DEF FramingTypes
<1>4. [i \in DOMAIN taken |-> taken[i].of] = Span(0, Len(taken))
  BY <1>1, GotIsSpan DEF FramingTypes
<1>5. m \in Len(taken) .. Len(sent)
  BY DEF UpTo
<1> QED
  BY <1>2, <1>3, <1>4, <1>5 DEF Cuts

LEMMA CutsAtThen ==
  (\A at, m : /\ FramingInv
              /\ StreamLaid(buffer, wire, sent, Len(taken), at)
              /\ UpTo(at, Len(buffer), Len(taken), Len(sent), m)
              => Cuts(Len(taken), m, Len(sent)))'
<1>1. \A at, m : /\ FramingInv
                 /\ StreamLaid(buffer, wire, sent, Len(taken), at)
                 /\ UpTo(at, Len(buffer), Len(taken), Len(sent), m)
                 => Cuts(Len(taken), m, Len(sent))
  BY CutsAt
<1> QED
  BY <1>1, PTL

(* What a step of the framing does to the channel.                          *)
LEMMA ChannelSends ==
  ASSUME NEW t, NEW m, NEW l, Cuts(t, m, l), NEW l1, l1 = l + 1,
         Cuts(t, m, l1)'
  PROVE  Channel!Send
<1>1. t \in Nat /\ m \in Nat /\ l \in Nat /\ t <= m /\ m <= l
  BY DEF Cuts
<1>2. /\ [i \in DOMAIN taken |-> taken[i].of] = Span(0, t)
      /\ Span(Len(taken), LastArrived) = Span(t, m)
      /\ Span(LastArrived, Len(sent)) = Span(m, l)
  BY DEF Cuts
<1>3. /\ [i \in DOMAIN taken |-> taken[i].of]' = Span(0, t)
      /\ Span(Len(taken), LastArrived)' = Span(t, m)
      /\ Span(LastArrived, Len(sent))' = Span(m, l1)
  BY DEF Cuts
<1>4. Len(Span(0, t)) + Len(Span(t, m)) + Len(Span(m, l)) + 1 = l1
  <2>1. Len(Span(0, t)) = t
    <3>1. 0 \in Nat /\ 0 <= t /\ t - 0 = t
      BY <1>1
    <3>2. Len(Span(0, t)) = t - 0
      BY <1>1, <3>1, SpanIsRun
    <3> QED
      BY <3>1, <3>2
  <2>2. Len(Span(t, m)) = m - t
    BY <1>1, SpanIsRun
  <2>3. Len(Span(m, l)) = l - m
    BY <1>1, SpanIsRun
  <2> QED
    BY <1>1, <2>1, <2>2, <2>3
<1>5. Span(m, l1) = Append(Span(m, l), l1)
  BY <1>1, SpanGrows
<1> QED
  BY <1>2, <1>3, <1>4, <1>5 DEF Channel!Send

LEMMA ChannelArrives ==
  ASSUME NEW t, NEW m, NEW l, Cuts(t, m, l), NEW m1, m1 \in m + 1 .. l,
         Cuts(t, m1, l)'
  PROVE  Channel!Arrive
<1>1. t \in Nat /\ m \in Nat /\ m1 \in Nat /\ l \in Nat /\ t <= m /\ m <= m1 /\ m1 <= l
  BY DEF Cuts
<1>2. /\ [i \in DOMAIN taken |-> taken[i].of] = Span(0, t)
      /\ Span(Len(taken), LastArrived) = Span(t, m)
      /\ Span(LastArrived, Len(sent)) = Span(m, l)
  BY DEF Cuts
<1>3. /\ [i \in DOMAIN taken |-> taken[i].of]' = Span(0, t)
      /\ Span(Len(taken), LastArrived)' = Span(t, m1)
      /\ Span(LastArrived, Len(sent))' = Span(m1, l)
  BY DEF Cuts
<1>4. m1 - m \in 1 .. Len(Span(m, l))
  <2>1. Len(Span(m, l)) = l - m
    BY <1>1, SpanIsRun
  <2> QED
    BY <1>1, <2>1
<1>5. Span(t, m1) = Span(t, m) \o SubSeq(Span(m, l), 1, m1 - m)
  <2>1. SubSeq(Span(m, l), 1, m1 - m) = Span(m, m1)
    BY <1>1, SpanSplits
  <2>2. Span(t, m) \o Span(m, m1) = Span(t, m1)
    BY <1>1, SpanSplits
  <2> QED
    BY <2>1, <2>2
<1>6. Span(m1, l) = SubSeq(Span(m, l), m1 - m + 1, Len(Span(m, l)))
  BY <1>1, SpanSplits
<1> QED
  BY <1>2, <1>3, <1>4, <1>5, <1>6 DEF Channel!Arrive

LEMMA ChannelTakes ==
  ASSUME NEW t, NEW m, NEW l, Cuts(t, m, l), t < m, NEW t1, t1 = t + 1,
         Cuts(t1, m, l)'
  PROVE  Channel!Take
<1>1. t \in Nat /\ m \in Nat /\ l \in Nat /\ t < m
  BY DEF Cuts
<1>2. /\ [i \in DOMAIN taken |-> taken[i].of] = Span(0, t)
      /\ Span(Len(taken), LastArrived) = Span(t, m)
      /\ Span(LastArrived, Len(sent)) = Span(m, l)
  BY DEF Cuts
<1>3. /\ [i \in DOMAIN taken |-> taken[i].of]' = Span(0, t1)
      /\ Span(Len(taken), LastArrived)' = Span(t1, m)
      /\ Span(LastArrived, Len(sent))' = Span(m, l)
  BY DEF Cuts
<1>4. /\ Span(t, m) # <<>> /\ Head(Span(t, m)) = t1
      /\ Tail(Span(t, m)) = Span(t1, m)
  BY <1>1, SpanShrinks
<1>5. Append(Span(0, t), t1) = Span(0, t1)
  <2>1. 0 \in Nat /\ 0 <= t
    BY <1>1
  <2>2. Append(Span(0, t), t + 1) = Span(0, t + 1)
    BY <1>1, <2>1, SpanGrows
  <2> QED
    BY <2>2
<1> QED
  BY <1>2, <1>3, <1>4, <1>5 DEF Channel!Take

LEMMA ChannelRests ==
  ASSUME NEW t, NEW m, NEW l, Cuts(t, m, l), Cuts(t, m, l)'
  PROVE  UNCHANGED Channel!channelVars
BY DEF Cuts, Channel!channelVars

LEMMA ChannelBreaks ==
  ASSUME NEW n \in Nat, Cuts(0, n, n)', n = 0
  PROVE  Channel!Break
<1>1. /\ [i \in DOMAIN taken |-> taken[i].of]' = Span(0, 0)
      /\ Span(Len(taken), LastArrived)' = Span(0, 0)
      /\ Span(LastArrived, Len(sent))' = Span(0, 0)
  BY DEF Cuts
<1>2. Span(0, 0) = <<>>
  BY NothingInSpan
<1> QED
  BY <1>1, <1>2 DEF Channel!Break

(* Bounds that the layout of the stream gives.                              *)
Bounds(buf, w, s, t, at) ==
  /\ Len(buf) \in Nat /\ Len(w) \in Nat /\ Len(s) \in Nat /\ t \in 0 .. Len(s)
  /\ at \in [t + 1 .. Len(s) + 1 -> Nat]
  /\ at[t + 1] = 0 /\ at[Len(s) + 1] = Len(buf) + Len(w)

LEMMA StreamBounds ==
  ASSUME NEW buf \in Seq(Bytes), NEW w \in Seq(Bytes), NEW s \in Seq(Lengths),
         NEW t \in Nat, NEW at, StreamLaid(buf, w, s, t, at)
  PROVE  Bounds(buf, w, s, t, at)
BY LenProperties DEF Bounds, StreamLaid, Laid

LEMMA CutsNow ==
  ASSUME FramingInv, NEW t, t = Len(taken), NEW l, l = Len(sent), NEW b, b = Len(buffer),
         NEW at, StreamLaid(buffer, wire, sent, t, at), NEW m, UpTo(at, b, t, l, m)
  PROVE  Cuts(t, m, l)
BY CutsAt

LEMMA CutsThen ==
  ASSUME FramingInv', NEW t, t = Len(taken'), NEW l, l = Len(sent'), NEW b, b = Len(buffer'),
         NEW at, StreamLaid(buffer', wire', sent', t, at), NEW m, UpTo(at, b, t, l, m)
  PROVE  Cuts(t, m, l)'
<1>1. Cuts(Len(taken), m, Len(sent))'
  BY CutsAtThen
<1> QED
  BY <1>1 DEF Cuts

LEMMA SendIsSend ==
  ASSUME FramingInv, FramingInv', NEW len \in Lengths, SendPacket(len)
  PROVE  Channel!Send
<1>1. FramingTypes
  BY DEF FramingInv
<1>2. PICK t \in Nat : t = Len(taken)
  BY <1>1, LenProperties DEF FramingTypes
<1>3. PICK l \in Nat : l = Len(sent)
  BY <1>1, LenProperties DEF FramingTypes
<1>4. PICK b \in Nat : b = Len(buffer)
  BY <1>1, LenProperties DEF FramingTypes
<1>5. /\ sent' = Append(sent, len) /\ wire' = wire \o PacketBytes(l + 1, len)
      /\ buffer' = buffer /\ taken' = taken
  BY <1>1, <1>3, AppendProperties DEF SendPacket, FramingTypes
<1>6. sent' \in Seq(Lengths) /\ Len(sent') = l + 1
  BY <1>1, <1>3, <1>5, AppendProperties DEF FramingTypes
<1>7. PICK at : StreamLaid(buffer, wire, sent, t, at)
  BY <1>2 DEF FramingInv
<1>8. wire' \in Seq(Bytes) /\ StreamLaidBy(buffer, wire', sent', t, at, t + 1, l + 1, 0)
  BY <1>1, <1>3, <1>5, <1>7, SendLaid DEF FramingTypes
<1>9. PICK to : /\ StreamLaid(buffer, wire', sent', t, to)
                /\ \A n \in t + 1 .. l + 1 : at[n] = 0 + to[n]
  BY <1>8 DEF StreamLaidBy
<1>10. PICK m : UpTo(at, b, t, l, m)
  BY <1>1, <1>3, <1>4, <1>7, StreamLast DEF FramingTypes
<1>11. m \in t .. l /\ \A n \in t + 1 .. l : at[n + 1] <= b <=> n <= m
  BY <1>10 DEF UpTo
<1>12. /\ Len(wire') \in Nat /\ t \in 0 .. l + 1
       /\ to \in [t + 1 .. l + 1 + 1 -> Nat] /\ to[l + 1 + 1] = b + Len(wire')
  <2>1. buffer \in Seq(Bytes)
    BY <1>1 DEF FramingTypes
  <2>2. Bounds(buffer, wire', sent', t, to)
    BY <1>6, <1>8, <1>9, <2>1, StreamBounds
  <2> QED
    BY <1>4, <1>6, <2>2 DEF Bounds
<1>13. Len(wire') > 0
  <2> DEFINE pb == PacketBytes(l + 1, len)
  <2>1. len \in Nat /\ l + 1 \in Nat
    BY FramingAssumption
  <2>2. IsPacket(pb, l + 1, len)
    BY <2>1, PacketIsBytes
  <2> HIDE DEF pb
  <2>3. pb \in Seq(Bytes) /\ Len(pb) > 0
    BY <2>1, <2>2 DEF IsPacket, HeaderSize
  <2>4. IsJoin(wire \o pb, wire, pb)
    BY <1>1, <2>3, Joined DEF FramingTypes
  <2>5. Len(wire \o pb) = Len(wire) + Len(pb) /\ Len(wire) \in Nat /\ Len(pb) \in Nat
    BY <2>4 DEF IsJoin
  <2>6. Len(wire \o pb) > 0
    BY <2>3, <2>5
  <2> QED
    BY <1>5, <2>6 DEF pb
<1>14. PICK v \in Nat : v = Len(wire')
  BY <1>12
<1>15. ASSUME NEW n \in t + 1 .. l + 1 PROVE to[n + 1] <= b <=> n <= m
  <2>1. CASE n = l + 1
    <3>1. to[n + 1] = b + v /\ v > 0 /\ ~(n <= m)
      BY <1>11, <1>12, <1>13, <1>14, <2>1
    <3> QED
      BY <3>1
  <2>2. CASE n # l + 1
    <3>1. n \in t + 1 .. l /\ n + 1 \in t + 1 .. l + 1 /\ n + 1 \in t + 1 .. l + 1 + 1
      BY <2>2
    <3>2. at[n + 1] = 0 + to[n + 1] /\ to[n + 1] \in Nat
      BY <1>9, <1>12, <3>1
    <3>3. at[n + 1] = to[n + 1]
      BY <3>2
    <3> QED
      BY <1>11, <3>1, <3>3
  <2> QED
    BY <2>1, <2>2
<1>16. m \in t .. l + 1
  BY <1>11
<1> DEFINE l1 == l + 1
<1>17. UpTo(to, b, t, l1, m)
  BY <1>15, <1>16 DEF UpTo
<1>18. t = Len(taken') /\ l1 = Len(sent') /\ b = Len(buffer')
       /\ StreamLaid(buffer', wire', sent', t, to)
  BY <1>2, <1>4, <1>5, <1>6, <1>9
<1>19. l1 = l + 1
  OBVIOUS
<1> HIDE DEF l1
<1>20. Cuts(t, m, l)
  BY <1>2, <1>3, <1>4, <1>7, <1>10, CutsNow
<1>21. Cuts(t, m, l1)'
  BY <1>17, <1>18, CutsThen
<1> QED
  BY <1>19, <1>20, <1>21, ChannelSends

LEMMA ReadIsArrive ==
  ASSUME FramingInv, FramingInv', ReadyRead
  PROVE  Channel!Arrive \/ UNCHANGED Channel!channelVars
<1>1. FramingTypes
  BY DEF FramingInv
<1>2. PICK t \in Nat : t = Len(taken)
  BY <1>1, LenProperties DEF FramingTypes
<1>3. PICK l \in Nat : l = Len(sent)
  BY <1>1, LenProperties DEF FramingTypes
<1>4. PICK b \in Nat : b = Len(buffer)
  BY <1>1, LenProperties DEF FramingTypes
<1>5. PICK k \in 1 .. Len(wire) : /\ buffer' = buffer \o SubSeq(wire, 1, k)
                                  /\ wire' = SubSeq(wire, k + 1, Len(wire))
  BY DEF ReadyRead
<1>6. sent' = sent /\ taken' = taken
  BY DEF ReadyRead
<1>7. /\ buffer' \in Seq(Bytes) /\ wire' \in Seq(Bytes) /\ Len(buffer') = b + k
      /\ \A s, u, a : StreamLaid(buffer, wire, s, u, a) => StreamLaid(buffer', wire', s, u, a)
  BY <1>1, <1>4, <1>5, ReadLaid DEF FramingTypes
<1>8. PICK at : StreamLaid(buffer, wire, sent, t, at)
  BY <1>2 DEF FramingInv
<1>9. StreamLaid(buffer', wire', sent', t, at)
  BY <1>6, <1>7, <1>8
<1>10. PICK c \in Nat : c = Len(buffer') /\ b <= c
  <2>1. b + k \in Nat /\ b <= b + k
    OBVIOUS
  <2> QED
    BY <1>7, <2>1
<1>11. PICK m : UpTo(at, b, t, l, m)
  BY <1>1, <1>3, <1>4, <1>8, StreamLast DEF FramingTypes
<1>12. PICK m1 : UpTo(at, c, t, l, m1)
  BY <1>1, <1>3, <1>6, <1>7, <1>9, <1>10, StreamLast DEF FramingTypes
<1>13. at \in [t + 1 .. l + 1 -> Nat]
  <2>1. Bounds(buffer, wire, sent, t, at)
    BY <1>1, <1>8, StreamBounds DEF FramingTypes
  <2> QED
    BY <1>3, <2>1 DEF Bounds
<1>14. m \in t .. l /\ m1 \in t .. l /\ m <= m1
  <2>1. /\ m \in t .. l /\ m1 \in t .. l
        /\ \A n \in t + 1 .. l : at[n + 1] <= b <=> n <= m
        /\ \A n \in t + 1 .. l : at[n + 1] <= c <=> n <= m1
    BY <1>11, <1>12 DEF UpTo
  <2>2. CASE m = t
    BY <2>1, <2>2
  <2>3. CASE m # t
    <3>1. m \in t + 1 .. l /\ m <= m /\ m + 1 \in t + 1 .. l + 1
      BY <2>1, <2>3
    <3>2. at[m + 1] <= b /\ at[m + 1] \in Nat
      BY <1>13, <2>1, <3>1
    <3>3. at[m + 1] <= c
      BY <1>10, <3>2
    <3>4. m <= m1
      BY <2>1, <3>1, <3>3
    <3> QED
      BY <2>1, <3>4
  <2> QED
    BY <2>2, <2>3
<1>15. Cuts(t, m, l)
  BY <1>2, <1>3, <1>4, <1>8, <1>11, CutsNow
<1>16. Cuts(t, m1, l)'
  BY <1>2, <1>3, <1>6, <1>9, <1>10, <1>12, CutsThen
<1>17. CASE m1 = m
  BY <1>15, <1>16, <1>17, ChannelRests
<1>18. CASE m1 # m
  <2>1. m1 \in m + 1 .. l
    BY <1>14, <1>18
  <2> QED
    BY <1>15, <1>16, <2>1, ChannelArrives
<1> QED
  BY <1>17, <1>18

LEMMA TakeIsTake ==
  ASSUME PacketsFit, FramingInv, FramingInv', TakePacket PROVE Channel!Take
<1>1. FramingTypes
  BY DEF FramingInv
<1>2. PICK t \in Nat : t = Len(taken)
  BY <1>1, LenProperties DEF FramingTypes
<1>3. PICK l \in Nat : l = Len(sent)
  BY <1>1, LenProperties DEF FramingTypes
<1>4. PICK b \in Nat : b = Len(buffer)
  BY <1>1, LenProperties DEF FramingTypes
<1>5. PICK at : StreamLaid(buffer, wire, sent, t, at)
  BY <1>2 DEF FramingInv
<1>6. /\ t + 1 \in 1 .. l /\ t # l
      /\ HeaderSize + sent[t + 1] \in Nat /\ HeaderSize + sent[t + 1] <= b
      /\ \E q : taken' = Append(taken, q)
      /\ buffer' = SubSeq(buffer, HeaderSize + sent[t + 1] + 1, b)
      /\ sent' = sent /\ wire' = wire
  <2>1. StreamLaid(buffer, wire, sent, Len(taken), at)
    BY <1>2, <1>5
  <2> QED
    BY <1>1, <1>2, <1>3, <1>4, <2>1, TakeIsNext
<1>7. PICK d \in Nat : d = HeaderSize + sent[t + 1]
  BY <1>6
<1>8. IsTotal(d, sent[t + 1]) /\ d <= b /\ buffer' = SubSeq(buffer, d + 1, b)
  BY <1>6, <1>7 DEF IsTotal
<1>9. /\ buffer' \in Seq(Bytes) /\ Len(buffer') = b - d
      /\ StreamLaidBy(buffer', wire, sent, t + 1, at, t + 1 + 1, l + 1, d)
  <2> DEFINE x == SubSeq(buffer, d + 1, Len(buffer))
  <2>1. buffer \in Seq(Bytes) /\ wire \in Seq(Bytes) /\ sent \in Seq(Lengths)
    BY <1>1 DEF FramingTypes
  <2>2. t # Len(sent) /\ d <= Len(buffer)
    BY <1>3, <1>4, <1>6, <1>8
  <2>3. /\ x \in Seq(Bytes) /\ Len(x) = Len(buffer) - d
        /\ StreamLaidBy(x, wire, sent, t + 1, at, t + 1 + 1, Len(sent) + 1, d)
    BY <1>5, <1>8, <2>1, <2>2, TakeLaid
  <2>4. buffer' = x
    BY <1>4, <1>8
  <2> HIDE DEF x
  <2> QED
    BY <1>3, <1>4, <2>3, <2>4
<1>10. PICK to : /\ StreamLaid(buffer', wire, sent, t + 1, to)
                 /\ \A n \in t + 1 + 1 .. l + 1 : at[n] = d + to[n]
  BY <1>9 DEF StreamLaidBy
<1>11. PICK m : UpTo(at, b, t, l, m)
  BY <1>1, <1>3, <1>4, <1>5, StreamLast DEF FramingTypes
<1>12. m \in t .. l /\ \A n \in t + 1 .. l : at[n + 1] <= b <=> n <= m
  BY <1>11 DEF UpTo
<1>13. PICK t1 \in Nat : t1 = t + 1
  OBVIOUS
<1>14. to \in [t1 + 1 .. l + 1 -> Nat] /\ to[t1 + 1] = 0 /\ t1 \in 0 .. l
  <2>1. Bounds(buffer', wire, sent, t1, to)
    BY <1>1, <1>9, <1>10, <1>13, StreamBounds DEF FramingTypes
  <2> QED
    BY <1>3, <2>1 DEF Bounds
<1>15. PICK c \in Nat : c = Len(buffer') /\ b = d + c
  <2>1. b - d \in Nat /\ b = d + (b - d)
    BY <1>8
  <2> QED
    BY <1>9, <2>1
<1>16. t < m
  <2>1. t1 \in t + 1 .. l /\ t1 + 1 \in t + 1 + 1 .. l + 1
    BY <1>13, <1>14
  <2>2. at[t1 + 1] = d + to[t1 + 1]
    BY <1>10, <2>1
  <2>3. at[t1 + 1] = d
    BY <1>14, <2>2
  <2>4. t1 <= m
    BY <1>8, <1>12, <2>1, <2>3
  <2> QED
    BY <1>12, <1>13, <2>4
<1>17. ASSUME NEW n \in t1 + 1 .. l PROVE to[n + 1] <= c <=> n <= m
  <2>1. n \in t + 1 .. l /\ n + 1 \in t + 1 + 1 .. l + 1 /\ n + 1 \in t1 + 1 .. l + 1
    BY <1>13
  <2>2. at[n + 1] = d + to[n + 1] /\ to[n + 1] \in Nat
    BY <1>10, <1>14, <2>1
  <2>3. at[n + 1] <= b <=> to[n + 1] <= c
    BY <1>15, <2>2
  <2> QED
    BY <1>12, <2>1, <2>3
<1>18. m \in t1 .. l
  BY <1>12, <1>13, <1>16
<1>19. UpTo(to, c, t1, l, m)
  BY <1>17, <1>18 DEF UpTo
<1>20. t1 = Len(taken') /\ l = Len(sent') /\ StreamLaid(buffer', wire', sent', t1, to)
  <2>1. PICK q : taken' = Append(taken, q)
    BY <1>6
  <2>2. Len(taken') = t + 1
    BY <1>1, <1>2, <2>1, AppendProperties DEF FramingTypes
  <2> QED
    BY <1>3, <1>6, <1>10, <1>13, <2>2
<1>21. Cuts(t, m, l)
  BY <1>2, <1>3, <1>4, <1>5, <1>11, CutsNow
<1>22. Cuts(t1, m, l)'
  BY <1>15, <1>19, <1>20, CutsThen
<1> QED
  BY <1>13, <1>16, <1>21, <1>22, ChannelTakes

(* Nothing has been sent, or nothing is kept of what was.                   *)
LEMMA NothingCut ==
  ASSUME FramingInv, sent = <<>>, taken = <<>>, wire = <<>>, buffer = <<>>
  PROVE  Cuts(0, 0, 0)
<1>1. Len(taken) = 0 /\ Len(sent) = 0 /\ Len(buffer) = 0
  OBVIOUS
<1>2. FramingTypes
  BY DEF FramingInv
<1>3. PICK at : StreamLaid(buffer, wire, sent, Len(taken), at)
  BY DEF FramingInv
<1>4. PICK m : UpTo(at, Len(buffer), Len(taken), Len(sent), m)
  BY <1>1, <1>2, <1>3, StreamLast DEF FramingTypes
<1>5. Cuts(Len(taken), m, Len(sent))
  BY <1>3, <1>4, CutsAt
<1>6. m = 0
  BY <1>1, <1>4 DEF UpTo
<1> QED
  BY <1>1, <1>5, <1>6

LEMMA NothingCutThen ==
  (/\ FramingInv /\ sent = <<>> /\ taken = <<>> /\ wire = <<>> /\ buffer = <<>>
   => Cuts(0, 0, 0))'
<1>1. /\ FramingInv /\ sent = <<>> /\ taken = <<>> /\ wire = <<>> /\ buffer = <<>>
      => Cuts(0, 0, 0)
  BY NothingCut
<1> QED
  BY <1>1, PTL

LEMMA InitIsInit == FramingInit => Channel!ChInit
<1> SUFFICES ASSUME FramingInit PROVE Channel!ChInit
  OBVIOUS
<1>1. FramingInv
  BY InitFraming
<1>2. Cuts(0, 0, 0)
  BY <1>1, NothingCut DEF FramingInit
<1>3. Span(0, 0) = <<>>
  BY NothingInSpan
<1> QED
  BY <1>2, <1>3 DEF Cuts, Channel!ChInit

LEMMA StepIsStep ==
  ASSUME PacketsFit
  PROVE  FramingInv /\ [FramingNext]_framingVars
         => [Channel!Send \/ Channel!Arrive \/ Channel!Take \/ Channel!Break]_(Channel!channelVars)
<1> SUFFICES ASSUME FramingInv, [FramingNext]_framingVars
             PROVE  \/ Channel!Send \/ Channel!Arrive \/ Channel!Take \/ Channel!Break
                    \/ UNCHANGED Channel!channelVars
  OBVIOUS
<1>0. FramingInv'
  BY FramingInductive
<1>1. ASSUME NEW len \in Lengths, SendPacket(len) PROVE Channel!Send
  BY <1>0, <1>1, SendIsSend
<1>2. CASE ReadyRead
  BY <1>0, <1>2, ReadIsArrive
<1>3. CASE TakePacket
  BY <1>0, <1>3, TakeIsTake
<1>4. ASSUME UNCHANGED <<sent, wire, buffer, taken>> PROVE UNCHANGED Channel!channelVars
  <2>1. LastArrived' = LastArrived
    BY <1>4, LastIsLast
  <2> QED
    BY <1>4, <2>1 DEF Channel!channelVars
<1>5. CASE LoopEnds
  BY <1>4, <1>5 DEF LoopEnds
<1>6. CASE Reconnect
  <2>1. sent' = <<>> /\ wire' = <<>> /\ buffer' = <<>> /\ taken' = <<>>
    BY <1>6 DEF Reconnect
  <2>2. Cuts(0, 0, 0)'
    BY <1>0, <2>1, NothingCutThen
  <2> QED
    BY <2>2, ChannelBreaks
<1>7. CASE UNCHANGED framingVars
  BY <1>4, <1>7 DEF framingVars
<1> QED
  BY <1>1, <1>2, <1>3, <1>5, <1>6, <1>7 DEF FramingNext

(* Cutting the bytes of a connection into packets is a queue of packets,    *)
(* however TCP groups the bytes: what FixServer takes a connection to be.   *)
THEOREM FramingIsAChannel == ASSUME PacketsFit PROVE FramingSpec => RefinesChannel
<1>1. FramingInit => Channel!ChInit
  BY InitIsInit
<1>2. FramingInv /\ [FramingNext]_framingVars
      => [Channel!Send \/ Channel!Arrive \/ Channel!Take \/ Channel!Break]_(Channel!channelVars)
  BY StepIsStep
<1>3. FramingSpec => []FramingInv
  BY AlwaysFraming
<1> QED
  BY <1>1, <1>2, <1>3, PTL DEF FramingSpec, RefinesChannel, Channel!ChannelSpec
=============================================================================
