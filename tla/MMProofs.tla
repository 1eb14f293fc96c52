------------------------------ MODULE MMProofs -------------------------------
(***************************************************************************)
(* Proofs about the memory manager.                                        *)
(*                                                                         *)
(* The core map: the holes stay apart (HolesSeparate), there is always a   *)
(* slot for one more (HoleSlotLeft), and the list implements the set of    *)
(* free clicks of Memory (ImplementsMemory).  A list is looked at through  *)
(* its clicks.  Ordered(h, E) says that its holes are in order and that a  *)
(* hole touches the next one only if its index is in E: free_mem() puts a  *)
(* block between two holes that it may touch, and each comparison of       *)
(* merge() takes one index out of E.                                       *)
(*                                                                         *)
(* The processes: they stay a tree under INIT (TreeKept), and each call is *)
(* answered once (AnsweredOnce).  Both are of one invariant, Settled(m, X), *)
(* in which X has the processes whose call MM is doing.  It holds before   *)
(* and after each of MM's procedures, but not inside mm_exit(), where the  *)
(* kernel is still to be told of somebody's end, nor inside cleanup(),     *)
(* where INIT may wait for the dead that it has inherited: Sound(m, X, F)  *)
(* leaves out the former, F, and does not speak of who waits.              *)
(***************************************************************************)
EXTENDS Alloc, MMProcs, SeqLemmas, FiniteSetTheorems, TLAPS

Hole == [base : Nat, len : Nat \ {0}]
End(x) == x.base + x.len

Ordered(h, E) ==
  /\ h \in Seq(Hole)
  /\ \A i, j \in DOMAIN h : i < j => /\ End(h[i]) <= h[j].base
                                     /\ End(h[i]) = h[j].base => j = i + 1 /\ i \in E

\* What is known of the numbers in a list of holes.
LEMMA HoleNumbers ==
  ASSUME NEW h \in Seq(Hole)
  PROVE  /\ Len(h) \in Nat /\ DOMAIN h = 1 .. Len(h)
         /\ h \in [1 .. Len(h) -> Hole]
         /\ \A i \in DOMAIN h : /\ h[i] = [base |-> h[i].base, len |-> h[i].len]
                                /\ h[i].base \in Nat /\ h[i].len \in Nat
                                /\ End(h[i]) \in Nat /\ h[i].base < End(h[i])
<1>1. /\ Len(h) \in Nat /\ DOMAIN h = 1 .. Len(h)
      /\ h \in [1 .. Len(h) -> Hole]
  BY LenProperties
<1>2. \A i \in DOMAIN h : h[i] \in Hole
  BY <1>1
<1>3. \A x \in Hole : /\ x = [base |-> x.base, len |-> x.len]
                      /\ x.base \in Nat /\ x.len \in Nat
                      /\ End(x) \in Nat /\ x.base < End(x)
  BY DEF Hole, End
<1> QED BY <1>1, <1>2, <1>3

\* The clicks of a list are those between the base and the end of one of its holes.
LEMMA ClicksOf ==
  ASSUME NEW h \in Seq(Hole), NEW c
  PROVE  c \in HoleClicks(h) <=> c \in Nat /\ \E i \in DOMAIN h : h[i].base <= c /\ c < End(h[i])
<1>1. \A i \in DOMAIN h : h[i].base \in Nat /\ h[i].len \in Nat
  BY HoleNumbers
<1>2. ASSUME NEW i \in DOMAIN h
      PROVE  c \in Run(h[i].base, h[i].len) <=> c \in Nat /\ h[i].base <= c /\ c < End(h[i])
  BY <1>1 DEF Run, End
<1> QED
  BY <1>2 DEF HoleClicks

\* An ordered list without touching holes is one whose holes are separate.
LEMMA OrderedSeparate ==
  ASSUME NEW h
  PROVE  Ordered(h, {}) <=> h \in Seq(Hole) /\ Separate(h)
<1>1. ASSUME h \in Seq(Hole)
      PROVE  \A i \in DOMAIN h : End(h[i]) \in Nat /\ h[i].base \in Nat
  BY <1>1, HoleNumbers
<1>2. \A i, j \in DOMAIN h : End(h[i]) < h[j].base <=> h[i].base + h[i].len < h[j].base
  BY DEF End
<1> QED
  BY <1>1, <1>2 DEF Ordered, Separate

\* After i has been compared with i + 1 the indices from there on are one less.
Shift(E, i) == {e \in Nat : IF e < i THEN e \in E ELSE e + 1 \in E}

\* A comparison of merge(): the same clicks, and entry i no longer touches the next one
\* unless they became one.
LEMMA AbsorbFacts ==
  ASSUME NEW E, NEW h, Ordered(h, E), NEW i \in Nat \ {0}
  PROVE  /\ HoleClicks(Absorb(h, i)) = HoleClicks(h)
         /\ \/ Absorb(h, i) = h /\ Ordered(h, E \ {i})
            \/ Absorb(h, i) # h /\ Ordered(Absorb(h, i), Shift(E, i))
<1> DEFINE n == Len(h)
           touch == i < n /\ End(h[i]) = h[i + 1].base
<1>1. /\ h \in Seq(Hole) /\ n \in Nat /\ DOMAIN h = 1 .. n
      /\ h \in [1 .. n -> Hole]
      /\ \A k \in 1 .. n : /\ h[k] = [base |-> h[k].base, len |-> h[k].len]
                           /\ h[k].base \in Nat /\ h[k].len \in Nat
                           /\ End(h[k]) \in Nat /\ h[k].base < End(h[k])
  BY HoleNumbers DEF Ordered
<1>2. \A k, l \in 1 .. n : k < l => /\ End(h[k]) <= h[l].base
                                    /\ End(h[k]) = h[l].base => l = k + 1 /\ k \in E
  BY <1>1 DEF Ordered
<1>3. CASE ~touch
  <2>1. Absorb(h, i) = h
    BY <1>3 DEF Absorb, End
  <2>2. ASSUME NEW k \in 1 .. n, NEW l \in 1 .. n, k < l, End(h[k]) = h[l].base
        PROVE  k # i
    <3>1. l = k + 1
      BY <1>2, <2>2
    <3> QED BY <3>1, <2>2, <1>3, <1>1
  <2> QED BY <2>1, <2>2, <1>1, <1>2 DEF Ordered
<1>4. CASE touch
  <2> DEFINE g == [h EXCEPT ![i].len = @ + h[i + 1].len]
             r == RemoveAt(g, i + 1)
             lo(j) == IF j <= i THEN j ELSE j + 1
             hi(j) == IF j < i THEN j ELSE j + 1
  <2>1. Absorb(h, i) = r
    BY <1>4 DEF Absorb, End
  <2>2. i \in 1 .. n /\ i + 1 \in 1 .. n /\ n - 1 \in Nat
    BY <1>1, <1>4
  <2>3. /\ g \in Seq(Hole) /\ Len(g) = n /\ DOMAIN g = 1 .. n
        /\ \A k \in 1 .. n : g[k] = IF k = i THEN [base |-> h[i].base, len |-> h[i].len + h[i + 1].len]
                                    ELSE h[k]
    <3>1. g = [k \in 1 .. n |-> IF k = i THEN [h[i] EXCEPT !.len = @ + h[i + 1].len] ELSE h[k]]
      BY <1>1, <2>2
    <3>2. [h[i] EXCEPT !.len = @ + h[i + 1].len] = [base |-> h[i].base, len |-> h[i].len + h[i + 1].len]
      BY <1>1, <2>2
    <3>3. h[i].len + h[i + 1].len \in Nat \ {0}
      BY <1>1, <2>2 DEF End
    <3>4. [base |-> h[i].base, len |-> h[i].len + h[i + 1].len] \in Hole
      BY <3>3, <1>1, <2>2 DEF Hole
    <3>5. g \in [1 .. n -> Hole]
      BY <3>1, <3>2, <3>4, <1>1
    <3>6. g \in Seq(Hole)
      BY <3>5, <1>1
    <3>7. DOMAIN g = 1 .. n /\ Len(g) = n
      BY <3>5, <3>6, <1>1, LenProperties
    <3> QED BY <3>1, <3>2, <3>6, <3>7
  <2> HIDE DEF g
  <2>4. /\ r \in Seq(Hole) /\ Len(r) = n - 1
        /\ \A j \in 1 .. n - 1 : r[j] = IF j < i + 1 THEN g[j] ELSE g[j + 1]
    BY <2>2, <2>3, RemoveAtIndices, ZenonT(60)
  <2> HIDE DEF r
  <2>5. DOMAIN r = 1 .. n - 1
    BY <2>4, LenProperties
  <2>6. End(h[i]) = h[i + 1].base /\ End(h[i + 1]) = h[i].base + (h[i].len + h[i + 1].len)
    BY <1>4, <1>1, <2>2 DEF End
  <2>7. ASSUME NEW j \in 1 .. n - 1
        PROVE  /\ lo(j) \in 1 .. n /\ hi(j) \in 1 .. n
               /\ r[j].base = h[lo(j)].base /\ End(r[j]) = End(h[hi(j)])
    <3>1. CASE j < i
      <4>1. r[j] = h[j]
        BY <3>1, <2>2, <2>3, <2>4
      <4> QED BY <3>1, <4>1, <1>1, <2>2
    <3>2. CASE j = i
      <4>1. r[j] = [base |-> h[i].base, len |-> h[i].len + h[i + 1].len]
        BY <3>2, <2>2, <2>3, <2>4
      <4>2. r[j].base = h[i].base /\ End(r[j]) = End(h[i + 1])
        BY <4>1, <2>6 DEF End
      <4> QED BY <3>2, <4>2, <1>1, <2>2
    <3>3. CASE j > i
      <4>1. j + 1 \in 1 .. n /\ j + 1 # i /\ ~(j < i + 1)
        BY <3>3, <1>1, <2>2
      <4>2. r[j] = h[j + 1]
        BY <4>1, <2>3, <2>4
      <4> QED BY <3>3, <4>1, <4>2
    <3>4. j < i \/ j = i \/ j > i
      OBVIOUS
    <3> QED BY <3>1, <3>2, <3>3, <3>4
  <2>8. Ordered(r, Shift(E, i))
    <3>1. ASSUME NEW j \in 1 .. n - 1, NEW k \in 1 .. n - 1, j < k
          PROVE  /\ End(r[j]) <= r[k].base
                 /\ End(r[j]) = r[k].base => k = j + 1 /\ j \in Shift(E, i)
      <4>1. /\ End(r[j]) = End(h[hi(j)]) /\ r[k].base = h[lo(k)].base
            /\ hi(j) \in 1 .. n /\ lo(k) \in 1 .. n
        BY <2>7
      <4>2. hi(j) < lo(k)
        BY <3>1
      <4>3. /\ End(r[j]) <= r[k].base
            /\ End(r[j]) = r[k].base => lo(k) = hi(j) + 1 /\ hi(j) \in E
        BY <4>1, <4>2, <1>2
      <4>4. lo(k) = hi(j) + 1 /\ hi(j) \in E => k = j + 1 /\ j \in Shift(E, i)
        BY <3>1 DEF Shift
      <4> QED BY <4>3, <4>4
    <3> QED BY <3>1, <2>4, <2>5 DEF Ordered
  <2>9. HoleClicks(r) = HoleClicks(h)
    <3>1. ASSUME NEW c \in Nat, NEW j \in 1 .. n - 1, r[j].base <= c, c < End(r[j])
          PROVE  \E k \in 1 .. n : h[k].base <= c /\ c < End(h[k])
      <4>1. CASE j = i
        <5>1. h[i].base <= c /\ c < End(h[i + 1])
          BY <4>1, <3>1, <2>7
        <5>2. c < End(h[i]) \/ h[i + 1].base <= c
          BY <2>6, <1>1, <2>2
        <5> QED BY <5>1, <5>2, <2>2
      <4>2. CASE j # i
        <5>1. lo(j) = hi(j)
          BY <4>2
        <5> QED BY <5>1, <3>1, <2>7
      <4> QED BY <4>1, <4>2
    <3>2. ASSUME NEW c \in Nat, NEW k \in 1 .. n, h[k].base <= c, c < End(h[k])
          PROVE  \E j \in 1 .. n - 1 : r[j].base <= c /\ c < End(r[j])
      <4>1. CASE k = i \/ k = i + 1
        <5>1. i \in 1 .. n - 1 /\ r[i].base = h[i].base /\ End(r[i]) = End(h[i + 1])
          BY <2>2, <2>7, <1>1
        <5>2. /\ h[i].base \in Nat /\ End(h[i]) \in Nat /\ End(h[i + 1]) \in Nat
              /\ h[i].base < End(h[i]) /\ h[i + 1].base < End(h[i + 1]) /\ h[i + 1].base \in Nat
          BY <1>1, <2>2
        <5>3. h[i].base <= c /\ c < End(h[i + 1])
          BY <4>1, <5>2, <3>2, <2>6
        <5> QED BY <5>1, <5>3
      <4>2. CASE k < i
        <5>1. k \in 1 .. n - 1 /\ lo(k) = k /\ hi(k) = k
          BY <4>2, <2>2, <1>1
        <5> QED BY <5>1, <3>2, <2>7
      <4>3. CASE k > i + 1
        <5>1. k - 1 \in 1 .. n - 1 /\ lo(k - 1) = k /\ hi(k - 1) = k
          BY <4>3, <2>2, <1>1, SMTT(30)
        <5> QED BY <5>1, <3>2, <2>7
      <4>4. k = i \/ k = i + 1 \/ k < i \/ k > i + 1
        OBVIOUS
      <4> QED BY <4>1, <4>2, <4>3, <4>4
    <3>3. \A c : c \in HoleClicks(r) <=> c \in Nat /\ \E j \in 1 .. n - 1 : r[j].base <= c /\ c < End(r[j])
      BY <2>4, <2>5, ClicksOf
    <3>4. \A c : c \in HoleClicks(h) <=> c \in Nat /\ \E k \in 1 .. n : h[k].base <= c /\ c < End(h[k])
      BY <1>1, ClicksOf
    <3> QED BY <3>1, <3>2, <3>3, <3>4
  <2>10. r # h
    BY <2>4, <1>1
  <2> QED BY <2>1, <2>8, <2>9, <2>10
<1> QED BY <1>3, <1>4

\* merge() compares two pairs, which is enough when no other holes can touch.
LEMMA MergeFacts ==
  ASSUME NEW h, NEW i \in Nat \ {0}, Ordered(h, {i, i + 1})
  PROVE  /\ merge(h, i) \in Seq(Hole) /\ Separate(merge(h, i))
         /\ HoleClicks(merge(h, i)) = HoleClicks(h)
<1> DEFINE g == Absorb(h, i)
<1>1. HoleClicks(g) = HoleClicks(h)
  BY AbsorbFacts
<1>2. Shift({i, i + 1}, i) = {i} /\ {i, i + 1} \ {i} = {i + 1} /\ i + 1 \in Nat \ {0}
  BY DEF Shift
<1>3. Shift({i}, i) = {} /\ Shift({i + 1}, i + 1) = {}
  BY DEF Shift
<1>4. CASE g # h
  <2>1. Ordered(g, {i})
    <3>1. Ordered(g, Shift({i, i + 1}, i))
      BY <1>4, AbsorbFacts
    <3> QED BY <3>1, <1>2
  <2> HIDE DEF g
  <2>2. Ordered(Absorb(g, i), {}) /\ HoleClicks(Absorb(g, i)) = HoleClicks(g)
    <3>1. Ordered(Absorb(g, i), {i} \ {i}) \/ Ordered(Absorb(g, i), Shift({i}, i))
      BY <2>1, AbsorbFacts
    <3> QED BY <3>1, <1>3, <2>1, AbsorbFacts
  <2>3. merge(h, i) = Absorb(g, i)
    BY <1>4 DEF merge, g
  <2> QED BY <2>2, <2>3, <1>1, OrderedSeparate
<1>5. CASE g = h
  <2>1. Ordered(h, {i + 1})
    BY <1>2, <1>5, AbsorbFacts
  <2>2. Ordered(Absorb(h, i + 1), {}) /\ HoleClicks(Absorb(h, i + 1)) = HoleClicks(h)
    <3>1. \/ Ordered(Absorb(h, i + 1), {i + 1} \ {i + 1})
          \/ Ordered(Absorb(h, i + 1), Shift({i + 1}, i + 1))
      BY <2>1, <1>2, AbsorbFacts
    <3> QED BY <3>1, <1>2, <1>3, <2>1, AbsorbFacts
  <2>3. merge(h, i) = Absorb(h, i + 1)
    BY <1>5 DEF merge
  <2> QED BY <2>2, <2>3, OrderedSeparate
<1> QED BY <1>4, <1>5

\* In an ordered list the holes below an address come first.
LEMMA HolesBefore ==
  ASSUME NEW h \in Seq(Hole), Separate(h), NEW b \in Nat
  PROVE  LET k == Cardinality({i \in DOMAIN h : h[i].base < b})
         IN  k \in 0 .. Len(h) /\ \A i \in DOMAIN h : h[i].base < b <=> i <= k
<1> DEFINE n == Len(h)
           D == {i \in DOMAIN h : h[i].base < b}
           U == {i \in DOMAIN h : ~(h[i].base < b)}
           k == Cardinality(D)
<1>1. /\ n \in Nat /\ DOMAIN h = 1 .. n
      /\ \A i \in 1 .. n : h[i].base \in Nat /\ End(h[i]) \in Nat /\ h[i].base < End(h[i])
  BY HoleNumbers
<1>2. \A i, j \in 1 .. n : i < j => h[i].base < h[j].base
  <2> SUFFICES ASSUME NEW i \in 1 .. n, NEW j \in 1 .. n, i < j PROVE h[i].base < h[j].base
    OBVIOUS
  <2>1. End(h[i]) < h[j].base
    BY <1>1 DEF Separate, End
  <2> QED BY <2>1, <1>1
<1>3. \A m \in 0 .. n : IsFiniteSet(1 .. m) /\ Cardinality(1 .. m) = m
  BY <1>1, FS_Interval
<1>4. PICK m \in 0 .. n : D = 1 .. m
  <2>1. CASE U = {}
    BY <2>1, <1>1
  <2>2. CASE U # {}
    <3>1. U \in SUBSET Nat
      BY <1>1
    <3>2. PICK x \in U : \A y \in U : x <= y
      BY <2>2, <3>1, LeastIndex
    <3>3. x \in 1 .. n /\ ~(h[x].base < b)
      BY <3>2, <1>1
    <3>4. ASSUME NEW i \in 1 .. n PROVE i \in D <=> i < x
      <4>1. i < x => i \in D
        <5> SUFFICES ASSUME i < x, i \notin D PROVE FALSE
          OBVIOUS
        <5>1. i \in U
          BY <1>1
        <5> QED BY <5>1, <3>2, <3>3, <1>1
      <4>2. i >= x => h[x].base <= h[i].base
        BY <1>1, <1>2, <3>3
      <4>3. i >= x => i \notin D
        BY <4>2, <1>1, <3>3
      <4> QED BY <4>1, <4>3, <3>3
    <3>5. D = 1 .. x - 1 /\ x - 1 \in 0 .. n
      BY <3>3, <3>4, <1>1
    <3> QED BY <3>5
  <2> QED BY <2>1, <2>2
<1>5. k = m
  BY <1>3, <1>4
<1>6. \A i \in DOMAIN h : h[i].base < b <=> i <= k
  BY <1>1, <1>4, <1>5
<1> QED BY <1>4, <1>5, <1>6

\* free_mem() of a block that is not free adds its clicks and keeps the holes apart.
LEMMA FreeFacts ==
  ASSUME NEW h \in Seq(Hole), Separate(h), NEW b \in Nat, NEW n \in Nat \ {0},
         Run(b, n) \cap HoleClicks(h) = {}
  PROVE  /\ free_mem(h, b, n) \in Seq(Hole) /\ Separate(free_mem(h, b, n))
         /\ HoleClicks(free_mem(h, b, n)) = HoleClicks(h) \cup Run(b, n)
<1> DEFINE l == Len(h)
           k == Cardinality({i \in DOMAIN h : h[i].base < b})
           x == [base |-> b, len |-> n]
           new == InsertAt(h, k + 1, x)
           at == IF k = 0 THEN 1 ELSE k
<1>1. /\ l \in Nat /\ DOMAIN h = 1 .. l
      /\ \A i \in 1 .. l : h[i].base \in Nat /\ End(h[i]) \in Nat /\ h[i].base < End(h[i])
  BY HoleNumbers
<1>2. k \in 0 .. l /\ \A i \in 1 .. l : h[i].base < b <=> i <= k
  BY <1>1, HolesBefore
<1>3. free_mem(h, b, n) = merge(new, at)
  BY DEF free_mem
<1> HIDE DEF k
<1>4. x \in Hole /\ x.base = b /\ End(x) = b + n
  BY DEF Hole, End
<1> HIDE DEF x
<1>5. /\ new \in Seq(Hole) /\ Len(new) = l + 1 /\ DOMAIN new = 1 .. l + 1
      /\ \A j \in 1 .. l + 1 : new[j] = IF j < k + 1 THEN h[j] ELSE IF j = k + 1 THEN x ELSE h[j - 1]
  <2>1. k + 1 \in 1 .. l + 1
    BY <1>1, <1>2
  <2>2. /\ new \in Seq(Hole) /\ Len(new) = l + 1
        /\ \A j \in 1 .. l + 1 : new[j] = IF j < k + 1 THEN h[j] ELSE IF j = k + 1 THEN x ELSE h[j - 1]
    <3>1. ASSUME NEW p \in 1 .. Len(h) + 1, NEW e \in Hole
          PROVE  /\ InsertAt(h, p, e) \in Seq(Hole)
                 /\ Len(InsertAt(h, p, e)) = Len(h) + 1
                 /\ \A j \in 1 .. Len(h) + 1 :
                      InsertAt(h, p, e)[j] = IF j < p THEN h[j] ELSE IF j = p THEN e ELSE h[j - 1]
      <4> DEFINE Put(S, s, i, y) ==
                   /\ InsertAt(s, i, y) \in Seq(S)
                   /\ Len(InsertAt(s, i, y)) = Len(s) + 1
                   /\ \A j \in 1 .. Len(s) + 1 :
                        InsertAt(s, i, y)[j] = IF j < i THEN s[j] ELSE IF j = i THEN y ELSE s[j - 1]
      <4>1. \A S : \A s \in Seq(S) : \A i \in 1 .. Len(s) + 1 : \A y \in S : Put(S, s, i, y)
        BY InsertAtIndices, Zenon
      <4> HIDE DEF Put
      <4>2. Put(Hole, h, p, e)
        BY <4>1, Zenon
      <4> QED BY <4>2, Zenon DEF Put
    <3> QED BY <1>4, <2>1, <3>1
  <2> QED BY <2>2, LenProperties
<1> HIDE DEF new
<1>6. \A i, j \in 1 .. l : i < j => End(h[i]) < h[j].base
  BY <1>1 DEF Separate, End
<1>7. ASSUME NEW i \in 1 .. l
      PROVE  IF i <= k THEN End(h[i]) <= b ELSE b + n <= h[i].base
  <2>1. \A c \in Nat : h[i].base <= c /\ c < End(h[i]) => ~(b <= c /\ c < b + n)
    <3> SUFFICES ASSUME NEW c \in Nat, h[i].base <= c, c < End(h[i]), b <= c, c < b + n PROVE FALSE
      OBVIOUS
    <3>1. c \in HoleClicks(h)
      BY <1>1, ClicksOf
    <3>2. c \in Run(b, n)
      BY DEF Run
    <3> QED BY <3>1, <3>2
  <2>2. CASE i <= k
    BY <2>1, <2>2, <1>1, <1>2
  <2>3. CASE ~(i <= k)
    BY <2>1, <2>3, <1>1, <1>2
  <2> QED BY <2>2, <2>3
<1>8. \A i \in 1 .. l : i <= k => End(h[i]) <= b
  BY <1>7
<1>9. \A i \in 1 .. l : ~(i <= k) => b + n <= h[i].base
  BY <1>7
<1>10. Ordered(new, {at, at + 1})
  <2> SUFFICES ASSUME NEW i \in 1 .. l + 1, NEW j \in 1 .. l + 1, i < j
               PROVE  /\ End(new[i]) <= new[j].base
                      /\ End(new[i]) = new[j].base => j = i + 1 /\ i \in {at, at + 1}
    BY <1>5 DEF Ordered
  <2>1. CASE j < k + 1
    <3>1. i \in 1 .. l /\ j \in 1 .. l /\ new[i] = h[i] /\ new[j] = h[j]
      BY <2>1, <1>1, <1>2, <1>5
    <3>2. End(h[i]) < h[j].base /\ End(h[i]) \in Nat /\ h[j].base \in Nat
      BY <3>1, <1>1, <1>6
    <3> QED BY <3>1, <3>2
  <2>2. CASE j = k + 1
    <3>1. i \in 1 .. l /\ i <= k /\ new[i] = h[i] /\ new[j] = x
      BY <2>2, <1>1, <1>2, <1>5
    <3>2. End(h[i]) <= b /\ End(h[i]) \in Nat /\ new[j].base = b
      BY <3>1, <1>1, <1>4, <1>8
    <3>3. CASE i = k
      BY <3>1, <3>2, <3>3, <2>2
    <3>4. CASE i # k
      <4>1. k \in 1 .. l /\ i < k
        BY <3>1, <3>4, <1>1, <1>2
      <4>2. End(h[i]) < h[k].base /\ h[k].base < b
        BY <4>1, <3>1, <1>2, <1>6
      <4> QED BY <4>1, <4>2, <3>1, <3>2, <1>1
    <3> QED BY <3>3, <3>4
  <2>3. CASE j > k + 1
    <3>0. ~(j < k + 1) /\ j # k + 1 /\ j - 1 \in 1 .. l /\ ~(j - 1 <= k)
      BY <2>3, <1>1, <1>2
    <3>1. j - 1 \in 1 .. l /\ ~(j - 1 <= k) /\ new[j] = h[j - 1]
      BY <3>0, <1>5
    <3>2. b + n <= h[j - 1].base /\ h[j - 1].base \in Nat
      BY <3>1, <1>1, <1>9
    <3>3. CASE i < k + 1
      <4>1. i \in 1 .. l /\ i <= k /\ new[i] = h[i]
        BY <3>3, <1>1, <1>2, <1>5
      <4>2. End(h[i]) <= b /\ End(h[i]) \in Nat
        BY <4>1, <1>1, <1>8
      <4>3. End(h[i]) < h[j - 1].base
        BY <4>2, <3>2
      <4> QED BY <4>1, <4>2, <4>3, <3>1, <3>2
    <3>4. CASE i = k + 1
      <4>1. new[i] = x /\ End(new[i]) = b + n
        BY <3>4, <1>4, <1>5
      <4>2. i \in {at, at + 1}
        BY <3>4, <1>2
      <4>3. CASE j = i + 1
        BY <4>1, <4>2, <4>3, <3>1, <3>2
      <4>4. CASE j # i + 1
        <5>1. i \in 1 .. l /\ i < j - 1 /\ ~(i <= k)
          BY <4>4, <3>1, <3>4, <1>1, <1>2
        <5>2. b + n <= h[i].base /\ End(h[i]) < h[j - 1].base /\ h[i].base < End(h[i])
          BY <5>1, <3>1, <1>1, <1>6, <1>9
        <5>3. b + n < h[j - 1].base
          BY <5>1, <5>2, <3>1, <1>1
        <5> QED BY <5>3, <4>1, <3>1, <3>2
      <4> QED BY <4>3, <4>4
    <3>5. CASE i > k + 1
      <4>1. i - 1 \in 1 .. l /\ i - 1 < j - 1 /\ new[i] = h[i - 1]
        BY <3>5, <1>1, <1>2, <1>5
      <4>2. End(h[i - 1]) < h[j - 1].base /\ End(h[i - 1]) \in Nat
        BY <4>1, <3>1, <1>1, <1>6
      <4> QED BY <4>1, <4>2, <3>1, <3>2
    <3>6. i < k + 1 \/ i = k + 1 \/ i > k + 1
      BY <1>2
    <3> QED BY <3>3, <3>4, <3>5, <3>6
  <2>4. j < k + 1 \/ j = k + 1 \/ j > k + 1
    BY <1>2
  <2> QED BY <2>1, <2>2, <2>3, <2>4
<1>11. HoleClicks(new) = HoleClicks(h) \cup Run(b, n)
  <2>1. \A c : c \in HoleClicks(new) <=> c \in Nat /\ \E j \in 1 .. l + 1 : new[j].base <= c /\ c < End(new[j])
    BY <1>5, ClicksOf
  <2>2. \A c : c \in HoleClicks(h) <=> c \in Nat /\ \E i \in 1 .. l : h[i].base <= c /\ c < End(h[i])
    BY <1>1, ClicksOf
  <2>3. \A c : c \in Run(b, n) <=> c \in Nat /\ b <= c /\ c < b + n
    BY DEF Run
  <2>4. ASSUME NEW i \in 1 .. l
        PROVE  \E j \in 1 .. l + 1 : new[j] = h[i]
    <3>1. CASE i <= k
      <4>1. i \in 1 .. l + 1 /\ i < k + 1
        BY <3>1, <1>1, <1>2
      <4> QED BY <4>1, <1>5
    <3>2. CASE ~(i <= k)
      <4>1. i + 1 \in 1 .. l + 1 /\ ~(i + 1 < k + 1) /\ i + 1 # k + 1 /\ (i + 1) - 1 = i
        BY <3>2, <1>1, <1>2
      <4> QED BY <4>1, <1>5
    <3> QED BY <3>1, <3>2
  <2>5. k + 1 \in 1 .. l + 1 /\ new[k + 1] = x
    BY <1>1, <1>2, <1>5
  <2>6. ASSUME NEW j \in 1 .. l + 1
        PROVE  new[j] = x \/ \E i \in 1 .. l : new[j] = h[i]
    <3>1. j < k + 1 => j \in 1 .. l
      BY <1>1, <1>2
    <3>2. ~(j < k + 1) /\ j # k + 1 => j - 1 \in 1 .. l
      BY <1>1, <1>2
    <3> QED BY <3>1, <3>2, <1>5
  <2>7. ASSUME NEW c, c \in HoleClicks(new)
        PROVE  c \in HoleClicks(h) \cup Run(b, n)
    <3>1. PICK j \in 1 .. l + 1 : new[j].base <= c /\ c < End(new[j])
      BY <2>1, <2>7
    <3> QED BY <3>1, <2>1, <2>2, <2>3, <2>6, <2>7, <1>4
  <2>8. ASSUME NEW c, c \in HoleClicks(h)
        PROVE  c \in HoleClicks(new)
    BY <2>1, <2>2, <2>4, <2>8
  <2>9. ASSUME NEW c, c \in Run(b, n)
        PROVE  c \in HoleClicks(new)
    BY <2>1, <2>3, <2>5, <2>9, <1>4
  <2> QED BY <2>7, <2>8, <2>9
<1>12. at \in Nat \ {0}
  BY <1>1, <1>2
<1> QED BY <1>3, <1>10, <1>11, <1>12, MergeFacts

\* The click after a hole is in no hole.
LEMMA EndNotFree ==
  ASSUME NEW h \in Seq(Hole), Separate(h), NEW i \in DOMAIN h
  PROVE  End(h[i]) \notin HoleClicks(h)
<1>1. /\ DOMAIN h \subseteq Nat
      /\ \A j \in DOMAIN h : h[j].base \in Nat /\ End(h[j]) \in Nat /\ h[j].base < End(h[j])
  BY HoleNumbers
<1>2. \A j, k \in DOMAIN h : j < k => End(h[j]) < h[k].base
  BY DEF Separate, End
<1>3. ASSUME NEW j \in DOMAIN h, h[j].base <= End(h[i]), End(h[i]) < End(h[j])
      PROVE  FALSE
  <2>1. j < i \/ j = i \/ i < j
    BY <1>1
  <2> QED BY <2>1, <1>1, <1>2, <1>3
<1> QED BY <1>3, ClicksOf

\* alloc_mem() takes the clicks of its block out of the first hole that is big enough.
LEMMA AllocFacts ==
  ASSUME NEW h \in Seq(Hole), Separate(h), NEW n \in Nat \ {0}, Enough(h, n) # {}
  PROVE  LET i == First(h, n)
         IN  /\ i \in DOMAIN h /\ h[i].base \in Nat /\ h[i].base + n <= End(h[i])
             /\ \A j \in Enough(h, n) : i <= j
             /\ Run(h[i].base, n) \subseteq HoleClicks(h)
             /\ alloc_mem(h, n) \in Seq(Hole) /\ Separate(alloc_mem(h, n))
             /\ HoleClicks(alloc_mem(h, n)) = HoleClicks(h) \ Run(h[i].base, n)
<1> DEFINE i == First(h, n)
           l == Len(h)
           b == h[i].base
           r == alloc_mem(h, n)
<1>1. /\ l \in Nat /\ DOMAIN h = 1 .. l /\ h \in [1 .. l -> Hole]
      /\ \A j \in 1 .. l : /\ h[j] = [base |-> h[j].base, len |-> h[j].len]
                           /\ h[j].base \in Nat /\ h[j].len \in Nat
                           /\ End(h[j]) \in Nat /\ h[j].base < End(h[j])
  BY HoleNumbers
<1>2. i \in Enough(h, n) /\ \A j \in Enough(h, n) : i <= j
  <2>1. Enough(h, n) \in SUBSET Nat
    BY <1>1 DEF Enough
  <2> QED BY <2>1, LeastIndex DEF First
<1>3. i \in 1 .. l /\ h[i].len >= n
  BY <1>1, <1>2 DEF Enough
<1>4. r = IF h[i].len = n THEN RemoveAt(h, i)
          ELSE [h EXCEPT ![i] = [base |-> @.base + n, len |-> @.len - n]]
  BY DEF alloc_mem
<1> HIDE DEF i, r
<1>5. b \in Nat /\ b + n <= End(h[i]) /\ End(h[i]) = b + h[i].len
  BY <1>1, <1>3 DEF End
<1>6. \A j, k \in 1 .. l : j < k => End(h[j]) < h[k].base
  BY <1>1 DEF Separate, End
<1>7. \A c : c \in HoleClicks(h) <=> c \in Nat /\ \E j \in 1 .. l : h[j].base <= c /\ c < End(h[j])
  BY <1>1, ClicksOf
<1>8. \A c : c \in Run(b, n) <=> c \in Nat /\ b <= c /\ c < b + n
  BY <1>5 DEF Run
<1>9. Run(b, n) \subseteq HoleClicks(h)
  BY <1>1, <1>3, <1>5, <1>7, <1>8
<1>10. ASSUME NEW c \in Nat, NEW j \in 1 .. l, j # i, h[j].base <= c, c < End(h[j])
       PROVE  c \notin Run(b, n)
  <2>1. j < i \/ i < j
    BY <1>3, <1>10
  <2>2. CASE j < i
    BY <2>2, <1>1, <1>3, <1>5, <1>6, <1>8, <1>10
  <2>3. CASE i < j
    <3>1. End(h[i]) < h[j].base
      BY <2>3, <1>3, <1>6
    <3> QED BY <3>1, <1>1, <1>3, <1>5, <1>8, <1>10
  <2> QED BY <2>1, <2>2, <2>3
<1>11. r \in Seq(Hole) /\ Separate(r) /\ HoleClicks(r) = HoleClicks(h) \ Run(b, n)
  <2>1. CASE h[i].len = n
    <3>1. r = RemoveAt(h, i)
      BY <2>1, <1>4
    <3>2. /\ r \in Seq(Hole) /\ Len(r) = l - 1
          /\ \A j \in 1 .. l - 1 : r[j] = IF j < i THEN h[j] ELSE h[j + 1]
      <4>1. \A k \in DOMAIN h : /\ RemoveAt(h, k) \in Seq(Hole)
                                /\ Len(RemoveAt(h, k)) = Len(h) - 1
                                /\ \A j \in 1 .. Len(h) - 1 :
                                     RemoveAt(h, k)[j] = IF j < k THEN h[j] ELSE h[j + 1]
        BY RemoveAtIndices
      <4> QED BY <3>1, <4>1, <1>1, <1>3
    <3>3. DOMAIN r = 1 .. l - 1
      BY <3>2, LenProperties
    <3> DEFINE up(j) == IF j < i THEN j ELSE j + 1
    <3>4. ASSUME NEW j \in 1 .. l - 1
          PROVE  up(j) \in 1 .. l /\ up(j) # i /\ r[j] = h[up(j)]
      <4>1. up(j) \in 1 .. l /\ up(j) # i
        BY <1>1, <1>3
      <4> QED BY <4>1, <3>2
    <3>5. ASSUME NEW j \in 1 .. l, j # i
          PROVE  \E k \in 1 .. l - 1 : r[k] = h[j]
      <4>1. CASE j < i
        <5>1. j \in 1 .. l - 1
          BY <4>1, <1>3
        <5> QED BY <4>1, <5>1, <3>2
      <4>2. CASE j > i
        <5>1. j - 1 \in 1 .. l - 1 /\ ~(j - 1 < i) /\ (j - 1) + 1 = j
          BY <4>2, <1>3
        <5> QED BY <5>1, <3>2
      <4> QED BY <4>1, <4>2, <3>5, <1>3
    <3>6. Separate(r)
      <4> SUFFICES ASSUME NEW j \in 1 .. l - 1, NEW k \in 1 .. l - 1, j < k
                   PROVE  r[j].base + r[j].len < r[k].base
        BY <3>3 DEF Separate
      <4>1. up(j) < up(k)
        BY <1>1, <1>3
      <4>2. End(h[up(j)]) < h[up(k)].base
        BY <3>4, <4>1, <1>6
      <4> QED BY <3>4, <4>2 DEF End
    <3>7. \A c : c \in HoleClicks(r) <=> c \in Nat /\ \E j \in 1 .. l - 1 : r[j].base <= c /\ c < End(r[j])
      BY <3>2, <3>3, ClicksOf
    <3>8. ASSUME NEW c, c \in HoleClicks(r)
          PROVE  c \in HoleClicks(h) \ Run(b, n)
      <4>1. PICK j \in 1 .. l - 1 : r[j].base <= c /\ c < End(r[j])
        BY <3>7, <3>8
      <4> QED BY <3>4, <3>7, <3>8, <4>1, <1>7, <1>10
    <3>9. ASSUME NEW c, c \in HoleClicks(h) \ Run(b, n)
          PROVE  c \in HoleClicks(r)
      <4>1. PICK j \in 1 .. l : h[j].base <= c /\ c < End(h[j])
        BY <3>9, <1>7
      <4>2. j # i
        BY <2>1, <3>9, <4>1, <1>5, <1>7, <1>8
      <4> QED BY <3>5, <3>7, <3>9, <4>1, <4>2, <1>7
    <3> QED BY <3>2, <3>6, <3>8, <3>9
  <2>2. CASE h[i].len # n
    <3> DEFINE x == [base |-> b + n, len |-> h[i].len - n]
    <3>1. x \in Hole /\ x.base = b + n /\ End(x) = End(h[i])
      BY <2>2, <1>1, <1>3, <1>5, SMTT(30) DEF Hole, End
    <3>2. r = [j \in 1 .. l |-> IF j = i THEN x ELSE h[j]]
      BY <2>2, <1>1, <1>3, <1>4
    <3> HIDE DEF x
    <3>3. r \in Seq(Hole) /\ DOMAIN r = 1 .. l
      <4>1. r \in [1 .. l -> Hole]
        BY <3>1, <3>2, <1>1
      <4> QED BY <4>1, <1>1, SMTT(30)
    <3>4. \A j \in 1 .. l : r[j] = IF j = i THEN x ELSE h[j]
      BY <3>2
    <3>5. Separate(r)
      <4> SUFFICES ASSUME NEW j \in 1 .. l, NEW k \in 1 .. l, j < k
                   PROVE  End(r[j]) < r[k].base
        BY <3>3 DEF Separate, End
      <4>1. End(h[j]) < h[k].base /\ End(r[j]) = End(h[j])
        BY <3>1, <3>4, <1>6
      <4>2. h[k].base <= r[k].base
        BY <3>1, <3>4, <1>1, <1>5
      <4>3. End(h[j]) \in Nat /\ h[k].base \in Nat /\ r[k].base \in Nat
        BY <3>1, <3>4, <1>1, <1>5
      <4> QED BY <4>1, <4>2, <4>3
    <3>6. \A c : c \in HoleClicks(r) <=> c \in Nat /\ \E j \in 1 .. l : r[j].base <= c /\ c < End(r[j])
      BY <3>3, ClicksOf
    <3>7. ASSUME NEW c, c \in HoleClicks(r)
          PROVE  c \in HoleClicks(h) \ Run(b, n)
      <4>1. PICK j \in 1 .. l : r[j].base <= c /\ c < End(r[j])
        BY <3>6, <3>7
      <4>2. CASE j = i
        <5>1. b + n <= c /\ c < End(h[i]) /\ c \in Nat
          BY <3>1, <3>4, <3>6, <3>7, <4>1, <4>2
        <5>2. b <= c
          BY <5>1, <1>5
        <5> QED BY <5>1, <5>2, <1>3, <1>5, <1>7, <1>8
      <4>3. CASE j # i
        BY <3>4, <3>6, <3>7, <4>1, <4>3, <1>7, <1>10
      <4> QED BY <4>2, <4>3
    <3>8. ASSUME NEW c, c \in HoleClicks(h) \ Run(b, n)
          PROVE  c \in HoleClicks(r)
      <4>1. PICK j \in 1 .. l : h[j].base <= c /\ c < End(h[j])
        BY <3>8, <1>7
      <4>2. CASE j = i
        BY <3>1, <3>4, <3>6, <3>8, <4>1, <4>2, <1>5, <1>7, <1>8
      <4>3. CASE j # i
        BY <3>4, <3>6, <3>8, <4>1, <4>3, <1>7
      <4> QED BY <4>2, <4>3
    <3> QED BY <3>3, <3>5, <3>7, <3>8
  <2> QED BY <2>1, <2>2
<1> QED BY <1>1, <1>2, <1>3, <1>5, <1>9, <1>11 DEF i, r

\* A run of free clicks lies in one hole: the search of the list finds memory whenever
\* there is enough of it in one piece, and finds the lowest.
LEMMA PlacesFacts ==
  ASSUME NEW h \in Seq(Hole), Separate(h), NEW n \in Nat \ {0}
  PROVE  /\ Map!Places(HoleClicks(h), n) # {} <=> Enough(h, n) # {}
         /\ Enough(h, n) # {} => Map!Lowest(Map!Places(HoleClicks(h), n)) = h[First(h, n)].base
<1> DEFINE P == Map!Places(HoleClicks(h), n)
<1>1. /\ DOMAIN h \subseteq Nat
      /\ \A j \in DOMAIN h : /\ h[j].base \in Nat /\ h[j].len \in Nat
                             /\ End(h[j]) \in Nat /\ h[j].base < End(h[j])
  BY HoleNumbers
<1>2. \A j, k \in DOMAIN h : j < k => End(h[j]) < h[k].base
  BY DEF Separate, End
<1>3. P = {b \in HoleClicks(h) : Run(b, n) \subseteq HoleClicks(h)}
  BY DEF Map!Places, Map!Run, Run
<1>4. ASSUME NEW b \in P
      PROVE  b \in Nat /\ \E j \in Enough(h, n) : h[j].base <= b
  <2>1. b \in Nat
    BY <1>3, ClicksOf
  <2>2. PICK j \in DOMAIN h : h[j].base <= b /\ b < End(h[j])
    BY <1>3, ClicksOf
  <2>3. End(h[j]) \notin Run(b, n)
    BY <1>3, EndNotFree
  <2>4. b + n <= End(h[j])
    BY <2>1, <2>2, <2>3, <1>1 DEF Run
  <2>5. h[j].len >= n
    BY <2>1, <2>2, <2>4, <1>1 DEF End
  <2> QED BY <2>1, <2>2, <2>5 DEF Enough
<1>5. ASSUME Enough(h, n) # {}
      PROVE  h[First(h, n)].base \in P /\ \A c \in P : h[First(h, n)].base <= c
  <2> DEFINE i == First(h, n)
             b == h[i].base
  <2>1. /\ i \in DOMAIN h /\ b \in Nat /\ Run(b, n) \subseteq HoleClicks(h)
        /\ \A j \in Enough(h, n) : i <= j
    BY <1>5, AllocFacts
  <2> HIDE DEF i
  <2>2. b \in P
    <3>1. b \in Run(b, n)
      BY <2>1 DEF Run
    <3> QED BY <2>1, <3>1, <1>3
  <2>3. ASSUME NEW c \in P
        PROVE  b <= c
    <3>1. PICK j \in Enough(h, n) : h[j].base <= c
      BY <1>4
    <3>2. i <= j /\ j \in DOMAIN h /\ c \in Nat
      BY <2>1, <1>4 DEF Enough
    <3>3. b <= h[j].base
      <4>1. CASE i = j
        BY <4>1, <2>1
      <4>2. CASE i < j
        BY <4>2, <2>1, <3>2, <1>1, <1>2
      <4> QED BY <4>1, <4>2, <3>2, <2>1, <1>1
    <3> QED BY <3>1, <3>2, <3>3, <2>1, <1>1
  <2> QED BY <2>2, <2>3 DEF i
<1>6. ASSUME NEW b \in P, \A c \in P : b <= c
      PROVE  Map!Lowest(P) = b
  <2>1. P \subseteq Nat
    BY <1>4
  <2> HIDE DEF P
  <2>2. \A x \in P : (\A c \in P : x <= c) => x = b
    BY <2>1, <1>6
  <2> QED BY <2>2, <1>6 DEF Map!Lowest
<1> QED BY <1>3, <1>4, <1>5, <1>6
-----------------------------------------------------------------------------
(* The invariant *)

\* The clicks of the image of a slot.
ImageClicks(im, p) == IF im[p] = NoImage THEN {} ELSE Run(im[p].base, im[p].len)

\* Every click that MINIX itself does not hold is in one hole or in one image.
Partition(h, im) ==
  /\ h \in Seq(Hole) /\ Separate(h)
  /\ im \in [Slots -> [base : Click, len : Sizes] \cup {NoImage}]
  /\ \A p \in Slots : ImageClicks(im, p) \cap HoleClicks(h) = {}
  /\ \A p, q \in Slots : p # q => ImageClicks(im, p) \cap ImageClicks(im, q) = {}
  /\ \A c : c \in RESERVED .. CLICKS - 1
              <=> c \in HoleClicks(h) \/ \E p \in Slots : c \in ImageClicks(im, p)

AllocInv == Partition(holes, image)

\* What is known of the numbers in a slot's image.
LEMMA ImageNumbers ==
  ASSUME NEW h, NEW im, Partition(h, im), NEW p \in Slots, im[p] # NoImage
  PROVE  /\ im[p].base \in Nat /\ im[p].len \in Nat \ {0} /\ im[p].len \in Sizes
         /\ ImageClicks(im, p) = Run(im[p].base, im[p].len)
<1>1. im[p] \in [base : Click, len : Sizes]
  BY DEF Partition
<1>2. im[p].base \in Click /\ im[p].len \in Sizes
  BY <1>1
<1>3. im[p].base \in Nat /\ im[p].len \in Nat \ {0}
  <2>1. \A c \in Click : c \in Nat
    BY AllocAssumption DEF Click
  <2>2. \A n \in Sizes : n \in Nat \ {0}
    BY AllocAssumption
  <2> QED BY <2>1, <2>2, <1>2
<1> QED BY <1>2, <1>3 DEF ImageClicks

\* The type invariant: the bounds of the holes follow from where their clicks are.
LEMMA PartitionTyped ==
  ASSUME NEW h, NEW im, Partition(h, im)
  PROVE  h \in Seq([base : Click, len : 1 .. CLICKS])
<1>1. /\ h \in Seq(Hole) /\ Len(h) \in Nat /\ DOMAIN h = 1 .. Len(h)
      /\ \A i \in DOMAIN h : /\ h[i] = [base |-> h[i].base, len |-> h[i].len]
                             /\ h[i].base \in Nat /\ h[i].len \in Nat
                             /\ End(h[i]) \in Nat /\ h[i].base < End(h[i])
  BY HoleNumbers DEF Partition
<1>2. ASSUME NEW i \in DOMAIN h
      PROVE  h[i] \in [base : Click, len : 1 .. CLICKS]
  <2>1. h[i].base \in HoleClicks(h)
    BY <1>1, ClicksOf
  <2>2. End(h[i]) - 1 \in HoleClicks(h)
    <3>1. End(h[i]) - 1 \in Nat /\ h[i].base <= End(h[i]) - 1 /\ End(h[i]) - 1 < End(h[i])
      BY <1>1
    <3> QED BY <1>1, <3>1, ClicksOf
  <2>3. h[i].base \in RESERVED .. CLICKS - 1 /\ End(h[i]) - 1 \in RESERVED .. CLICKS - 1
    BY <2>1, <2>2 DEF Partition
  <2>4. h[i].base \in Click /\ h[i].len \in 1 .. CLICKS
    BY <2>3, <1>1, AllocAssumption DEF Click, End
  <2> QED BY <1>1, <2>4
<1> DEFINE T == [base : Click, len : 1 .. CLICKS]
<1> HIDE DEF T
<1>3. h \in [1 .. Len(h) -> T]
  BY <1>1, <1>2, LenProperties DEF T
<1>4. h \in Seq(T)
  BY <1>1, <1>3
<1> QED BY <1>4 DEF T

\* free_mem() of a process's image and forgetting that it has one.
LEMMA FreeStep ==
  ASSUME NEW h, NEW im, Partition(h, im), NEW p \in Slots, im[p] # NoImage
  PROVE  /\ Partition(free_mem(h, im[p].base, im[p].len), [im EXCEPT ![p] = NoImage])
         /\ HoleClicks(free_mem(h, im[p].base, im[p].len)) = HoleClicks(h) \cup ImageClicks(im, p)
<1> DEFINE g == free_mem(h, im[p].base, im[p].len)
           jm == [im EXCEPT ![p] = NoImage]
<1>1. g \in Seq(Hole) /\ Separate(g) /\ HoleClicks(g) = HoleClicks(h) \cup ImageClicks(im, p)
  <2>1. /\ h \in Seq(Hole) /\ Separate(h)
        /\ im[p].base \in Nat /\ im[p].len \in Nat \ {0}
        /\ ImageClicks(im, p) = Run(im[p].base, im[p].len)
        /\ ImageClicks(im, p) \cap HoleClicks(h) = {}
    BY ImageNumbers DEF Partition
  <2> QED BY <2>1, FreeFacts
<1>2. /\ jm \in [Slots -> [base : Click, len : Sizes] \cup {NoImage}]
      /\ ImageClicks(jm, p) = {}
      /\ \A q \in Slots : q # p => ImageClicks(jm, q) = ImageClicks(im, q)
  BY DEF Partition, ImageClicks
<1> HIDE DEF g, jm
<1>3. \A q \in Slots : ImageClicks(jm, q) \cap HoleClicks(g) = {}
  BY <1>1, <1>2 DEF Partition
<1>4. \A q, r \in Slots : q # r => ImageClicks(jm, q) \cap ImageClicks(jm, r) = {}
  BY <1>2 DEF Partition
<1>5. ASSUME NEW c
      PROVE  c \in RESERVED .. CLICKS - 1
               <=> c \in HoleClicks(g) \/ \E q \in Slots : c \in ImageClicks(jm, q)
  <2>1. c \in RESERVED .. CLICKS - 1
          <=> c \in HoleClicks(h) \/ \E q \in Slots : c \in ImageClicks(im, q)
    BY DEF Partition
  <2> QED BY <2>1, <1>1, <1>2
<1> QED BY <1>1, <1>2, <1>3, <1>4, <1>5 DEF Partition, g, jm

\* alloc_mem() for a process that has no image, and noting where it is.
LEMMA GiveStep ==
  ASSUME NEW h, NEW im, Partition(h, im), NEW p \in Slots, im[p] = NoImage,
         NEW n \in Sizes, Enough(h, n) # {}
  PROVE  /\ Partition(alloc_mem(h, n), [im EXCEPT ![p] = [base |-> h[First(h, n)].base, len |-> n]])
         /\ HoleClicks(alloc_mem(h, n)) = HoleClicks(h) \ Run(h[First(h, n)].base, n)
<1> DEFINE b == h[First(h, n)].base
           x == [base |-> b, len |-> n]
           g == alloc_mem(h, n)
           jm == [im EXCEPT ![p] = x]
<1>1. n \in Nat \ {0} /\ h \in Seq(Hole) /\ Separate(h)
  BY AllocAssumption DEF Partition
<1>2. /\ b \in Nat
      /\ Run(b, n) \subseteq HoleClicks(h)
      /\ g \in Seq(Hole) /\ Separate(g) /\ HoleClicks(g) = HoleClicks(h) \ Run(b, n)
  BY <1>1, AllocFacts
<1>3. b \in Click
  <2>1. b \in HoleClicks(h)
    BY <1>1, <1>2 DEF Run
  <2>2. b \in RESERVED .. CLICKS - 1
    BY <2>1 DEF Partition
  <2> QED BY <2>2, AllocAssumption DEF Click
<1> HIDE DEF b, g
<1>4. x \in [base : Click, len : Sizes] /\ x # NoImage /\ x.base = b /\ x.len = n
  BY <1>1, <1>2, <1>3, AllocAssumption
<1> HIDE DEF x
<1>5. /\ jm \in [Slots -> [base : Click, len : Sizes] \cup {NoImage}]
      /\ ImageClicks(jm, p) = Run(b, n)
      /\ \A q \in Slots : q # p => ImageClicks(jm, q) = ImageClicks(im, q)
      /\ ImageClicks(im, p) = {}
  BY <1>4 DEF Partition, ImageClicks
<1> HIDE DEF jm
<1>6. \A q \in Slots : ImageClicks(jm, q) \cap HoleClicks(g) = {}
  BY <1>2, <1>5 DEF Partition
<1>7. \A q, r \in Slots : q # r => ImageClicks(jm, q) \cap ImageClicks(jm, r) = {}
  BY <1>2, <1>5 DEF Partition
<1>8. ASSUME NEW c
      PROVE  c \in RESERVED .. CLICKS - 1
               <=> c \in HoleClicks(g) \/ \E q \in Slots : c \in ImageClicks(jm, q)
  <2>1. c \in RESERVED .. CLICKS - 1
          <=> c \in HoleClicks(h) \/ \E q \in Slots : c \in ImageClicks(im, q)
    BY DEF Partition
  <2> QED BY <2>1, <1>2, <1>5
<1> QED BY <1>2, <1>5, <1>6, <1>7, <1>8 DEF Partition, x, b, g, jm

\* mem_init() and do_brk2() leave the memory above RESERVED as one hole.
LEMMA AllocInvInit ==
  AllocInit => AllocInv /\ HoleClicks(holes) = RESERVED .. CLICKS - 1
<1> SUFFICES ASSUME AllocInit
             PROVE  AllocInv /\ HoleClicks(holes) = RESERVED .. CLICKS - 1
  OBVIOUS
<1> DEFINE x == [base |-> 0, len |-> CLICKS]
           h == <<x>>
<1>1. CLICKS \in Nat /\ RESERVED \in Nat /\ 1 <= RESERVED /\ RESERVED <= CLICKS - 1
  BY AllocAssumption
<1>2. x \in Hole /\ x.base = 0 /\ x.len = CLICKS /\ End(x) = CLICKS
  BY <1>1 DEF Hole, End
<1>3. h \in Seq(Hole) /\ DOMAIN h = {1} /\ h[1] = x
  BY <1>2
<1>4. Separate(h)
  BY <1>3 DEF Separate
<1>5. Enough(h, RESERVED) = {1}
  BY <1>1, <1>2, <1>3 DEF Enough
<1>6. First(h, RESERVED) = 1
  BY <1>5 DEF First
<1>7. \A c : c \in HoleClicks(h) <=> c \in 0 .. CLICKS - 1
  <2> SUFFICES ASSUME NEW c PROVE c \in HoleClicks(h) <=> c \in 0 .. CLICKS - 1
    OBVIOUS
  <2> HIDE DEF x, h
  <2>1. c \in HoleClicks(h) <=> c \in Nat /\ \E i \in DOMAIN h : h[i].base <= c /\ c < End(h[i])
    BY <1>3, ClicksOf
  <2>2. c \in HoleClicks(h) <=> c \in Nat /\ 0 <= c /\ c < CLICKS
    BY <2>1, <1>2, <1>3
  <2> QED BY <2>2, <1>1
<1> HIDE DEF x, h
<1>8. holes = alloc_mem(h, RESERVED)
  BY DEF AllocInit, h, x
<1>9. /\ holes \in Seq(Hole) /\ Separate(holes)
      /\ HoleClicks(holes) = HoleClicks(h) \ Run(0, RESERVED)
  BY <1>1, <1>2, <1>3, <1>4, <1>5, <1>6, <1>8, AllocFacts, SMTT(30)
<1>10. HoleClicks(holes) = RESERVED .. CLICKS - 1
  BY <1>1, <1>7, <1>9 DEF Run
<1>11. /\ image \in [Slots -> [base : Click, len : Sizes] \cup {NoImage}]
       /\ \A p \in Slots : ImageClicks(image, p) = {}
  BY DEF AllocInit, ImageClicks
<1> QED BY <1>9, <1>10, <1>11 DEF AllocInv, Partition

\* FORK keeps the partition and takes the clicks of the child's image.
LEMMA ForkStep ==
  ASSUME AllocInv, NEW parent \in Slots \cup {INIT_SLOT}, NEW child \in Slots,
         ForkImage(parent, child)
  PROVE  AllocInv' /\ Map!Fork(child, SizeOf(parent)) /\ SizeOf(parent) \in Sizes
<1> DEFINE n == SizeOf(parent)
           b == holes[First(holes, n)].base
<1>1. /\ parent \in Owners \cup {INIT_SLOT} /\ image[child] = NoImage
      /\ Enough(holes, n) # {}
      /\ holes' = alloc_mem(holes, n)
      /\ image' = [image EXCEPT ![child] = [base |-> b, len |-> n]]
  BY DEF ForkImage, Give, Owners
<1>2. n \in Sizes
  BY <1>1, ImageNumbers, AllocAssumption DEF SizeOf, Owners, AllocInv
<1> HIDE DEF n
<1>3. AllocInv' /\ HoleClicks(holes') = HoleClicks(holes) \ Run(b, n)
  BY <1>1, <1>2, GiveStep DEF AllocInv
<1>4. /\ Map!Places(HoleClicks(holes), n) # {}
      /\ Map!Lowest(Map!Places(HoleClicks(holes), n)) = b
  <2>1. n \in Nat \ {0} /\ holes \in Seq(Hole) /\ Separate(holes)
    BY <1>2, AllocAssumption DEF AllocInv, Partition
  <2> QED BY <1>1, <2>1, PlacesFacts
<1>5. Map!Fork(child, n)
  BY <1>1, <1>3, <1>4 DEF Map!Fork, Map!Place, Map!Clicks, Map!Run, Run
<1> QED BY <1>2, <1>3, <1>5 DEF n

\* EXEC keeps it, frees the clicks of the old image and takes those of the new one.
LEMMA ExecStep ==
  ASSUME AllocInv, NEW p \in Slots, NEW n \in Sizes, ExecImage(p, n)
  PROVE  AllocInv' /\ Map!Exec(p, n)
<1> DEFINE g == free_mem(holes, image[p].base, image[p].len)
           im == [image EXCEPT ![p] = NoImage]
           b == g[First(g, n)].base
<1>1. /\ image[p] # NoImage /\ Enough(holes, n) # {}
      /\ holes' = alloc_mem(g, n)
      /\ image' = [image EXCEPT ![p] = [base |-> b, len |-> n]]
  BY DEF ExecImage, Give, Owners, max_hole_fits
<1>2. Partition(g, im) /\ HoleClicks(g) = HoleClicks(holes) \cup ImageClicks(image, p)
  BY <1>1, FreeStep DEF AllocInv
<1>3. im[p] = NoImage /\ image' = [im EXCEPT ![p] = [base |-> b, len |-> n]]
  BY <1>1 DEF AllocInv, Partition
<1>4. n \in Nat \ {0} /\ holes \in Seq(Hole) /\ Separate(holes) /\ g \in Seq(Hole) /\ Separate(g)
  BY <1>2, AllocAssumption DEF AllocInv, Partition
<1>5. ImageClicks(image, p) = Map!Clicks(image[p])
  BY <1>1 DEF ImageClicks, Map!Clicks, Map!Run, Run
<1> HIDE DEF g, im
<1>6. Map!Places(HoleClicks(holes), n) # {}
  BY <1>1, <1>4, PlacesFacts
<1>7. Map!Places(HoleClicks(g), n) # {}
  BY <1>2, <1>6 DEF Map!Places
<1>8. Enough(g, n) # {} /\ Map!Lowest(Map!Places(HoleClicks(g), n)) = b
  BY <1>4, <1>7, PlacesFacts
<1>9. AllocInv' /\ HoleClicks(holes') = HoleClicks(g) \ Run(b, n)
  <2>1. /\ Partition(alloc_mem(g, n), [im EXCEPT ![p] = [base |-> b, len |-> n]])
        /\ HoleClicks(alloc_mem(g, n)) = HoleClicks(g) \ Run(b, n)
    BY <1>2, <1>3, <1>8, GiveStep
  <2> QED BY <2>1, <1>1, <1>3 DEF AllocInv
<1>10. Map!Place(p, n, HoleClicks(g))
  BY <1>1, <1>7, <1>8, <1>9 DEF Map!Place, Map!Clicks, Map!Run, Run
<1>11. Map!Exec(p, n)
  BY <1>1, <1>2, <1>5, <1>6, <1>10 DEF Map!Exec
<1> QED BY <1>9, <1>11

\* The end of a process keeps it and frees the clicks of its image.
LEMMA ExitStep ==
  ASSUME AllocInv, NEW p \in Slots, ExitImage(p)
  PROVE  AllocInv' /\ Map!Exit(p)
<1>1. /\ image[p] # NoImage
      /\ holes' = free_mem(holes, image[p].base, image[p].len)
      /\ image' = [image EXCEPT ![p] = NoImage]
  BY DEF ExitImage, Owners
<1>2. AllocInv' /\ HoleClicks(holes') = HoleClicks(holes) \cup ImageClicks(image, p)
  BY <1>1, FreeStep DEF AllocInv
<1>3. ImageClicks(image, p) = Map!Clicks(image[p])
  BY <1>1 DEF ImageClicks, Map!Clicks, Map!Run, Run
<1>4. Map!Exit(p)
  BY <1>1, <1>2, <1>3 DEF Map!Exit
<1> QED BY <1>2, <1>4

\* The partition is an invariant of the core map.
THEOREM AllocInvariant == AllocSpec => []AllocInv
<1>1. AllocInit => AllocInv
  BY AllocInvInit
<1>2. AllocInv /\ [AllocNext]_alloc_vars => AllocInv'
  <2> SUFFICES ASSUME AllocInv, [AllocNext]_alloc_vars
               PROVE  AllocInv'
    OBVIOUS
  <2>1. ASSUME NEW parent \in Slots \cup {INIT_SLOT}, NEW child \in Slots, ForkImage(parent, child)
        PROVE  AllocInv'
    BY <2>1, ForkStep
  <2>2. ASSUME NEW p \in Slots, NEW n \in Sizes, ExecImage(p, n)
        PROVE  AllocInv'
    BY <2>2, ExecStep
  <2>3. ASSUME NEW p \in Slots, ExitImage(p)
        PROVE  AllocInv'
    BY <2>3, ExitStep
  <2>4. CASE UNCHANGED alloc_vars
    BY <2>4 DEF alloc_vars, AllocInv
  <2> QED BY <2>1, <2>2, <2>3, <2>4 DEF AllocNext
<1> QED BY <1>1, <1>2, PTL DEF AllocSpec

\* Holes are in the order of their addresses and never touch: the three-hole look of
\* merge() is enough after every free_mem().
THEOREM HolesStaySeparate == AllocSpec => []HolesSeparate
<1>1. AllocInv => HolesSeparate
  <2> SUFFICES ASSUME AllocInv PROVE HolesSeparate
    OBVIOUS
  <2>1. holes \in Seq([base : Click, len : 1 .. CLICKS])
    BY PartitionTyped DEF AllocInv
  <2> QED BY <2>1 DEF AllocInv, Partition, HolesSeparate, AllocTypeOK
<1> QED BY <1>1, AllocInvariant, PTL

\* free_mem() always finds a slot: between two holes there is a process's image, and no
\* image lies between two different pairs.
THEOREM HoleSlotIsLeft == AllocSpec => []HoleSlotLeft
<1>1. AllocInv => HoleSlotLeft
  <2> SUFFICES ASSUME AllocInv PROVE HoleSlotLeft
    OBVIOUS
  <2> DEFINE l == Len(holes)
             owner(i) == CHOOSE p \in Owners : End(holes[i]) \in ImageClicks(image, p)
             f == [i \in 1 .. l - 1 |-> owner(i)]
  <2>1. /\ holes \in Seq(Hole) /\ Separate(holes) /\ l \in Nat /\ DOMAIN holes = 1 .. l
        /\ \A i \in 1 .. l : /\ holes[i].base \in Nat /\ End(holes[i]) \in Nat
                             /\ holes[i].base < End(holes[i])
    BY HoleNumbers DEF AllocInv, Partition
  <2>2. \A i, j \in 1 .. l : i < j => End(holes[i]) < holes[j].base
    BY <2>1 DEF Separate, End
  <2>3. ASSUME NEW i \in 1 .. l PROVE holes[i].base \in HoleClicks(holes)
    BY <2>1, ClicksOf
  <2>4. ASSUME NEW i \in 1 .. l - 1
        PROVE  owner(i) \in Owners /\ End(holes[i]) \in ImageClicks(image, owner(i))
    <3>1. i \in 1 .. l /\ i + 1 \in 1 .. l /\ i < i + 1
      BY <2>1
    <3>2. holes[i].base \in RESERVED .. CLICKS - 1 /\ holes[i + 1].base \in RESERVED .. CLICKS - 1
      BY <3>1, <2>3 DEF AllocInv, Partition
    <3>3. holes[i].base < End(holes[i]) /\ End(holes[i]) < holes[i + 1].base /\ End(holes[i]) \in Nat
      BY <3>1, <2>1, <2>2
    <3>4. End(holes[i]) \in RESERVED .. CLICKS - 1
      BY <3>2, <3>3, AllocAssumption
    <3>5. End(holes[i]) \notin HoleClicks(holes)
      BY <3>1, <2>1, EndNotFree
    <3>6. PICK p \in Slots : End(holes[i]) \in ImageClicks(image, p)
      BY <3>4, <3>5 DEF AllocInv, Partition
    <3>7. p \in Owners
      BY <3>6 DEF Owners, ImageClicks
    <3> QED BY <3>6, <3>7
  <2>5. ASSUME NEW i \in 1 .. l - 1, NEW j \in 1 .. l - 1, i < j
        PROVE  owner(i) # owner(j)
    <3> SUFFICES ASSUME NEW p \in Owners, owner(i) = p, owner(j) = p PROVE FALSE
      BY <2>4
    <3> HIDE DEF owner
    <3>1. End(holes[i]) \in ImageClicks(image, p) /\ End(holes[j]) \in ImageClicks(image, p)
      BY <2>4
    <3>2. i \in 1 .. l /\ j \in 1 .. l
      BY <2>1
    <3>3. End(holes[i]) < holes[j].base /\ holes[j].base < End(holes[j]) /\ holes[j].base \in Nat
      BY <3>2, <2>1, <2>2, <2>5
    <3>4. /\ p \in Slots /\ image[p].base \in Nat /\ image[p].len \in Nat
          /\ ImageClicks(image, p) = Run(image[p].base, image[p].len)
      BY ImageNumbers DEF Owners, AllocInv
    <3>5. holes[j].base \in ImageClicks(image, p)
      <4>1. /\ image[p].base <= End(holes[i]) /\ End(holes[j]) <= image[p].base + image[p].len - 1
            /\ End(holes[i]) \in Nat /\ End(holes[j]) \in Nat
        BY <3>1, <3>2, <3>4, <2>1 DEF Run
      <4>2. image[p].base <= holes[j].base /\ holes[j].base <= image[p].base + image[p].len - 1
        <5>1. PICK b \in Nat, n \in Nat : b = image[p].base /\ n = image[p].len
          BY <3>4
        <5>2. PICK c \in Nat, d \in Nat, e \in Nat :
                c = End(holes[i]) /\ d = End(holes[j]) /\ e = holes[j].base
          BY <3>3, <4>1
        <5>3. b <= c /\ d <= b + n - 1 /\ c < e /\ e < d
          BY <5>1, <5>2, <4>1, <3>3
        <5>4. b <= e /\ e <= b + n - 1
          BY <5>3
        <5> QED BY <5>1, <5>2, <5>4
      <4> QED BY <4>2, <3>3, <3>4 DEF Run
    <3> QED BY <3>2, <3>4, <3>5, <2>3 DEF AllocInv, Partition
  <2> HIDE DEF owner
  <2>6. f \in Injection(1 .. l - 1, Owners)
    <3>1. f \in [1 .. l - 1 -> Owners]
      BY <2>4
    <3>2. \A i, j \in 1 .. l - 1 : i # j => f[i] # f[j]
      <4> SUFFICES ASSUME NEW i \in 1 .. l - 1, NEW j \in 1 .. l - 1, i # j
                   PROVE  f[i] # f[j]
        OBVIOUS
      <4>1. i < j \/ j < i
        OBVIOUS
      <4>2. f[i] = owner(i) /\ f[j] = owner(j)
        OBVIOUS
      <4> QED BY <4>1, <4>2, <2>5
    <3> QED BY <3>1, <3>2 DEF Injection, IsInjective
  <2>7. IsFiniteSet(Owners) /\ Cardinality(Owners) \in Nat
    BY AllocAssumption, FS_Subset, FS_CardinalityType DEF Owners
  <2>8. Cardinality(1 .. l - 1) <= Cardinality(Owners)
    BY <2>6, <2>7, FS_Injection
  <2>9. Cardinality(1 .. l - 1) = IF 1 > l - 1 THEN 0 ELSE (l - 1) - 1 + 1
    BY <2>1, FS_Interval
  <2> QED BY <2>1, <2>7, <2>8, <2>9 DEF HoleSlotLeft
<1> QED BY <1>1, AllocInvariant, PTL

\* The hole list implements the set of free clicks.
THEOREM AllocImplementsMemory == AllocSpec => ImplementsMemory
<1>1. AllocInit => Map!Init
  BY AllocInvInit, AllocAssumption DEF AllocInit, Map!Init, Map!Run
<1>2. AllocInv /\ [AllocNext]_alloc_vars => [Map!Next]_<<HoleClicks(holes), image>>
  <2> SUFFICES ASSUME AllocInv, [AllocNext]_alloc_vars
               PROVE  [Map!Next]_<<HoleClicks(holes), image>>
    OBVIOUS
  <2>1. ASSUME NEW parent \in Slots \cup {INIT_SLOT}, NEW child \in Slots, ForkImage(parent, child)
        PROVE  Map!Next
    BY <2>1, ForkStep DEF Map!Next
  <2>2. ASSUME NEW p \in Slots, NEW n \in Sizes, ExecImage(p, n)
        PROVE  Map!Next
    BY <2>2, ExecStep DEF Map!Next
  <2>3. ASSUME NEW p \in Slots, ExitImage(p)
        PROVE  Map!Next
    BY <2>3, ExitStep DEF Map!Next
  <2>4. CASE UNCHANGED alloc_vars
    BY <2>4 DEF alloc_vars, HoleClicks
  <2> QED BY <2>1, <2>2, <2>3, <2>4 DEF AllocNext
<1> QED BY <1>1, <1>2, AllocInvariant, PTL DEF AllocSpec, ImplementsMemory, Map!Spec
-----------------------------------------------------------------------------
(* The process table: its state between and within the calls. *)

\* The type of the state of MM.
MMState ==
  [flags : [Proc -> SUBSET Flag], parent : [Proc -> Proc \cup {MM_PROC_NR}],
   where : [Proc -> {"runs", "mm", "fs", "free"}], timer : SUBSET Proc,
   pend : [Proc -> SUBSET Signal], procs_in_use : Int,
   misfits : SUBSET (Proc \cup {HARDWARE}), twice : BOOLEAN]

\* To whom MM sends who is in no call of it: only ever to the hardware.
Strays == IF BeforeTable THEN {HARDWARE} ELSE {}

\* Nobody is among its own ancestors: of any users, one has a parent who is none of them.
Rooted(m) ==
  \A S \in SUBSET (InUse(m) \cap User) : S # {} => \E q \in S : m.parent[q] \notin S

\* INIT lives, whoever has a slot has a parent who has one, and a free slot is clean.
Family(m) ==
  /\ INIT_PROC_NR \in Alive(m) /\ m.parent[INIT_PROC_NR] = MM_PROC_NR
  /\ \A p \in User : IF p \in InUse(m) THEN m.parent[p] \in InUse(m)
                     ELSE m.flags[p] \subseteq {"ALARM_ON"} /\ m.parent[p] = MM_PROC_NR
  /\ Rooted(m)

\* The kernel knows who lives, but for those in F, of whose end it is still to be told.
Placed(m, F) ==
  /\ \A p \in Proc \ F : m.where[p] = "free" <=> p \notin Alive(m)
  /\ m.timer \subseteq Alive(m) \cup F

\* Who is in a call of MM pauses or waits, or is in X: its call is the one that is being done.
Awaits(m, p) == {"PAUSED", "WAITING"} \cap m.flags[p] # {}
Answering(m, X) ==
  \A p \in Alive(m) :
    /\ ~({"PAUSED", "WAITING"} \subseteq m.flags[p])
    /\ m.where[p] = "mm" <=> p \in X \/ Awaits(m, p)
    /\ p \in X => ~Awaits(m, p)

\* What is so at every point of a call, of everything but the waiting parents.
Sound(m, X, F) ==
  /\ m \in MMState /\ m.procs_in_use = Cardinality(InUse(m)) /\ m.misfits \subseteq Strays
  /\ Family(m) /\ Placed(m, F) /\ Answering(m, X)

\* Who waits has children, all of them alive, unless it is dead itself.
Waiting(m, p) ==
  Has(m, p, "WAITING") =>
    Children(m, p) \cap Dead(m) = {} /\ (p \in Alive(m) => Children(m, p) # {})

Settled(m, X) == Sound(m, X, {}) /\ \A p \in InUse(m) : Waiting(m, p)
-----------------------------------------------------------------------------
\* The slots.
LEMMA SlotFacts ==
  /\ User \subseteq Proc /\ Proc = User \cup {INIT_PROC_NR} /\ INIT_PROC_NR \notin User
  /\ MM_PROC_NR \notin Proc /\ HARDWARE \notin Proc /\ Proc \subseteq Nat
  /\ IsFiniteSet(Proc) /\ Cardinality(Proc) = NR_PROCS - 2 /\ NR_PROCS \in Nat /\ NR_PROCS > 3
<1>1. NR_PROCS \in Nat /\ NR_PROCS > 3
  BY MMAssumption DEF INIT_PROC_NR
<1>2. IsFiniteSet(2 .. NR_PROCS - 1) /\ Cardinality(2 .. NR_PROCS - 1) = NR_PROCS - 2
  <2>1. 2 \in Int /\ NR_PROCS - 1 \in Int
    BY <1>1
  <2>2. /\ IsFiniteSet(2 .. NR_PROCS - 1)
        /\ Cardinality(2 .. NR_PROCS - 1) =
             IF 2 > NR_PROCS - 1 THEN 0 ELSE (NR_PROCS - 1) - 2 + 1
    BY <2>1, FS_Interval
  <2> QED BY <1>1, <2>2
<1> QED BY <1>1, <1>2 DEF User, Proc, INIT_PROC_NR, MM_PROC_NR, HARDWARE

\* The first slot of some.
LEMMA FirstSlot ==
  ASSUME NEW S \in SUBSET Proc, S # {}
  PROVE  Min(S) \in S
<1>1. S \in SUBSET Nat
  BY SlotFacts
<1>2. LET m == CHOOSE x \in S : \A y \in S : x <= y
      IN  m \in S /\ \A y \in S : m <= y
  BY <1>1, LeastIndex
<1> QED BY <1>2, Zenon DEF Min

\* Who has a slot, lives or is dead.
LEMMA SlotsUsed ==
  ASSUME NEW m \in MMState
  PROVE  /\ InUse(m) \subseteq Proc /\ Alive(m) \subseteq InUse(m) /\ Dead(m) \subseteq InUse(m)
         /\ \A p \in Proc : p \in InUse(m) <=> "IN_USE" \in m.flags[p]
         /\ \A p \in Proc : p \in Dead(m) <=> "IN_USE" \in m.flags[p] /\ "HANGING" \in m.flags[p]
         /\ \A p \in Proc : p \in Alive(m) <=>
              "IN_USE" \in m.flags[p] /\ "HANGING" \notin m.flags[p]
         /\ IsFiniteSet(InUse(m)) /\ Cardinality(InUse(m)) \in 0 .. NR_PROCS - 2
<1>1. InUse(m) \in SUBSET Proc
  BY DEF InUse
<1>2. IsFiniteSet(InUse(m)) /\ Cardinality(InUse(m)) <= Cardinality(Proc)
  BY <1>1, SlotFacts, FS_Subset
<1>3. Cardinality(InUse(m)) \in Nat
  BY <1>2, FS_CardinalityType
<1> QED BY <1>1, <1>2, <1>3, SlotFacts DEF InUse, Dead, Alive, Has

\* A free slot has no flags that matter, nobody is its own parent.
LEMMA FamilyFacts ==
  ASSUME NEW m \in MMState, Family(m), NEW p \in User
  PROVE  /\ p \notin InUse(m) => ~Awaits(m, p) /\ "HANGING" \notin m.flags[p]
         /\ p \in InUse(m) => m.parent[p] \in InUse(m) /\ m.parent[p] # p
<1>1. ASSUME p \in InUse(m), m.parent[p] = p
      PROVE  FALSE
  <2>1. {p} \in SUBSET (InUse(m) \cap User) /\ {p} # {}
    BY <1>1
  <2>2. \E q \in {p} : m.parent[q] \notin {p}
    BY <2>1 DEF Family, Rooted
  <2> QED BY <1>1, <2>2
<1> QED BY <1>1 DEF Family, Awaits
-----------------------------------------------------------------------------
(* main.c, forkexit.c *)

\* What reply() changes.
Replying(m, p, u) ==
  /\ u \in MMState /\ u.flags = m.flags /\ u.parent = m.parent /\ u.timer = m.timer
  /\ u.procs_in_use = m.procs_in_use
  /\ \A q \in Proc : u.where[q] = IF q = p /\ p \in Alive(m) THEN "runs" ELSE m.where[q]
  /\ p \notin Alive(m) \/ m.where[p] = "mm" => u.misfits = m.misfits

\* It is such a step.
LEMMA ReplyFields ==
  ASSUME NEW m \in MMState, NEW p \in Proc
  PROVE  Replying(m, p, reply(m, p))
<1>1. CASE p \notin Alive(m)
  BY <1>1 DEF reply, Replying
<1>2. CASE p \in Alive(m)
  <2> DEFINE w == [m.where EXCEPT ![p] = "runs"]
             x == IF m.where[p] = "mm" THEN m.misfits ELSE m.misfits \cup {p}
             u == [m EXCEPT !.where = w, !.misfits = x]
  <2>1. reply(m, p) = u
    BY <1>2 DEF reply, MMState
  <2>2. /\ w \in [Proc -> {"runs", "mm", "fs", "free"}] /\ x \in SUBSET (Proc \cup {HARDWARE})
        /\ \A q \in Proc : w[q] = IF q = p THEN "runs" ELSE m.where[q]
    BY DEF MMState
  <2>3. m.where[p] = "mm" => x = m.misfits
    OBVIOUS
  <2> HIDE DEF w, x
  <2>4. Replying(m, p, u)
    BY <1>2, <2>2, <2>3 DEF Replying, MMState
  <2> QED BY <2>1, <2>4
<1> QED BY <1>1, <1>2

\* The process whose call is done gets its answer.
LEMMA ReplyKeeps ==
  ASSUME NEW m, NEW X, NEW p \in Proc, Settled(m, X), p \in X
  PROVE  Settled(reply(m, p), X \ {p})
<1> SUFFICES ASSUME NEW u, Replying(m, p, u)
             PROVE  Settled(u, X \ {p})
  BY ReplyFields DEF Settled, Sound
<1>1. /\ m \in MMState /\ Sound(m, X, {}) /\ u \in MMState
      /\ u.flags = m.flags /\ u.parent = m.parent /\ u.timer = m.timer
  BY DEF Settled, Sound, Replying
<1>2. /\ InUse(u) = InUse(m) /\ Alive(u) = Alive(m) /\ Dead(u) = Dead(m)
      /\ \A q : Children(u, q) = Children(m, q)
      /\ \A q, f : Has(u, q, f) <=> Has(m, q, f)
      /\ \A q : Awaits(u, q) <=> Awaits(m, q)
  BY <1>1 DEF InUse, Alive, Dead, Children, Has, Awaits
<1>3. Family(u)
  BY <1>1, <1>2 DEF Family, Rooted, Sound
<1>4. /\ \A q \in Alive(m) : m.where[q] = "mm" <=> q \in X \/ Awaits(m, q)
      /\ \A q \in Alive(m) : q \in X => ~Awaits(m, q)
      /\ \A q \in Proc : m.where[q] = "free" <=> q \notin Alive(m)
      /\ Alive(m) \subseteq Proc
  BY <1>1, SlotsUsed DEF Sound, Answering, Placed
<1>5. Placed(u, {})
  BY <1>1, <1>2, <1>4 DEF Placed, Sound, Replying
<1>6. Answering(u, X \ {p})
  <2> SUFFICES ASSUME NEW q \in Alive(m)
               PROVE  /\ ~({"PAUSED", "WAITING"} \subseteq u.flags[q])
                      /\ u.where[q] = "mm" <=> q \in X \ {p} \/ Awaits(u, q)
                      /\ q \in X \ {p} => ~Awaits(u, q)
    BY <1>2 DEF Answering
  <2>1. ~({"PAUSED", "WAITING"} \subseteq u.flags[q])
    BY <1>1 DEF Sound, Answering
  <2>2. u.where[q] = IF q = p THEN "runs" ELSE m.where[q]
    BY <1>4 DEF Replying
  <2> QED BY <1>2, <1>4, <2>1, <2>2
<1>7. u.misfits = m.misfits
  BY <1>4 DEF Replying
<1>8. Sound(u, X \ {p}, {})
  BY <1>1, <1>2, <1>3, <1>5, <1>6, <1>7 DEF Sound, Replying
<1>9. \A q \in InUse(u) : Waiting(u, q)
  BY <1>2 DEF Waiting, Settled
<1> QED BY <1>8, <1>9 DEF Settled

\* What the first half of cleanup() and the disinheriting do: child c goes, its parent is
\* told, and INIT has its children.
Reaping(m, c, u) ==
  /\ u \in MMState /\ u.timer = m.timer /\ u.procs_in_use = m.procs_in_use - 1
  /\ \A q \in Proc : u.flags[q] = IF q = c THEN m.flags[q] \cap {"ALARM_ON"}
                                  ELSE IF q = m.parent[c] THEN m.flags[q] \ {"WAITING"}
                                  ELSE m.flags[q]
  /\ \A q \in Proc : u.parent[q] = IF q = c THEN MM_PROC_NR
                                   ELSE IF m.parent[q] = c THEN INIT_PROC_NR
                                   ELSE m.parent[q]
  /\ \A q \in Proc : u.where[q] = IF q = m.parent[c] /\ q \in Alive(m) THEN "runs" ELSE m.where[q]
  /\ m.parent[c] \notin Alive(m) \/ m.where[m.parent[c]] = "mm" => u.misfits = m.misfits

\* Other flags, parents and number of processes.
Enrolled(m, t, x, n, u) ==
  /\ u \in MMState /\ u.flags = t /\ u.parent = x /\ u.procs_in_use = n
  /\ u.timer = m.timer /\ u.where = m.where /\ u.misfits = m.misfits /\ u.pend = m.pend

\* They are set.
LEMMA EnrolledBy ==
  ASSUME NEW m \in MMState, NEW t \in [Proc -> SUBSET Flag],
         NEW x \in [Proc -> Proc \cup {MM_PROC_NR}], NEW n \in Int
  PROVE  Enrolled(m, t, x, n, [m EXCEPT !.flags = t, !.parent = x, !.procs_in_use = n])
BY DEF MMState, Enrolled

\* They do; and what cleanup() asks between the two.
LEMMA ReapFields ==
  ASSUME NEW m \in MMState, NEW c \in User, m.parent[c] \in Proc, m.parent[c] # c
  PROVE  /\ Reaping(m, c, Disinherited(Collected(m, c), c))
         /\ \A q : Has(Collected(m, c), q, "WAITING") <=>
                     Has(Disinherited(Collected(m, c), c), q, "WAITING")
         /\ \A q \in Proc : Collected(m, c).parent[q] = c /\ Has(Collected(m, c), q, "HANGING")
              <=> q # c /\ m.parent[q] = c /\ Has(m, q, "HANGING")
<1> DEFINE P == m.parent[c]
           r == reply(m, P)
           freed == [r EXCEPT !.flags[c] = @ \cap {"ALARM_ON"}, !.parent[c] = MM_PROC_NR,
                              !.procs_in_use = @ - 1]
           k == [freed EXCEPT !.flags[P] = @ \ {"WAITING"}]
           u == Disinherited(k, c)
<1>1. Collected(m, c) = k
  BY DEF Collected
<1>2. Replying(m, P, r)
  BY ReplyFields
<1>3. c \in Proc /\ c # MM_PROC_NR /\ INIT_PROC_NR \in Proc /\ P \in Proc /\ P # c
  BY SlotFacts
<1> HIDE DEF r, P
<1>4. /\ r \in MMState /\ r.flags = m.flags /\ r.parent = m.parent /\ r.timer = m.timer
      /\ r.procs_in_use = m.procs_in_use
  BY <1>2 DEF Replying
<1> DEFINE fl == [[m.flags EXCEPT ![c] = @ \cap {"ALARM_ON"}] EXCEPT ![P] = @ \ {"WAITING"}]
           pa == [m.parent EXCEPT ![c] = MM_PROC_NR]
           pb == [q \in Proc |-> IF pa[q] = c THEN INIT_PROC_NR ELSE pa[q]]
<1>5. k = [r EXCEPT !.flags = fl, !.parent = pa, !.procs_in_use = m.procs_in_use - 1]
  BY <1>3, <1>4 DEF MMState
<1>6. /\ m.flags \in [Proc -> SUBSET Flag] /\ m.parent \in [Proc -> Proc \cup {MM_PROC_NR}]
      /\ m.procs_in_use \in Int
  BY DEF MMState
<1>7. /\ fl \in [Proc -> SUBSET Flag]
      /\ \A q \in Proc : fl[q] = IF q = c THEN m.flags[q] \cap {"ALARM_ON"}
                                 ELSE IF q = P THEN m.flags[q] \ {"WAITING"} ELSE m.flags[q]
  BY <1>3, <1>6
<1>8. /\ pa \in [Proc -> Proc \cup {MM_PROC_NR}]
      /\ \A q \in Proc : pa[q] = IF q = c THEN MM_PROC_NR ELSE m.parent[q]
  BY <1>3, <1>6
<1>9. /\ pb \in [Proc -> Proc \cup {MM_PROC_NR}]
      /\ \A q \in Proc : pb[q] = IF q = c THEN MM_PROC_NR
                                 ELSE IF m.parent[q] = c THEN INIT_PROC_NR ELSE m.parent[q]
  BY <1>3, <1>8
<1>10. u = [k EXCEPT !.parent = [q \in Proc |-> IF k.parent[q] = c THEN INIT_PROC_NR
                                                ELSE k.parent[q]]]
  BY DEF Disinherited
<1> HIDE DEF u, k, fl, pa, pb
<1>11. k.flags = fl /\ k.parent = pa /\ k \in MMState
  <2>1. m.procs_in_use - 1 \in Int
    BY <1>6
  <2>2. Enrolled(r, fl, pa, m.procs_in_use - 1, k)
    BY <1>4, <1>5, <1>7, <1>8, <2>1, EnrolledBy
  <2> QED BY <2>2 DEF Enrolled
<1>12. u = [r EXCEPT !.flags = fl, !.parent = pb, !.procs_in_use = m.procs_in_use - 1]
  BY <1>5, <1>10, <1>11, <1>4 DEF pb, MMState
<1>13. /\ u \in MMState /\ u.flags = fl /\ u.parent = pb /\ u.procs_in_use = m.procs_in_use - 1
       /\ u.timer = m.timer /\ u.where = r.where /\ u.misfits = r.misfits
  <2>1. m.procs_in_use - 1 \in Int
    BY <1>6
  <2>2. Enrolled(r, fl, pb, m.procs_in_use - 1, u)
    BY <1>4, <1>7, <1>9, <1>12, <2>1, EnrolledBy
  <2> QED BY <1>4, <2>2 DEF Enrolled
<1>14. Reaping(m, c, u)
  <2>1. \A q \in Proc : u.where[q] = IF q = P /\ P \in Alive(m) THEN "runs" ELSE m.where[q]
    BY <1>2, <1>13 DEF Replying
  <2>2. P \notin Alive(m) \/ m.where[P] = "mm" => u.misfits = m.misfits
    BY <1>2, <1>13 DEF Replying
  <2> QED BY <1>7, <1>9, <1>13, <2>1, <2>2 DEF Reaping, P
<1>15. \A q : Has(k, q, "WAITING") <=> Has(u, q, "WAITING")
  BY <1>11, <1>13 DEF Has
<1>16. \A q \in Proc : k.parent[q] = c /\ Has(k, q, "HANGING")
         <=> q # c /\ m.parent[q] = c /\ Has(m, q, "HANGING")
  BY <1>3, <1>7, <1>8, <1>11 DEF Has
<1> QED BY <1>1, <1>14, <1>15, <1>16 DEF u

\* Who is left, and whose children they are.
LEMMA ReapSlots ==
  ASSUME NEW m \in MMState, Family(m), NEW c \in User, c \in InUse(m), NEW u, Reaping(m, c, u)
  PROVE  /\ InUse(u) = InUse(m) \ {c} /\ Alive(u) = Alive(m) \ {c} /\ Dead(u) = Dead(m) \ {c}
         /\ \A q \in Proc \ {c, INIT_PROC_NR} : Children(u, q) = Children(m, q) \ {c}
         /\ Children(u, INIT_PROC_NR) = (Children(m, INIT_PROC_NR) \cup Children(m, c)) \ {c}
         /\ u.procs_in_use = m.procs_in_use - 1
         /\ Cardinality(InUse(u)) = Cardinality(InUse(m)) - 1
<1>1. /\ u \in MMState /\ u.procs_in_use = m.procs_in_use - 1
      /\ \A q \in Proc : u.flags[q] = IF q = c THEN m.flags[q] \cap {"ALARM_ON"}
                                  ELSE IF q = m.parent[c] THEN m.flags[q] \ {"WAITING"}
                                  ELSE m.flags[q]
      /\ \A q \in Proc : u.parent[q] = IF q = c THEN MM_PROC_NR
                                   ELSE IF m.parent[q] = c THEN INIT_PROC_NR
                                   ELSE m.parent[q]
  BY DEF Reaping
<1>2. \A q \in Proc, f \in {"IN_USE", "HANGING"} :
         f \in u.flags[q] <=> q # c /\ f \in m.flags[q]
  BY <1>1
<1>3. InUse(u) = InUse(m) \ {c} /\ Dead(u) = Dead(m) \ {c}
  BY <1>2 DEF InUse, Dead, Has
<1>4. Alive(u) = Alive(m) \ {c}
  BY <1>3 DEF Alive
<1>5. INIT_PROC_NR \in Proc /\ c \in Proc /\ c # INIT_PROC_NR /\ InUse(m) \subseteq Proc
      /\ MM_PROC_NR \notin Proc
  BY SlotFacts, SlotsUsed
<1>6. ASSUME NEW q \in Proc \ {c, INIT_PROC_NR}
      PROVE  Children(u, q) = Children(m, q) \ {c}
  BY <1>1, <1>3, <1>5, <1>6 DEF Children
<1>7. Children(u, INIT_PROC_NR) = (Children(m, INIT_PROC_NR) \cup Children(m, c)) \ {c}
  BY <1>1, <1>3, <1>5 DEF Children
<1>8. Cardinality(InUse(u)) = Cardinality(InUse(m)) - 1
  BY <1>3, SlotsUsed, FS_RemoveElement
<1> QED BY <1>1, <1>3, <1>4, <1>6, <1>7, <1>8

\* The rest of the family is as it should be.
LEMMA ReapFamily ==
  ASSUME NEW m \in MMState, Family(m), NEW c \in User, c \in InUse(m), NEW u, Reaping(m, c, u)
  PROVE  Family(u)
<1>1. /\ InUse(u) = InUse(m) \ {c} /\ Alive(u) = Alive(m) \ {c}
      /\ INIT_PROC_NR # c /\ c \in Proc /\ User \subseteq Proc /\ INIT_PROC_NR \in Proc
      /\ INIT_PROC_NR \notin User /\ MM_PROC_NR \notin Proc
      /\ INIT_PROC_NR \in InUse(m) /\ INIT_PROC_NR \in Alive(m) /\ InUse(m) \subseteq Proc
  BY ReapSlots, SlotFacts, SlotsUsed DEF Family
<1>2. \A q \in Proc : u.parent[q] = IF q = c THEN MM_PROC_NR
                                    ELSE IF m.parent[q] = c THEN INIT_PROC_NR
                                    ELSE m.parent[q]
  BY DEF Reaping
<1>3. u.parent[INIT_PROC_NR] = MM_PROC_NR
  BY <1>1, <1>2 DEF Family
<1>4. ASSUME NEW p \in User
      PROVE  IF p \in InUse(u) THEN u.parent[p] \in InUse(u)
             ELSE u.flags[p] \subseteq {"ALARM_ON"} /\ u.parent[p] = MM_PROC_NR
  <2>1. CASE p \in InUse(u)
    <3>1. p # c /\ m.parent[p] \in InUse(m)
      BY <1>1, <2>1 DEF Family
    <3> QED BY <1>1, <1>2, <2>1, <3>1
  <2>2. CASE p = c
    <3>1. u.flags[c] = m.flags[c] \cap {"ALARM_ON"}
      BY <1>1 DEF Reaping
    <3> QED BY <1>1, <1>2, <2>2, <3>1
  <2>3. CASE p \notin InUse(m)
    <3>1. m.flags[p] \subseteq {"ALARM_ON"} /\ m.parent[p] = MM_PROC_NR /\ p # c /\ p \in Proc
      BY <1>1, <2>3 DEF Family
    <3>2. u.flags[p] \subseteq m.flags[p]
      BY <3>1 DEF Reaping
    <3> QED BY <1>1, <1>2, <2>3, <3>1, <3>2
  <2> QED BY <1>1, <2>1, <2>2, <2>3
<1>5. Rooted(u)
  <2> SUFFICES ASSUME NEW S \in SUBSET (InUse(u) \cap User), S # {}
               PROVE  \E q \in S : u.parent[q] \notin S
    BY DEF Rooted
  <2>1. S \in SUBSET (InUse(m) \cap User) /\ c \notin S
    BY <1>1
  <2>2. PICK q \in S : m.parent[q] \notin S
    BY <2>1 DEF Family, Rooted
  <2>3. u.parent[q] = IF m.parent[q] = c THEN INIT_PROC_NR ELSE m.parent[q]
    BY <1>1, <1>2, <2>1
  <2> QED BY <1>1, <2>2, <2>3
<1> QED BY <1>1, <1>3, <1>4, <1>5 DEF Family

\* A child is reaped whose parent waits for it, or is being answered.
LEMMA ReapSound ==
  ASSUME NEW m, NEW X, NEW F, Sound(m, X, F), NEW c \in User, c \in InUse(m),
         m.parent[c] \in X \/ Has(m, m.parent[c], "WAITING"), m.parent[c] \notin F,
         NEW u, Reaping(m, c, u)
  PROVE  Sound(u, X \ {m.parent[c]}, F \cup {c})
<1> DEFINE P == m.parent[c]
<1>1. m \in MMState /\ Family(m) /\ Placed(m, F) /\ Answering(m, X)
  BY DEF Sound
<1>2. P \in InUse(m) /\ P # c /\ P \in Proc /\ c \in Proc
  BY <1>1, FamilyFacts, SlotsUsed, SlotFacts
<1>3. /\ Alive(u) = Alive(m) \ {c} /\ Alive(m) \subseteq Proc
      /\ u.procs_in_use = Cardinality(InUse(u))
  <2>1. m.procs_in_use = Cardinality(InUse(m))
    BY DEF Sound
  <2> QED BY <1>1, <2>1, ReapSlots, SlotsUsed
<1>4. /\ u \in MMState /\ u.timer = m.timer
      /\ \A q \in Proc : u.where[q] = IF q = P /\ q \in Alive(m) THEN "runs" ELSE m.where[q]
      /\ P \notin Alive(m) \/ m.where[P] = "mm" => u.misfits = m.misfits
      /\ \A q \in Proc \ {c} : u.flags[q] = IF q = P THEN m.flags[q] \ {"WAITING"} ELSE m.flags[q]
  BY DEF Reaping
<1> HIDE DEF P
<1>5. P \in Alive(m) => m.where[P] = "mm"
  BY <1>1 DEF Answering, Awaits, Has, P
<1>6. Placed(u, F \cup {c})
  BY <1>1, <1>3, <1>4, <1>5 DEF Placed
<1>7. ASSUME NEW q \in Alive(u)
      PROVE  /\ ~({"PAUSED", "WAITING"} \subseteq u.flags[q])
             /\ u.where[q] = "mm" <=> q \in X \ {P} \/ Awaits(u, q)
             /\ q \in X \ {P} => ~Awaits(u, q)
  <2>1. q \in Alive(m) /\ q # c /\ q \in Proc
    BY <1>3
  <2>2. /\ ~({"PAUSED", "WAITING"} \subseteq m.flags[q])
        /\ m.where[q] = "mm" <=> q \in X \/ Awaits(m, q)
        /\ q \in X => ~Awaits(m, q)
    BY <1>1, <2>1 DEF Answering
  <2>3. CASE q = P
    <3>1. u.flags[q] = m.flags[q] \ {"WAITING"} /\ u.where[q] = "runs"
      BY <1>4, <2>1, <2>3
    <3>2. "PAUSED" \notin m.flags[q]
      BY <2>2, <2>3 DEF P, Has, Awaits
    <3> QED BY <2>3, <3>1, <3>2 DEF Awaits
  <2>4. CASE q # P
    <3>1. u.flags[q] = m.flags[q] /\ u.where[q] = m.where[q]
      BY <1>4, <2>1, <2>4
    <3> QED BY <2>2, <2>4, <3>1 DEF Awaits
  <2> QED BY <2>3, <2>4
<1>8. Answering(u, X \ {P})
  BY <1>7 DEF Answering
<1>9. Family(u)
  BY <1>1, ReapFamily
<1>10. u.misfits \subseteq Strays
  BY <1>4, <1>5 DEF Sound
<1> QED BY <1>3, <1>4, <1>6, <1>8, <1>9, <1>10 DEF Sound, P

\* The parent that is told waits no more; INIT waits for what it inherits too.
LEMMA ReapWaiting ==
  ASSUME NEW m \in MMState, Family(m), NEW c \in User, c \in InUse(m), NEW u, Reaping(m, c, u),
         NEW q \in InUse(u)
  PROVE  /\ q = m.parent[c] => ~Has(u, q, "WAITING")
         /\ q # INIT_PROC_NR /\ Waiting(m, q) => Waiting(u, q)
         /\ q = INIT_PROC_NR /\ Waiting(m, q) /\ Children(m, c) \cap Dead(m) = {} => Waiting(u, q)
<1>1. /\ InUse(u) = InUse(m) \ {c} /\ Alive(u) = Alive(m) \ {c} /\ Dead(u) = Dead(m) \ {c}
      /\ \A x \in Proc \ {c, INIT_PROC_NR} : Children(u, x) = Children(m, x) \ {c}
      /\ Children(u, INIT_PROC_NR) = (Children(m, INIT_PROC_NR) \cup Children(m, c)) \ {c}
  BY ReapSlots
<1>2. q \in Proc /\ q # c
  BY <1>1, SlotsUsed
<1>3. u.flags[q] = IF q = m.parent[c] THEN m.flags[q] \ {"WAITING"} ELSE m.flags[q]
  BY <1>2 DEF Reaping
<1>4. q = m.parent[c] => ~Has(u, q, "WAITING")
  BY <1>3 DEF Has
<1>5. q # m.parent[c] => /\ Has(u, q, "WAITING") <=> Has(m, q, "WAITING")
                         /\ c \notin Children(m, q)
  BY <1>3 DEF Has, Children
<1>6. ASSUME q # INIT_PROC_NR, Waiting(m, q), q # m.parent[c]
      PROVE  Waiting(u, q)
  <2>1. Children(u, q) = Children(m, q)
    BY <1>1, <1>2, <1>5, <1>6
  <2> QED BY <1>1, <1>2, <1>5, <1>6, <2>1 DEF Waiting
<1>7. ASSUME q = INIT_PROC_NR, Waiting(m, q), q # m.parent[c], Children(m, c) \cap Dead(m) = {}
      PROVE  Waiting(u, q)
  <2>1. c \notin Children(m, c)
    BY FamilyFacts DEF Children
  <2>2. Children(u, q) = Children(m, q) \cup Children(m, c)
    BY <1>1, <1>5, <1>7, <2>1
  <2> QED BY <1>1, <1>2, <1>5, <1>7, <2>2 DEF Waiting
<1> QED BY <1>4, <1>6, <1>7 DEF Waiting

\* The kernel need not be told of one who has long been gone.
LEMMA ToldBefore ==
  ASSUME NEW m, NEW X, NEW F, NEW c, Sound(m, X, F \cup {c}), c \notin Alive(m),
         c \in Proc => m.where[c] = "free", c \notin m.timer
  PROVE  Sound(m, X, F)
BY DEF Sound, Placed

\* It does not matter whether a call of one who is gone is being done.
LEMMA CallsOfTheLiving ==
  ASSUME NEW m, NEW X, NEW Y, NEW F, Sound(m, X, F), Alive(m) \cap X = Alive(m) \cap Y
  PROVE  Sound(m, Y, F)
<1>1. \A q \in Alive(m) : q \in X <=> q \in Y
  OBVIOUS
<1>2. Answering(m, Y)
  BY <1>1 DEF Sound, Answering
<1> QED BY <1>2 DEF Sound

\* cleanup(): everything is in order but that the kernel is not told.
LEMMA CleanupKeeps ==
  ASSUME NEW m, NEW X, Settled(m, X), NEW c \in User, c \in InUse(m),
         m.parent[c] \in X \/ Has(m, m.parent[c], "WAITING")
  PROVE  /\ Sound(cleanup(m, c), X \ {m.parent[c]}, {c})
         /\ \A q \in InUse(cleanup(m, c)) : Waiting(cleanup(m, c), q)
         /\ c \notin InUse(cleanup(m, c)) /\ Alive(cleanup(m, c)) \subseteq Alive(m)
         /\ cleanup(m, c).where[c] = m.where[c] /\ cleanup(m, c).timer = m.timer
<1> DEFINE r == Collected(m, c)
           u == Disinherited(r, c)
           orphans == {p \in Proc : r.parent[p] = c /\ Has(r, p, "HANGING")}
           X1 == X \ {m.parent[c]}
<1>1. /\ m \in MMState /\ Family(m) /\ Sound(m, X, {}) /\ \A q \in InUse(m) : Waiting(m, q)
      /\ c \in Proc /\ m.parent[c] \in Proc /\ m.parent[c] # c
  BY FamilyFacts, SlotsUsed, SlotFacts DEF Settled, Sound
<1>2. /\ Reaping(m, c, u)
      /\ Has(r, INIT_PROC_NR, "WAITING") <=> Has(u, INIT_PROC_NR, "WAITING")
      /\ \A q \in Proc : q \in orphans <=> q # c /\ m.parent[q] = c /\ Has(m, q, "HANGING")
  BY <1>1, ReapFields
<1>3. cleanup(m, c) = IF Has(r, INIT_PROC_NR, "WAITING") /\ orphans # {}
                      THEN Disinherited(Collected(u, Min(orphans)), Min(orphans)) ELSE u
  BY DEF cleanup
<1>4. orphans \subseteq Proc
  OBVIOUS
<1> HIDE DEF r, u, orphans
<1>5. orphans = Children(m, c) \cap Dead(m) /\ INIT_PROC_NR \notin orphans
  <2>1. ASSUME NEW q \in Proc
        PROVE  q \in orphans <=> q \in Children(m, c) \cap Dead(m)
    <3>1. m.parent[q] = c => q \in User /\ q \in InUse(m)
      BY <1>1, SlotFacts DEF Family
    <3>2. m.parent[c] # c
      BY <1>1
    <3> QED BY <1>1, <1>2, <3>1, <3>2, SlotsUsed DEF Children, Has
  <2>2. Children(m, c) \subseteq Proc
    BY <1>1, SlotsUsed DEF Children
  <2>3. m.parent[INIT_PROC_NR] # c
    BY <1>1, SlotFacts DEF Family
  <2> QED BY <1>4, <2>1, <2>2, <2>3 DEF Children
<1>6. /\ Sound(u, X1, {c}) /\ InUse(u) = InUse(m) \ {c} /\ Dead(u) = Dead(m) \ {c}
      /\ Alive(u) = Alive(m) \ {c} /\ u \in MMState /\ Family(u)
  <2>1. Sound(u, X1, {} \cup {c})
    BY <1>1, <1>2, ReapSound
  <2> QED BY <1>1, <1>2, <2>1, ReapSlots DEF Sound
<1>7. \A q \in InUse(u) \ {INIT_PROC_NR} : Waiting(u, q)
  BY <1>1, <1>2, <1>6, ReapWaiting
<1>8. INIT_PROC_NR \in InUse(u) /\ INIT_PROC_NR \in Alive(u) /\ INIT_PROC_NR \in Proc
  BY <1>6, SlotsUsed, SlotFacts DEF Family
<1>0. u.where[c] = m.where[c] /\ u.timer = m.timer
  BY <1>1, <1>2 DEF Reaping
<1>9. CASE ~(Has(r, INIT_PROC_NR, "WAITING") /\ orphans # {})
  <2>1. Waiting(u, INIT_PROC_NR)
    <3>1. CASE orphans = {}
      BY <1>1, <1>2, <1>5, <1>6, <1>8, <3>1, ReapWaiting
    <3>2. CASE ~Has(u, INIT_PROC_NR, "WAITING")
      BY <3>2 DEF Waiting
    <3> QED BY <1>2, <1>9, <3>1, <3>2
  <2> QED BY <1>0, <1>3, <1>6, <1>7, <1>9, <2>1
<1>10. CASE Has(r, INIT_PROC_NR, "WAITING") /\ orphans # {}
  <2> DEFINE o == Min(orphans)
             v == Disinherited(Collected(u, o), o)
  <2>1. o \in orphans
    BY <1>4, <1>10, FirstSlot
  <2>2. v = cleanup(m, c)
    BY <1>3, <1>10
  <2> HIDE DEF o
  <2>3. /\ o \in User /\ o # c /\ o \in InUse(u) /\ o \in Dead(u)
        /\ u.parent[o] = INIT_PROC_NR /\ Has(u, INIT_PROC_NR, "WAITING")
    <3>1. o \in Proc /\ o # c /\ m.parent[o] = c /\ o \in Dead(m) /\ o \in InUse(m)
      BY <1>1, <1>2, <1>4, <1>5, <2>1 DEF Children
    <3>2. u.parent[o] = INIT_PROC_NR
      BY <1>2, <3>1 DEF Reaping
    <3> QED BY <1>2, <1>5, <1>6, <1>10, <2>1, <3>1, <3>2, SlotFacts
  <2>4. Reaping(u, o, v)
    BY <1>6, <1>8, <2>3, SlotFacts, ReapFields
  <2> HIDE DEF v
  <2>5. Sound(v, X1 \ {INIT_PROC_NR}, {c} \cup {o})
    <3>1. INIT_PROC_NR \notin {c}
      BY SlotFacts
    <3> QED BY <1>6, <2>3, <2>4, <3>1, ReapSound
  <2>6. INIT_PROC_NR \notin X1
    BY <1>6, <1>8, <2>3 DEF Sound, Answering, Awaits, Has
  <2>7. /\ InUse(v) = InUse(u) \ {o} /\ Alive(v) = Alive(u) \ {o}
    BY <1>6, <2>3, <2>4, ReapSlots
  <2>8. Sound(v, X1, {c})
    <3>1. X1 \ {INIT_PROC_NR} = X1
      BY <2>6
    <3>2. o \notin Alive(u) /\ o \in Proc
      BY <1>6, <2>3, SlotFacts, SlotsUsed
    <3>3. u.where[o] = "free" /\ o \notin u.timer
      BY <1>6, <2>3, <3>2 DEF Sound, Placed
    <3>4. v.where[o] = "free" /\ v.timer = u.timer
      BY <2>3, <2>4, <3>2, <3>3, SlotFacts DEF Reaping
    <3> QED BY <2>5, <2>7, <3>1, <3>2, <3>3, <3>4, ToldBefore
  <2>9. ASSUME NEW q \in InUse(v)
        PROVE  Waiting(v, q)
    <3>1. q \in InUse(u)
      BY <2>7
    <3>2. CASE q = INIT_PROC_NR
      <4>1. ~Has(v, q, "WAITING")
        BY <1>6, <2>3, <2>4, <3>2, ReapWaiting
      <4> QED BY <4>1 DEF Waiting
    <3>3. CASE q # INIT_PROC_NR
      BY <1>6, <1>7, <2>3, <2>4, <3>1, <3>3, ReapWaiting
    <3> QED BY <3>2, <3>3
  <2>10. v.where[c] = m.where[c] /\ v.timer = m.timer
    BY <1>0, <1>1, <2>3, <2>4, SlotFacts DEF Reaping
  <2> QED BY <1>6, <2>2, <2>7, <2>8, <2>9, <2>10
<1> QED BY <1>9, <1>10

\* What leaves families as they are: alarms, and where processes are.
AlarmsOnly(m, u) ==
  /\ u \in MMState /\ u.parent = m.parent /\ u.procs_in_use = m.procs_in_use
  /\ \A q \in Proc, f \in {"IN_USE", "WAITING", "HANGING", "PAUSED"} :
       f \in u.flags[q] <=> f \in m.flags[q]

\* Everything but the answers and the kernel's view follows.
LEMMA AlarmsFacts ==
  ASSUME NEW m \in MMState, NEW u, AlarmsOnly(m, u)
  PROVE  /\ InUse(u) = InUse(m) /\ Alive(u) = Alive(m) /\ Dead(u) = Dead(m)
         /\ \A q \in Proc : Awaits(u, q) <=> Awaits(m, q)
         /\ \A q \in Proc : Waiting(m, q) => Waiting(u, q)
         /\ Family(m) => Family(u)
<1>1. /\ u \in MMState /\ u.parent = m.parent
      /\ \A q \in Proc, f \in {"IN_USE", "WAITING", "HANGING", "PAUSED"} :
           f \in u.flags[q] <=> f \in m.flags[q]
  BY DEF AlarmsOnly
<1>2. InUse(u) = InUse(m)
  BY <1>1 DEF InUse, Has
<1>3. Dead(u) = Dead(m)
  BY <1>1, <1>2, SlotsUsed DEF Dead, Has
<1>4. Alive(u) = Alive(m)
  BY <1>2, <1>3 DEF Alive
<1>5. \A q : Children(u, q) = Children(m, q)
  BY <1>1, <1>2 DEF Children
<1>6. \A q \in Proc : Awaits(u, q) <=> Awaits(m, q)
  BY <1>1 DEF Awaits
<1>7. \A q \in Proc : Waiting(m, q) => Waiting(u, q)
  BY <1>1, <1>3, <1>4, <1>5 DEF Waiting, Has
<1>8. ASSUME Family(m)
      PROVE  Family(u)
  <2>1. ASSUME NEW p \in User, p \notin InUse(u)
        PROVE  u.flags[p] \subseteq {"ALARM_ON"}
    <3>1. m.flags[p] \subseteq {"ALARM_ON"} /\ p \in Proc
      BY <1>2, <1>8, <2>1, SlotFacts DEF Family
    <3>2. u.flags[p] \subseteq Flag
      BY <1>1, <3>1 DEF MMState
    <3> QED BY <1>1, <3>1, <3>2 DEF Flag
  <2>2. Rooted(u)
    BY <1>1, <1>2, <1>8 DEF Family, Rooted
  <2> QED BY <1>1, <1>2, <1>4, <1>8, <2>1, <2>2 DEF Family
<1> QED BY <1>2, <1>3, <1>4, <1>6, <1>7, <1>8

\* So it is enough to look at these two.
LEMMA AlarmsKeep ==
  ASSUME NEW m, NEW X, NEW F, Sound(m, X, F), \A q \in InUse(m) : Waiting(m, q),
         NEW u, AlarmsOnly(m, u), u.misfits \subseteq Strays,
         NEW Y, Placed(u, {}), Answering(u, Y)
  PROVE  Settled(u, Y)
<1>1. m \in MMState /\ Family(m) /\ m.procs_in_use = Cardinality(InUse(m))
  BY DEF Sound
<1>2. InUse(u) = InUse(m) /\ Family(u) /\ \A q \in Proc : Waiting(m, q) => Waiting(u, q)
  BY <1>1, AlarmsFacts
<1>3. u \in MMState /\ u.procs_in_use = Cardinality(InUse(u))
  BY <1>1, <1>2 DEF AlarmsOnly
<1>4. \A q \in InUse(u) : Waiting(u, q)
  BY <1>1, <1>2, SlotsUsed
<1> QED BY <1>2, <1>3, <1>4 DEF Settled, Sound

\* The answers are as good as they were if who lives is where it was.
LEMMA AlarmsAnswer ==
  ASSUME NEW m \in MMState, NEW X, Answering(m, X), NEW u, AlarmsOnly(m, u),
         \A q \in Alive(m) : u.where[q] = "mm" <=> m.where[q] = "mm"
  PROVE  Answering(u, X)
<1>1. Alive(u) = Alive(m) /\ Alive(m) \subseteq Proc
  BY AlarmsFacts, SlotsUsed
<1>2. ASSUME NEW q \in Alive(m)
      PROVE  /\ Awaits(u, q) <=> Awaits(m, q)
             /\ {"PAUSED", "WAITING"} \subseteq u.flags[q] => {"PAUSED", "WAITING"} \subseteq m.flags[q]
  BY <1>1 DEF AlarmsOnly, Awaits
<1> QED BY <1>1, <1>2 DEF Answering

\* The end of mm_exit(): the clock and the kernel are told.
Ending(m, p, u) ==
  /\ AlarmsOnly(m, u) /\ u.misfits = m.misfits /\ u.timer = m.timer \ {p}
  /\ \A q \in Proc : u.where[q] = IF q = p THEN "free" ELSE m.where[q]

\* It settles what was open.
LEMMA EndingKeeps ==
  ASSUME NEW m, NEW X, NEW p \in User, Sound(m, X, {p}), p \notin Alive(m),
         \A q \in InUse(m) : Waiting(m, q), NEW u, Ending(m, p, u)
  PROVE  Settled(u, X)
<1>1. /\ m \in MMState /\ AlarmsOnly(m, u) /\ u.misfits \subseteq Strays
      /\ Placed(m, {p}) /\ Answering(m, X) /\ p \in Proc
      /\ \A q \in Proc : u.where[q] = IF q = p THEN "free" ELSE m.where[q]
  BY SlotFacts DEF Sound, Ending
<1>2. Alive(u) = Alive(m) /\ Alive(m) \subseteq Proc
  BY <1>1, AlarmsFacts, SlotsUsed
<1>3. Placed(u, {})
  BY <1>1, <1>2 DEF Placed, Ending
<1>4. Answering(u, X)
  BY <1>1, <1>2, AlarmsAnswer
<1> QED BY <1>1, <1>3, <1>4, AlarmsKeep

\* mm_exit() does it.
LEMMA EndingFields ==
  ASSUME NEW m \in MMState, NEW p \in Proc, NEW b \in BOOLEAN
  PROVE  Ending(m, p, [m EXCEPT !.flags[p] = @ \ {"ALARM_ON"}, !.timer = @ \ {p},
                                !.where[p] = "free", !.twice = @ \/ b])
<1> DEFINE fl == [m.flags EXCEPT ![p] = @ \ {"ALARM_ON"}]
           wh == [m.where EXCEPT ![p] = "free"]
           tw == m.twice \/ b
           u == [m EXCEPT !.flags = fl, !.timer = @ \ {p}, !.where = wh, !.twice = tw]
<1>1. u = [m EXCEPT !.flags[p] = @ \ {"ALARM_ON"}, !.timer = @ \ {p},
                    !.where[p] = "free", !.twice = @ \/ b]
  BY DEF MMState
<1>2. /\ fl \in [Proc -> SUBSET Flag]
      /\ \A q \in Proc, f \in {"IN_USE", "WAITING", "HANGING", "PAUSED"} :
           f \in fl[q] <=> f \in m.flags[q]
  BY DEF MMState
<1>3. /\ wh \in [Proc -> {"runs", "mm", "fs", "free"}]
      /\ \A q \in Proc : wh[q] = IF q = p THEN "free" ELSE m.where[q]
  BY DEF MMState
<1>4. tw \in BOOLEAN
  BY DEF MMState
<1> HIDE DEF fl, wh, tw
<1>5. Ending(m, p, u)
  BY <1>2, <1>3, <1>4 DEF Ending, AlarmsOnly, MMState
<1> QED BY <1>1, <1>5

\* A process hangs until its parent waits.
Hangs(m, p, u) ==
  /\ u \in MMState /\ u.parent = m.parent /\ u.procs_in_use = m.procs_in_use
  /\ u.timer = m.timer /\ u.where = m.where /\ u.misfits = m.misfits
  /\ \A q \in Proc : u.flags[q] = IF q = p THEN m.flags[q] \cup {"HANGING"} ELSE m.flags[q]

\* The flag is set.
LEMMA HangsBy ==
  ASSUME NEW m \in MMState, NEW p \in Proc
  PROVE  Hangs(m, p, [m EXCEPT !.flags[p] = @ \cup {"HANGING"}])
BY DEF MMState, Hangs, Flag

\* A process dies whose parent does not wait.
LEMMA HangingKeeps ==
  ASSUME NEW m, NEW X, Settled(m, X), NEW p \in User, p \in InUse(m),
         ~Has(m, m.parent[p], "WAITING"), NEW u, Hangs(m, p, u)
  PROVE  Sound(u, X, {p}) /\ p \notin Alive(u) /\ \A q \in InUse(u) : Waiting(u, q)
<1>1. /\ m \in MMState /\ Sound(m, X, {}) /\ Family(m) /\ Placed(m, {}) /\ Answering(m, X)
      /\ p \in Proc /\ p # INIT_PROC_NR /\ INIT_PROC_NR \in Proc /\ User \subseteq Proc
  BY SlotFacts DEF Settled, Sound
<1>2. /\ u \in MMState /\ u.parent = m.parent /\ u.where = m.where /\ u.timer = m.timer
      /\ u.misfits = m.misfits /\ u.procs_in_use = m.procs_in_use
      /\ \A q \in Proc : u.flags[q] = IF q = p THEN m.flags[q] \cup {"HANGING"} ELSE m.flags[q]
  BY DEF Hangs
<1>3. /\ InUse(u) = InUse(m) /\ Dead(u) = Dead(m) \cup {p}
      /\ \A q \in Proc : Has(u, q, "WAITING") <=> Has(m, q, "WAITING")
  <2>1. InUse(u) = InUse(m)
    BY <1>2 DEF InUse, Has
  <2>2. \A q \in Proc : "HANGING" \in u.flags[q] <=> "HANGING" \in m.flags[q] \/ q = p
    BY <1>2
  <2>3. Dead(u) = Dead(m) \cup {p}
    <3>1. /\ \A q \in Proc : q \in Dead(u) <=> q \in InUse(u) /\ "HANGING" \in u.flags[q]
          /\ \A q \in Proc : q \in Dead(m) <=> q \in InUse(m) /\ "HANGING" \in m.flags[q]
          /\ Dead(u) \subseteq Proc /\ Dead(m) \subseteq Proc
      BY <1>1, <1>2, SlotsUsed
    <3> QED BY <1>1, <2>1, <2>2, <3>1
  <2>4. ASSUME NEW q \in Proc
        PROVE  "WAITING" \in u.flags[q] <=> "WAITING" \in m.flags[q]
    <3>1. "WAITING" \notin {"HANGING"}
      OBVIOUS
    <3>2. CASE q = p
      BY <1>2, <3>1, <3>2
    <3>3. CASE q # p
      BY <1>2, <3>3
    <3> QED BY <3>2, <3>3
  <2>5. \A q \in Proc : Has(u, q, "WAITING") <=> Has(m, q, "WAITING")
    BY <2>4, Zenon DEF Has
  <2> QED BY <2>1, <2>3, <2>5
<1>4. Alive(u) = Alive(m) \ {p} /\ Alive(m) \subseteq InUse(m) /\ InUse(m) \subseteq Proc
  BY <1>1, <1>3, SlotsUsed DEF Alive
<1>5. \A q : Children(u, q) = Children(m, q)
  BY <1>2, <1>3 DEF Children
<1>6. Family(u)
  <2>1. \A q \in User : q \notin InUse(u) => u.flags[q] = m.flags[q]
    BY <1>1, <1>2, <1>3
  <2>2. Rooted(u)
    BY <1>1, <1>2, <1>3 DEF Family, Rooted
  <2> QED BY <1>1, <1>2, <1>3, <1>4, <2>1, <2>2 DEF Family
<1>7. Placed(u, {p})
  BY <1>1, <1>2, <1>4 DEF Placed
<1>8. \A q \in Alive(u) : u.flags[q] = m.flags[q] /\ q \in Alive(m)
  BY <1>2, <1>4
<1>9. Answering(u, X)
  BY <1>1, <1>2, <1>8 DEF Answering, Awaits
<1>10. ASSUME NEW q \in InUse(u)
       PROVE  Waiting(u, q)
  <2>1. Waiting(m, q) /\ q \in Proc
    BY <1>3, <1>4 DEF Settled
  <2>2. Has(u, q, "WAITING") => p \notin Children(m, q)
    BY <1>3, <2>1 DEF Children
  <2> QED BY <1>3, <1>4, <1>5, <2>1, <2>2 DEF Waiting
<1> QED BY <1>1, <1>2, <1>3, <1>4, <1>6, <1>7, <1>9, <1>10 DEF Sound

\* mm_exit(): somebody dies, also one who is dead already.
LEMMA ExitKeeps ==
  ASSUME NEW m, NEW X, Settled(m, X), NEW p \in User, p \in InUse(m)
  PROVE  Settled(mm_exit(m, p), X) /\ p \notin Alive(mm_exit(m, p))
<1> DEFINE e == IF Has(m, m.parent[p], "WAITING") THEN cleanup(m, p)
                ELSE [m EXCEPT !.flags[p] = @ \cup {"HANGING"}]
           b == m.where[p] = "free"
<1>1. mm_exit(m, p) = [e EXCEPT !.flags[p] = @ \ {"ALARM_ON"}, !.timer = @ \ {p},
                                !.where[p] = "free", !.twice = @ \/ b]
  BY DEF mm_exit
<1>2. m \in MMState /\ p \in Proc /\ b \in BOOLEAN
  BY SlotFacts DEF Settled, Sound
<1> HIDE DEF b
<1>3. Sound(e, X, {p}) /\ p \notin Alive(e) /\ \A q \in InUse(e) : Waiting(e, q)
  <2>1. CASE Has(m, m.parent[p], "WAITING")
    <3>1. /\ Sound(e, X \ {m.parent[p]}, {p}) /\ \A q \in InUse(e) : Waiting(e, q)
          /\ p \notin InUse(e) /\ Alive(e) \subseteq Alive(m)
      BY <2>1, CleanupKeeps
    <3>2. m.parent[p] \in X => m.parent[p] \notin Alive(m)
      BY <2>1 DEF Settled, Sound, Answering, Awaits, Has
    <3>3. Alive(e) \cap (X \ {m.parent[p]}) = Alive(e) \cap X
      BY <3>1, <3>2
    <3>4. Sound(e, X, {p})
      BY <3>1, <3>3, CallsOfTheLiving
    <3>5. p \notin Alive(e)
      BY <3>1 DEF Alive
    <3> QED BY <3>1, <3>4, <3>5
  <2>2. CASE ~Has(m, m.parent[p], "WAITING")
    <3>1. Hangs(m, p, e)
      BY <1>2, <2>2, HangsBy
    <3> HIDE DEF e
    <3> QED BY <2>2, <3>1, HangingKeeps
  <2> QED BY <2>1, <2>2
<1> HIDE DEF e
<1>4. e \in MMState
  BY <1>3 DEF Sound
<1>5. Ending(e, p, mm_exit(m, p))
  <2>1. Ending(e, p, [e EXCEPT !.flags[p] = @ \ {"ALARM_ON"}, !.timer = @ \ {p},
                               !.where[p] = "free", !.twice = @ \/ b])
    BY <1>2, <1>4, EndingFields
  <2> QED BY <1>1, <2>1, Zenon
<1>6. Alive(mm_exit(m, p)) = Alive(e)
  BY <1>4, <1>5, AlarmsFacts DEF Ending
<1> QED BY <1>3, <1>5, <1>6, EndingKeeps

\* do_wait() and do_pause(): the process hangs on its call.
Stays(m, p, f, u) ==
  /\ u \in MMState /\ u.parent = m.parent /\ u.procs_in_use = m.procs_in_use
  /\ u.timer = m.timer /\ u.where = m.where /\ u.misfits = m.misfits
  /\ \A q \in Proc : u.flags[q] = IF q = p THEN m.flags[q] \cup {f} ELSE m.flags[q]

\* It pauses, or waits for children that live.
LEMMA StayKeeps ==
  ASSUME NEW m, NEW p \in Alive(m), Settled(m, {p}), NEW f \in {"PAUSED", "WAITING"},
         f = "WAITING" => Children(m, p) \cap Dead(m) = {} /\ Children(m, p) # {},
         NEW u, Stays(m, p, f, u)
  PROVE  Settled(u, {})
<1>1. /\ m \in MMState /\ Family(m) /\ Placed(m, {}) /\ Answering(m, {p}) /\ Sound(m, {p}, {})
      /\ User \subseteq Proc
  BY SlotFacts DEF Settled, Sound
<1>2. /\ u \in MMState /\ u.parent = m.parent /\ u.where = m.where /\ u.timer = m.timer
      /\ u.misfits = m.misfits /\ u.procs_in_use = m.procs_in_use
      /\ \A q \in Proc : u.flags[q] = IF q = p THEN m.flags[q] \cup {f} ELSE m.flags[q]
  BY DEF Stays
<1>3. "IN_USE" \notin {f} /\ "HANGING" \notin {f}
  OBVIOUS
<1>4. \A q \in Proc, g \in {"IN_USE", "HANGING"} : g \in u.flags[q] <=> g \in m.flags[q]
  BY <1>2, <1>3
<1>5. /\ InUse(u) = InUse(m) /\ Dead(u) = Dead(m) /\ Alive(u) = Alive(m)
      /\ Alive(m) \subseteq Proc /\ InUse(m) \subseteq Proc /\ p \in InUse(m)
  <2>1. InUse(u) = InUse(m)
    BY <1>4 DEF InUse, Has
  <2>2. Dead(u) = Dead(m)
    BY <1>1, <1>4, <2>1, SlotsUsed DEF Dead, Has
  <2> QED BY <1>1, <2>1, <2>2, SlotsUsed DEF Alive
<1>6. \A q : Children(u, q) = Children(m, q)
  BY <1>2, <1>5 DEF Children
<1>7. Family(u)
  <2>1. \A q \in User : q \notin InUse(u) => u.flags[q] = m.flags[q]
    BY <1>1, <1>2, <1>5
  <2>2. Rooted(u)
    BY <1>1, <1>2, <1>5 DEF Family, Rooted
  <2> QED BY <1>1, <1>2, <1>5, <2>1, <2>2 DEF Family
<1>8. Placed(u, {})
  BY <1>1, <1>2, <1>5 DEF Placed
<1>9. ASSUME NEW q \in Alive(u)
      PROVE  /\ ~({"PAUSED", "WAITING"} \subseteq u.flags[q])
             /\ u.where[q] = "mm" <=> Awaits(u, q)
  <2>1. /\ ~({"PAUSED", "WAITING"} \subseteq m.flags[q])
        /\ m.where[q] = "mm" <=> q = p \/ Awaits(m, q)
        /\ q = p => ~Awaits(m, q)
    BY <1>1, <1>5 DEF Answering
  <2>2. CASE q = p
    <3>1. u.flags[q] = m.flags[q] \cup {f}
      BY <1>2, <1>5, <2>2
    <3> QED BY <1>2, <2>1, <2>2, <3>1 DEF Awaits
  <2>3. CASE q # p
    <3>1. u.flags[q] = m.flags[q]
      BY <1>2, <1>5, <2>3
    <3> QED BY <1>2, <2>1, <2>3, <3>1 DEF Awaits
  <2> QED BY <2>2, <2>3
<1>10. Answering(u, {})
  BY <1>9 DEF Answering
<1>11. ASSUME NEW q \in InUse(u)
       PROVE  Waiting(u, q)
  <2>1. Waiting(m, q) /\ q \in Proc
    BY <1>5 DEF Settled
  <2>2. CASE q = p
    <3>1. ~Has(m, p, "WAITING")
      BY <1>1 DEF Answering, Awaits, Has
    <3>2. f # "WAITING" => ~Has(u, p, "WAITING")
      BY <1>2, <1>5, <3>1 DEF Has
    <3> QED BY <1>5, <1>6, <2>2, <3>2 DEF Waiting
  <2>3. CASE q # p
    <3>1. u.flags[q] = m.flags[q]
      BY <1>2, <2>1, <2>3
    <3> QED BY <1>5, <1>6, <2>1, <3>1 DEF Waiting, Has
  <2> QED BY <2>2, <2>3
<1> QED BY <1>1, <1>2, <1>5, <1>7, <1>8, <1>10, <1>11 DEF Settled, Sound

\* do_wait().
LEMMA WaitKeeps ==
  ASSUME NEW m, NEW p \in Alive(m), Settled(m, {p})
  PROVE  Settled(do_wait(m, p), {})
<1> DEFINE dead == Children(m, p) \cap Dead(m)
<1>1. m \in MMState /\ Family(m) /\ Sound(m, {p}, {}) /\ p \in Proc
  BY SlotsUsed DEF Settled, Sound
<1>2. dead \subseteq Proc /\ dead \subseteq InUse(m) /\ INIT_PROC_NR \notin dead
  BY <1>1, SlotsUsed, SlotFacts DEF Family, Children
<1>3. CASE dead # {}
  <2> DEFINE c == Min(dead)
  <2>1. c \in dead
    BY <1>2, <1>3, FirstSlot
  <2>2. do_wait(m, p) = cleanup(m, c)
    BY <1>3 DEF do_wait
  <2> HIDE DEF c
  <2>3. c \in User /\ c \in InUse(m) /\ m.parent[c] = p /\ c \notin Alive(m) /\ c \in Proc
    BY <1>1, <1>2, <2>1, SlotFacts DEF Children, Alive
  <2>4. /\ Sound(cleanup(m, c), {p} \ {p}, {c})
        /\ \A q \in InUse(cleanup(m, c)) : Waiting(cleanup(m, c), q)
        /\ c \notin InUse(cleanup(m, c)) /\ Alive(cleanup(m, c)) \subseteq Alive(m)
        /\ cleanup(m, c).where[c] = m.where[c] /\ cleanup(m, c).timer = m.timer
    BY <2>3, CleanupKeeps
  <2> DEFINE u == cleanup(m, c)
  <2>5. Sound(u, {}, {} \cup {c})
    BY <2>4
  <2>6. c \notin Alive(u) /\ u.where[c] = "free" /\ c \notin u.timer
    BY <1>1, <2>3, <2>4 DEF Sound, Placed
  <2> HIDE DEF u
  <2>7. Sound(u, {}, {})
    BY <2>5, <2>6, ToldBefore
  <2> QED BY <2>2, <2>4, <2>7 DEF Settled, u
<1>4. CASE dead = {} /\ Children(m, p) # {}
  <2> DEFINE u == [m EXCEPT !.flags[p] = @ \cup {"WAITING"}]
  <2>1. do_wait(m, p) = u
    BY <1>4 DEF do_wait
  <2>2. Stays(m, p, "WAITING", u)
    BY <1>1 DEF Stays, MMState, Flag
  <2> HIDE DEF u
  <2> QED BY <1>4, <2>1, <2>2, StayKeeps
<1>5. CASE Children(m, p) = {}
  <2>1. do_wait(m, p) = reply(m, p)
    BY <1>5 DEF do_wait
  <2>2. Settled(reply(m, p), {p} \ {p})
    BY <1>1, ReplyKeeps
  <2>3. {p} \ {p} = {}
    OBVIOUS
  <2> QED BY <2>1, <2>2, <2>3
<1> QED BY <1>3, <1>4, <1>5

\* A child is put into a free slot; both are still to be answered.
Forked(m, p, c, u) ==
  /\ u \in MMState /\ u.procs_in_use = m.procs_in_use + 1 /\ u.misfits = m.misfits
  /\ u.timer = IF p \in m.timer THEN m.timer \cup {c} ELSE m.timer \ {c}
  /\ \A q \in Proc : /\ u.flags[q] = IF q = c THEN m.flags[p] ELSE m.flags[q]
                     /\ u.parent[q] = IF q = c THEN p ELSE m.parent[q]
                     /\ u.where[q] = IF q = c THEN "mm" ELSE m.where[q]

\* do_fork() does so.
LEMMA ForkedBy ==
  ASSUME NEW m \in MMState, NEW p \in Proc, NEW c \in Proc
  PROVE  Forked(m, p, c, [m EXCEPT !.flags[c] = m.flags[p], !.parent[c] = p,
                                   !.procs_in_use = @ + 1, !.where[c] = "mm",
                                   !.pend[c] = m.pend[p],
                                   !.timer = IF p \in @ THEN @ \cup {c} ELSE @ \ {c}])
<1> DEFINE fl == [m.flags EXCEPT ![c] = m.flags[p]]
           pa == [m.parent EXCEPT ![c] = p]
           wh == [m.where EXCEPT ![c] = "mm"]
           pe == [m.pend EXCEPT ![c] = m.pend[p]]
           ti == IF p \in m.timer THEN m.timer \cup {c} ELSE m.timer \ {c}
           n == m.procs_in_use + 1
           u == [m EXCEPT !.flags = fl, !.parent = pa, !.procs_in_use = n, !.where = wh,
                          !.pend = pe, !.timer = ti]
<1>1. u = [m EXCEPT !.flags[c] = m.flags[p], !.parent[c] = p,
                    !.procs_in_use = @ + 1, !.where[c] = "mm", !.pend[c] = m.pend[p],
                    !.timer = IF p \in @ THEN @ \cup {c} ELSE @ \ {c}]
  BY DEF MMState
<1>2. /\ fl \in [Proc -> SUBSET Flag] /\ pa \in [Proc -> Proc \cup {MM_PROC_NR}]
      /\ wh \in [Proc -> {"runs", "mm", "fs", "free"}] /\ pe \in [Proc -> SUBSET Signal]
      /\ ti \in SUBSET Proc /\ n \in Int
      /\ \A q \in Proc : /\ fl[q] = IF q = c THEN m.flags[p] ELSE m.flags[q]
                         /\ pa[q] = IF q = c THEN p ELSE m.parent[q]
                         /\ wh[q] = IF q = c THEN "mm" ELSE m.where[q]
  BY DEF MMState
<1>3. ti = IF p \in m.timer THEN m.timer \cup {c} ELSE m.timer \ {c}
  OBVIOUS
<1>4. n = m.procs_in_use + 1
  OBVIOUS
<1> HIDE DEF fl, pa, wh, pe, ti, n
<1>5. /\ u \in MMState /\ u.flags = fl /\ u.parent = pa /\ u.procs_in_use = n /\ u.where = wh
      /\ u.timer = ti /\ u.misfits = m.misfits
  BY <1>2 DEF MMState
<1> HIDE DEF u
<1>6. Forked(m, p, c, u)
  BY <1>2, <1>3, <1>4, <1>5 DEF Forked
<1> QED BY <1>1, <1>6

\* Until they are answered everything else is in order.
LEMMA ForkedKeeps ==
  ASSUME NEW m, NEW p \in Alive(m), Settled(m, {p}), NEW c \in User, c \notin InUse(m),
         NEW u, Forked(m, p, c, u)
  PROVE  Settled(u, {p, c})
<1>1. /\ m \in MMState /\ Family(m) /\ Placed(m, {}) /\ Answering(m, {p}) /\ Sound(m, {p}, {})
      /\ User \subseteq Proc /\ c \in Proc /\ p \in Proc /\ p # c /\ p \in InUse(m)
      /\ c # INIT_PROC_NR /\ INIT_PROC_NR \in Proc /\ MM_PROC_NR \notin Proc
  BY SlotFacts, SlotsUsed DEF Settled, Sound
<1>2. /\ u \in MMState /\ u.procs_in_use = m.procs_in_use + 1 /\ u.misfits = m.misfits
      /\ u.timer = IF p \in m.timer THEN m.timer \cup {c} ELSE m.timer \ {c}
      /\ \A q \in Proc : /\ u.flags[q] = IF q = c THEN m.flags[p] ELSE m.flags[q]
                         /\ u.parent[q] = IF q = c THEN p ELSE m.parent[q]
                         /\ u.where[q] = IF q = c THEN "mm" ELSE m.where[q]
  BY DEF Forked
<1>3. "IN_USE" \in m.flags[p] /\ "HANGING" \notin m.flags[p] /\ "IN_USE" \notin m.flags[c]
  BY <1>1, SlotsUsed
<1>4. /\ InUse(u) = InUse(m) \cup {c} /\ Dead(u) = Dead(m) /\ Alive(u) = Alive(m) \cup {c}
      /\ InUse(m) \subseteq Proc /\ Alive(m) \subseteq InUse(m)
  <2>1. InUse(u) = InUse(m) \cup {c}
    BY <1>1, <1>2, <1>3 DEF InUse, Has
  <2>2. Dead(u) = Dead(m)
    <3>1. /\ \A q \in Proc : q \in Dead(u) <=> "IN_USE" \in u.flags[q] /\ "HANGING" \in u.flags[q]
          /\ \A q \in Proc : q \in Dead(m) <=> "IN_USE" \in m.flags[q] /\ "HANGING" \in m.flags[q]
          /\ Dead(u) \subseteq Proc /\ Dead(m) \subseteq Proc
      BY <1>1, <1>2, SlotsUsed
    <3>2. \A q \in Proc : q \in Dead(u) <=> q \in Dead(m)
      BY <1>2, <1>3, <3>1
    <3> QED BY <3>1, <3>2
  <2> QED BY <1>1, <2>1, <2>2, SlotsUsed DEF Alive
<1>5. u.procs_in_use = Cardinality(InUse(u))
  <2>1. Cardinality(InUse(u)) = Cardinality(InUse(m)) + 1
    <3>1. IsFiniteSet(InUse(m))
      BY <1>1, SlotsUsed
    <3>2. Cardinality(InUse(m) \cup {c}) = Cardinality(InUse(m)) + 1
      BY <3>1, FS_AddElement
    <3> QED BY <1>4, <3>2
  <2> QED BY <1>1, <1>2, <2>1 DEF Sound
<1>6. \A q \in InUse(m) : m.parent[q] # c
  BY <1>1, <1>4, SlotFacts DEF Family
<1>7. \A q \in Proc : Children(u, q) = Children(m, q) \cup (IF q = p THEN {c} ELSE {})
  BY <1>1, <1>2, <1>4 DEF Children
<1>8. Family(u)
  <2>1. Rooted(u)
    <3> SUFFICES ASSUME NEW S \in SUBSET (InUse(u) \cap User), S # {}
                 PROVE  \E q \in S : u.parent[q] \notin S
      BY DEF Rooted
    <3>1. CASE S \ {c} = {}
      <4>1. S = {c} /\ u.parent[c] = p
        BY <1>1, <1>2, <3>1
      <4> QED BY <1>1, <4>1
    <3>2. CASE S \ {c} # {}
      <4>1. S \ {c} \in SUBSET (InUse(m) \cap User)
        BY <1>4
      <4>2. PICK q \in S \ {c} : m.parent[q] \notin S \ {c}
        BY <1>1, <3>2, <4>1 DEF Family, Rooted
      <4>3. u.parent[q] = m.parent[q] /\ m.parent[q] # c
        BY <1>1, <1>2, <1>6, <4>1
      <4> QED BY <4>2, <4>3
    <3> QED BY <3>1, <3>2
  <2>2. ASSUME NEW q \in User
        PROVE  IF q \in InUse(u) THEN u.parent[q] \in InUse(u)
               ELSE u.flags[q] \subseteq {"ALARM_ON"} /\ u.parent[q] = MM_PROC_NR
    BY <1>1, <1>2, <1>4 DEF Family
  <2> QED BY <1>1, <1>2, <1>4, <2>1, <2>2 DEF Family
<1>9. Placed(u, {})
  BY <1>1, <1>2, <1>4 DEF Placed
<1>10. Answering(u, {p, c})
  <2> SUFFICES ASSUME NEW q \in Alive(u)
               PROVE  /\ ~({"PAUSED", "WAITING"} \subseteq u.flags[q])
                      /\ u.where[q] = "mm" <=> q \in {p, c} \/ Awaits(u, q)
                      /\ q \in {p, c} => ~Awaits(u, q)
    BY DEF Answering
  <2>1. CASE q = c
    BY <1>1, <1>2, <2>1 DEF Answering, Awaits
  <2>2. CASE q # c
    BY <1>1, <1>2, <1>4, <2>2 DEF Answering, Awaits
  <2> QED BY <2>1, <2>2
<1>11. ASSUME NEW q \in InUse(u)
       PROVE  Waiting(u, q)
  <2>1. CASE q = c \/ q = p
    <3>1. "WAITING" \notin m.flags[p]
      BY <1>1 DEF Answering, Awaits
    <3> QED BY <1>1, <1>2, <2>1, <3>1 DEF Waiting, Has
  <2>2. CASE q # c /\ q # p
    <3>1. Waiting(m, q) /\ q \in Proc
      BY <1>4, <2>2 DEF Settled
    <3>2. Has(u, q, "WAITING") <=> Has(m, q, "WAITING")
      BY <1>2, <2>2, <3>1 DEF Has
    <3> QED BY <1>4, <1>7, <2>2, <3>1, <3>2 DEF Waiting
  <2> QED BY <2>1, <2>2
<1> QED BY <1>1, <1>2, <1>5, <1>8, <1>9, <1>10, <1>11 DEF Settled, Sound

\* do_fork().
LEMMA ForkKeeps ==
  ASSUME NEW m, NEW p \in Alive(m), Settled(m, {p}), NEW c \in User, c \notin InUse(m)
  PROVE  Settled(do_fork(m, p, c), {})
<1> DEFINE u == [m EXCEPT !.flags[c] = m.flags[p], !.parent[c] = p,
                          !.procs_in_use = @ + 1, !.where[c] = "mm",
                          !.pend[c] = m.pend[p],
                          !.timer = IF p \in @ THEN @ \cup {c} ELSE @ \ {c}]
<1>1. do_fork(m, p, c) = reply(reply(u, c), p)
  BY DEF do_fork
<1>2. m \in MMState /\ p \in Proc /\ c \in Proc /\ p # c
  BY SlotFacts, SlotsUsed DEF Settled, Sound
<1>3. Forked(m, p, c, u)
  BY <1>2, ForkedBy
<1> HIDE DEF u
<1>4. Settled(u, {p, c})
  BY <1>3, ForkedKeeps
<1>5. Settled(reply(u, c), {p})
  <2>1. Settled(reply(u, c), {p, c} \ {c})
    BY <1>2, <1>4, ReplyKeeps
  <2>2. {p, c} \ {c} = {p}
    BY <1>2
  <2> QED BY <2>1, <2>2
<1>6. Settled(reply(reply(u, c), p), {p} \ {p})
  BY <1>2, <1>5, ReplyKeeps
<1>7. {p} \ {p} = {}
  OBVIOUS
<1> QED BY <1>1, <1>6, <1>7
-----------------------------------------------------------------------------
(* signal.c *)

\* unpause(): who hangs on a call of MM gets its answer.
LEMMA UnpauseKeeps ==
  ASSUME NEW m, NEW X, Settled(m, X), NEW p \in User
  PROVE  Settled(unpause(m, p), X)
<1> DEFINE hangs == {"PAUSED", "WAITING"} \cap m.flags[p]
           off == IF "PAUSED" \in hangs THEN {"PAUSED"} ELSE {"WAITING"}
           s == [m EXCEPT !.flags[p] = @ \ off]
<1>1. /\ m \in MMState /\ Sound(m, X, {}) /\ Family(m) /\ Placed(m, {}) /\ Answering(m, X)
      /\ p \in Proc /\ User \subseteq Proc
  BY SlotFacts DEF Settled, Sound
<1>2. CASE Has(m, p, "HANGING") \/ hangs = {}
  BY <1>2 DEF unpause
<1>3. CASE ~(Has(m, p, "HANGING") \/ hangs = {})
  <2> SUFFICES ASSUME NEW u, u = reply(s, p)
               PROVE  Settled(u, X)
    BY <1>3 DEF unpause
  <2>1. p \in InUse(m) /\ p \in Alive(m) /\ Awaits(m, p)
    BY <1>1, <1>3, FamilyFacts, SlotsUsed DEF Awaits, Has
  <2>2. m.where[p] = "mm" /\ p \notin X /\ ~({"PAUSED", "WAITING"} \subseteq m.flags[p])
    BY <1>1, <2>1 DEF Answering
  <2>3. hangs \ off = {}
    BY <2>2
  <2>4. /\ s \in MMState /\ s.parent = m.parent /\ s.timer = m.timer /\ s.where = m.where
        /\ s.misfits = m.misfits /\ s.procs_in_use = m.procs_in_use
        /\ \A q \in Proc : s.flags[q] = IF q = p THEN m.flags[q] \ off ELSE m.flags[q]
    BY <1>1 DEF MMState
  <2>5. "IN_USE" \notin off /\ "HANGING" \notin off
    OBVIOUS
  <2> HIDE DEF s
  <2>6. Replying(s, p, u)
    BY <1>1, <2>4, ReplyFields
  <2>7. InUse(s) = InUse(m) /\ Dead(s) = Dead(m)
    <3>1. \A q \in Proc, f \in {"IN_USE", "HANGING"} : Has(s, q, f) <=> Has(m, q, f)
      BY <2>4, <2>5 DEF Has
    <3>2. InUse(s) = InUse(m)
      BY <3>1 DEF InUse
    <3> QED BY <1>1, <3>1, <3>2, SlotsUsed DEF Dead
  <2>8. /\ u \in MMState /\ u.flags = s.flags /\ u.parent = m.parent /\ u.timer = m.timer
        /\ u.procs_in_use = m.procs_in_use /\ u.misfits = m.misfits
        /\ \A q \in Proc : u.where[q] = IF q = p THEN "runs" ELSE m.where[q]
    <3>1. Alive(s) = Alive(m)
      BY <2>7 DEF Alive
    <3> QED BY <2>1, <2>2, <2>4, <2>6, <3>1 DEF Replying
  <2>9. /\ InUse(u) = InUse(m) /\ Dead(u) = Dead(m) /\ Alive(u) = Alive(m)
        /\ Alive(m) \subseteq Proc /\ InUse(m) \subseteq Proc
    BY <1>1, <2>7, <2>8, SlotsUsed DEF InUse, Dead, Alive, Has
  <2>10. \A q : Children(u, q) = Children(m, q)
    BY <2>8, <2>9 DEF Children
  <2>11. \A q \in Proc : u.flags[q] = IF q = p THEN m.flags[q] \ off ELSE m.flags[q]
    BY <2>4, <2>8
  <2>12. Family(u)
    <3>1. \A q \in User : q \notin InUse(u) => u.flags[q] = m.flags[q]
      BY <1>1, <2>1, <2>9, <2>11
    <3>2. Rooted(u)
      BY <1>1, <2>8, <2>9 DEF Family, Rooted
    <3> QED BY <1>1, <2>8, <2>9, <3>1, <3>2 DEF Family
  <2>13. Placed(u, {})
    BY <1>1, <2>1, <2>8, <2>9 DEF Placed
  <2>14. Answering(u, X)
    <3> SUFFICES ASSUME NEW q \in Alive(m)
                 PROVE  /\ ~({"PAUSED", "WAITING"} \subseteq u.flags[q])
                        /\ u.where[q] = "mm" <=> q \in X \/ Awaits(u, q)
                        /\ q \in X => ~Awaits(u, q)
      BY <2>9 DEF Answering
    <3>1. CASE q = p
      <4>1. ~Awaits(u, q) /\ u.where[q] = "runs"
        BY <2>3, <2>8, <2>11, <3>1, <1>1 DEF Awaits
      <4> QED BY <2>2, <3>1, <4>1 DEF Awaits
    <3>2. CASE q # p
      BY <1>1, <2>8, <2>9, <2>11, <3>2 DEF Answering, Awaits
    <3> QED BY <3>1, <3>2
  <2>15. \A q \in InUse(u) : Waiting(u, q)
    BY <2>9, <2>10, <2>11 DEF Waiting, Has, Settled
  <2> QED BY <1>1, <2>8, <2>9, <2>12, <2>13, <2>14, <2>15 DEF Settled, Sound
<1> QED BY <1>2, <1>3

\* One passage of check_sig()'s loop.
LEMMA VisitKeeps ==
  ASSUME NEW m, NEW X, Settled(m, X), NEW p \in User, NEW sg
  PROVE  Settled(Visit(m, p, sg), X)
<1> DEFINE s == IF sg.alarm THEN [m EXCEPT !.flags[p] = @ \ {"ALARM_ON"}] ELSE m
<1>1. m \in MMState /\ p \in Proc /\ Sound(m, X, {}) /\ \A q \in InUse(m) : Waiting(m, q)
  BY SlotFacts DEF Settled, Sound
<1>2. Settled(s, X) /\ InUse(s) = InUse(m)
  <2>1. CASE ~sg.alarm
    BY <2>1
  <2>2. CASE sg.alarm
    <3>1. s = [m EXCEPT !.flags[p] = @ \ {"ALARM_ON"}]
      BY <2>2
    <3> HIDE DEF s
    <3>2. AlarmsOnly(m, s) /\ s.where = m.where /\ s.timer = m.timer /\ s.misfits = m.misfits
      BY <1>1, <3>1 DEF AlarmsOnly, MMState
    <3>3. Alive(s) = Alive(m) /\ InUse(s) = InUse(m)
      BY <1>1, <3>2, AlarmsFacts
    <3>4. Placed(s, {}) /\ Answering(s, X) /\ s.misfits \subseteq Strays
      BY <1>1, <3>2, <3>3, AlarmsAnswer DEF Placed, Sound
    <3> QED BY <1>1, <3>2, <3>3, <3>4, AlarmsKeep
  <2> QED BY <2>1, <2>2
<1> HIDE DEF s
<1>3. p \in InUse(m) => Settled(unpause(mm_exit(s, p), p), X)
  BY <1>2, ExitKeeps, UnpauseKeeps
<1>4. Settled(unpause(s, p), X)
  BY <1>2, UnpauseKeeps
<1> QED BY <1>2, <1>3, <1>4 DEF Visit, s

\* The passages of check_sig()'s loop up to slot k.
Passes(m, sg, k, a) ==
  a = [p \in INIT_PROC_NR .. k |-> IF p = INIT_PROC_NR THEN m ELSE Visit(a[p - 1], p, sg)]

\* There are such passages, however many slots there are.
LEMMA PassesExist ==
  ASSUME NEW m, NEW sg, NEW n \in Nat, n >= INIT_PROC_NR
  PROVE  \E a : Passes(m, sg, n, a)
<1> DEFINE Bad == {k \in Nat : k >= INIT_PROC_NR /\ ~ \E a : Passes(m, sg, k, a)}
           I == INIT_PROC_NR
<1>0. I \in Nat
  BY DEF INIT_PROC_NR
<1> HIDE DEF I
<1> SUFFICES ASSUME Bad # {}
             PROVE  FALSE
  OBVIOUS
<1>1. PICK k \in Bad : \A y \in Bad : k <= y
  <2>1. LET x == CHOOSE x \in Bad : \A y \in Bad : x <= y
        IN  x \in Bad /\ \A y \in Bad : x <= y
    BY LeastIndex
  <2> QED BY <2>1
<1>2. k \in Nat /\ k >= I /\ ~ \E a : Passes(m, sg, k, a)
  BY DEF I
<1>3. CASE k = I
  <2> DEFINE a == [p \in I .. I |-> m]
  <2>1. a = [p \in I .. I |-> IF p = I THEN m ELSE Visit(a[p - 1], p, sg)]
    BY <1>0
  <2> HIDE DEF a
  <2>2. Passes(m, sg, k, a)
    BY <1>3, <2>1 DEF Passes, I
  <2> QED BY <1>2, <2>2
<1>4. CASE k # I
  <2>1. k - 1 \in Nat /\ k - 1 >= I /\ k - 1 \notin Bad
    BY <1>0, <1>1, <1>2, <1>4
  <2>2. PICK a : Passes(m, sg, k - 1, a)
    BY <2>1 DEF I
  <2> DEFINE e == [p \in I .. k |-> IF p = I THEN m ELSE Visit(a[p - 1], p, sg)]
  <2>3. ASSUME NEW p \in I .. k - 1
        PROVE  e[p] = a[p]
    <3>1. a[p] = IF p = I THEN m ELSE Visit(a[p - 1], p, sg)
      BY <2>2 DEF Passes, I
    <3>2. p \in I .. k
      BY <1>0, <1>2, <2>1
    <3> QED BY <3>1, <3>2
  <2>4. ASSUME NEW p \in I .. k
        PROVE  e[p] = IF p = I THEN m ELSE Visit(e[p - 1], p, sg)
    <3>1. CASE p = I
      BY <3>1
    <3>2. CASE p # I
      <4>1. p - 1 \in I .. k - 1
        BY <1>0, <1>2, <3>2
      <4>2. e[p - 1] = a[p - 1]
        BY <2>3, <4>1
      <4>3. e[p] = Visit(a[p - 1], p, sg)
        BY <3>2
      <4> QED BY <3>2, <4>2, <4>3
    <3> QED BY <3>1, <3>2
  <2>5. e = [p \in I .. k |-> e[p]]
    OBVIOUS
  <2> HIDE DEF e
  <2>6. Passes(m, sg, k, e)
    BY <2>4, <2>5 DEF Passes, I
  <2> QED BY <1>2, <2>6
<1> QED BY <1>3, <1>4

\* check_sig(), whatever the signal does to whom.
LEMMA SignalKeeps ==
  ASSUME NEW m, NEW X, Settled(m, X), NEW sg
  PROVE  Settled(check_sig(m, sg), X)
<1> DEFINE k == NR_PROCS - 1
           a == CHOOSE a : Passes(m, sg, k, a)
           I == INIT_PROC_NR
<1>1. I \in Nat /\ k \in Nat /\ k >= I /\ I = 2 /\ k = NR_PROCS - 1 /\ Proc = I .. k
  BY SlotFacts DEF INIT_PROC_NR, Proc
<1>2. Passes(m, sg, k, a)
  BY <1>1, PassesExist
<1>3. \E last \in Proc : check_sig(m, sg) = a[last]
  <2> DEFINE met(p) == /\ sg.id = p /\ p \in Alive(m) /\ sg.fate[p] # "spared"
                       /\ sg.alarm => Has(m, p, "ALARM_ON")
             last == IF \E p \in User : met(p) THEN sg.id ELSE NR_PROCS - 1
  <2>1. check_sig(m, sg) = a[last]
    BY DEF check_sig, Passes, Proc
  <2>2. last \in Proc
    <3>1. \A p \in User : met(p) => sg.id \in Proc
      BY SlotFacts
    <3>2. NR_PROCS - 1 \in Proc
      BY <1>1
    <3> QED BY <3>1, <3>2
  <2> HIDE DEF last
  <2> QED BY <2>1, <2>2
<1> HIDE DEF a, k, I
<1>4. \A p \in I .. k : a[p] = IF p = I THEN m ELSE Visit(a[p - 1], p, sg)
  BY <1>2 DEF Passes, I
<1> DEFINE Bad == {p \in I .. k : ~ Settled(a[p], X)}
<1>5. Bad = {}
  <2> SUFFICES ASSUME Bad # {}
               PROVE  FALSE
    OBVIOUS
  <2>1. Bad \in SUBSET Nat
    BY <1>1
  <2>2. PICK p \in Bad : \A y \in Bad : p <= y
    <3>1. LET x == CHOOSE x \in Bad : \A y \in Bad : x <= y
          IN  x \in Bad /\ \A y \in Bad : x <= y
      BY <2>1, LeastIndex
    <3> QED BY <3>1
  <2>3. p \in I .. k /\ ~ Settled(a[p], X)
    OBVIOUS
  <2>4. p # I
    BY <1>4, <2>3
  <2>5. p - 1 \in I .. k /\ p - 1 \notin Bad /\ p \in User
    BY <1>1, <2>2, <2>3, <2>4 DEF User, I
  <2>6. Settled(a[p - 1], X)
    BY <2>5
  <2>7. a[p] = Visit(a[p - 1], p, sg)
    BY <1>4, <2>3, <2>4
  <2>8. Settled(Visit(a[p - 1], p, sg), X)
    BY <2>5, <2>6, VisitKeeps
  <2> QED BY <2>3, <2>7, <2>8
<1> QED BY <1>1, <1>3, <1>5

\* do_ksig(): one signal after the other.
LEMMA KsigKeeps ==
  ASSUME NEW m, Settled(m, {}), NEW p \in Proc, NEW u \in do_ksig(m, p)
  PROVE  Settled(u, {})
<1> DEFINE taken == [m EXCEPT !.pend[p] = {}]
           int  == IF "SIGINT" \notin m.pend[p] THEN {taken}
                   ELSE UNION {{check_sig(s, sg) : sg \in ToMany(s)} : s \in {taken}}
           kill == IF "SIGKILL" \notin m.pend[p] THEN int
                   ELSE UNION {{check_sig(s, sg) : sg \in ToAll} : s \in int}
           alrm == IF "SIGALRM" \notin m.pend[p] THEN kill
                   ELSE UNION {{check_sig(s, sg) : sg \in Alrm(p)} : s \in kill}
<1>1. do_ksig(m, p) = alrm
  BY DEF do_ksig
<1>2. Settled(taken, {})
  <2>1. m \in MMState /\ Sound(m, {}, {}) /\ \A q \in InUse(m) : Waiting(m, q)
    BY DEF Settled, Sound
  <2>2. /\ AlarmsOnly(m, taken) /\ taken.where = m.where /\ taken.timer = m.timer
        /\ taken.misfits = m.misfits
    BY <2>1 DEF AlarmsOnly, MMState
  <2> HIDE DEF taken
  <2>3. Alive(taken) = Alive(m)
    BY <2>1, <2>2, AlarmsFacts
  <2>4. Placed(taken, {}) /\ Answering(taken, {}) /\ taken.misfits \subseteq Strays
    BY <2>1, <2>2, <2>3, AlarmsAnswer DEF Placed, Sound
  <2> QED BY <2>1, <2>2, <2>4, AlarmsKeep
<1> HIDE DEF taken
<1>3. \A s \in int : Settled(s, {})
  BY <1>2, SignalKeeps
<1> HIDE DEF int
<1>4. \A s \in kill : Settled(s, {})
  BY <1>3, SignalKeeps
<1> HIDE DEF kill
<1>5. \A s \in alrm : Settled(s, {})
  BY <1>4, SignalKeeps
<1> QED BY <1>1, <1>5
-----------------------------------------------------------------------------
(* The actions. *)

\* What is so between the calls.
MMInv == Settled(mm, {}) /\ setup \in Setup

\* Steps of the clock, the terminals and FS, which leave the calls of MM alone.
LEMMA OutsideKeeps ==
  ASSUME NEW m, Settled(m, {}), NEW u, AlarmsOnly(m, u), u.misfits \subseteq Strays,
         u.timer \subseteq Alive(m),
         \A q \in Alive(m) : u.where[q] = "mm" <=> m.where[q] = "mm",
         \A q \in Proc : u.where[q] = "free" <=> m.where[q] = "free"
  PROVE  Settled(u, {})
<1>1. /\ m \in MMState /\ Sound(m, {}, {}) /\ Placed(m, {}) /\ Answering(m, {})
      /\ \A q \in InUse(m) : Waiting(m, q)
  BY DEF Settled, Sound
<1>2. Alive(u) = Alive(m)
  BY <1>1, AlarmsFacts
<1>3. Placed(u, {}) /\ Answering(u, {})
  BY <1>1, <1>2, AlarmsAnswer DEF Placed
<1> QED BY <1>1, <1>3, AlarmsKeep

\* MM has the call of p, which lives and is in no other.
LEMMA CalledKeeps ==
  ASSUME Settled(mm, {}), NEW p \in Proc, Calls(p)
  PROVE  /\ p \in Alive(mm) /\ Settled(Called(p), {p})
         /\ InUse(Called(p)) = InUse(mm) /\ Alive(Called(p)) = Alive(mm)
<1>1. /\ mm \in MMState /\ Sound(mm, {}, {}) /\ Placed(mm, {}) /\ Answering(mm, {})
      /\ \A q \in InUse(mm) : Waiting(mm, q)
  BY DEF Settled, Sound
<1>2. mm.where[p] = "runs" /\ p \in Alive(mm)
  BY <1>1 DEF Calls, Placed
<1>3. ~Awaits(mm, p)
  BY <1>1, <1>2 DEF Answering
<1> DEFINE u == Called(p)
<1>4. /\ AlarmsOnly(mm, u) /\ u.misfits = mm.misfits /\ u.timer = mm.timer
      /\ \A q \in Proc : u.where[q] = IF q = p THEN "mm" ELSE mm.where[q]
  BY <1>1 DEF Called, AlarmsOnly, MMState
<1> HIDE DEF u
<1>5. /\ Alive(u) = Alive(mm) /\ InUse(u) = InUse(mm) /\ Alive(mm) \subseteq Proc
      /\ \A q \in Proc : Awaits(u, q) <=> Awaits(mm, q)
  BY <1>1, <1>4, AlarmsFacts, SlotsUsed
<1>6. Placed(u, {})
  BY <1>1, <1>2, <1>4, <1>5 DEF Placed
<1>7. ASSUME NEW q \in Alive(u)
      PROVE  /\ ~({"PAUSED", "WAITING"} \subseteq u.flags[q])
             /\ u.where[q] = "mm" <=> q \in {p} \/ Awaits(u, q)
             /\ q \in {p} => ~Awaits(u, q)
  <2>1. /\ ~({"PAUSED", "WAITING"} \subseteq mm.flags[q])
        /\ mm.where[q] = "mm" <=> Awaits(mm, q)
        /\ q \in Proc
    BY <1>1, <1>5 DEF Answering
  <2>2. ~({"PAUSED", "WAITING"} \subseteq u.flags[q])
    BY <1>4, <2>1 DEF AlarmsOnly
  <2> QED BY <1>3, <1>4, <1>5, <2>1, <2>2
<1>8. Answering(u, {p})
  BY <1>7 DEF Answering
<1>9. u.misfits \subseteq Strays
  BY <1>1, <1>4 DEF Sound
<1>10. Settled(u, {p})
  BY <1>1, <1>4, <1>6, <1>8, <1>9, AlarmsKeep
<1> QED BY <1>2, <1>5, <1>10 DEF u

\* The calls of MM.
LEMMA CallsKeep ==
  ASSUME MMInv, NEW p \in Proc, Fork(p) \/ Exit(p) \/ Wait(p) \/ Pause(p) \/ Kill(p)
  PROVE  Settled(mm', {})
<1> DEFINE u == Called(p)
<1>1. /\ p \in Alive(mm) /\ Settled(u, {p}) /\ InUse(u) = InUse(mm) /\ Alive(u) = Alive(mm)
  BY CalledKeeps DEF MMInv, Fork, Exit, Wait, Pause, Kill
<1>2. mm \in MMState /\ Sound(mm, {}, {}) /\ Family(mm) /\ u \in MMState
  BY <1>1 DEF MMInv, Settled, Sound
<1> HIDE DEF u
<1>3. CASE Fork(p)
  <2> DEFINE c == Min(Proc \ InUse(mm))
  <2>1. mm.procs_in_use < NR_PROCS - 2
    <3>1. setup.slots \in 1 .. NR_PROCS - 2 /\ mm.procs_in_use < setup.slots
      BY <1>3 DEF Fork, MMInv, Setup, INIT_PROC_NR
    <3>2. mm.procs_in_use \in Int
      BY <1>2 DEF MMState
    <3> QED BY <3>1, <3>2, SlotFacts
  <2>2. Proc \ InUse(mm) # {}
    <3>1. ASSUME InUse(mm) = Proc
          PROVE  FALSE
      <4>1. mm.procs_in_use = Cardinality(Proc)
        BY <1>2, <3>1 DEF Sound
      <4> QED BY <2>1, <4>1, SlotFacts
    <3> QED BY <1>2, <3>1, SlotsUsed
  <2>3. c \in Proc \ InUse(mm)
    BY <2>2, FirstSlot
  <2>4. mm' = do_fork(u, p, c)
    BY <1>3 DEF Fork, u
  <2> HIDE DEF c
  <2>5. c \in User /\ c \notin InUse(u)
    BY <1>1, <1>2, <2>3, SlotsUsed, SlotFacts DEF Family
  <2> QED BY <1>1, <2>4, <2>5, ForkKeeps
<1>4. CASE Exit(p)
  <2>1. mm' = mm_exit(u, p) /\ p \in User
    BY <1>4, SlotFacts DEF Exit, u
  <2>2. p \in InUse(u)
    BY <1>1, <1>2, SlotsUsed
  <2>3. Settled(mm', {p}) /\ p \notin Alive(mm')
    BY <1>1, <2>1, <2>2, ExitKeeps
  <2>4. Sound(mm', {}, {})
    BY <2>3, CallsOfTheLiving DEF Settled
  <2> QED BY <2>3, <2>4 DEF Settled
<1>5. CASE Wait(p)
  <2>1. mm' = do_wait(u, p)
    BY <1>5 DEF Wait, u
  <2> QED BY <1>1, <2>1, WaitKeeps
<1>6. CASE Pause(p)
  <2>1. mm' = [u EXCEPT !.flags[p] = @ \cup {"PAUSED"}]
    BY <1>6 DEF Pause, u
  <2>2. Stays(u, p, "PAUSED", mm')
    BY <1>2, <2>1 DEF Stays, MMState, Flag
  <2> QED BY <1>1, <2>2, StayKeeps
<1>7. CASE Kill(p)
  <2>1. PICK sg : mm' = reply(check_sig(u, sg), p)
    BY <1>7 DEF Kill, u
  <2>2. Settled(check_sig(u, sg), {p})
    BY <1>1, SignalKeeps
  <2>3. Settled(mm', {p} \ {p})
    BY <2>1, <2>2, ReplyKeeps
  <2>4. {p} \ {p} = {}
    OBVIOUS
  <2> QED BY <2>3, <2>4
<1> QED BY <1>3, <1>4, <1>5, <1>6, <1>7

\* The signals of the kernel.
LEMMA KernelKeeps ==
  ASSUME MMInv, NEW p \in Proc, Ksig(p)
  PROVE  Settled(mm', {})
<1>1. Settled(mm, {}) /\ mm \in MMState /\ Sound(mm, {}, {})
  BY DEF MMInv, Settled, Sound
<1>2. CASE mm' \in do_ksig(mm, p)
  BY <1>1, <1>2, KsigKeeps
<1>3. CASE mm' = do_ksig_dead(mm, p)
  <2> DEFINE x == IF BeforeTable THEN mm.misfits \cup {HARDWARE} ELSE mm.misfits
  <2>1. mm' = [mm EXCEPT !.pend[p] = {}, !.misfits = x]
    BY <1>1, <1>3 DEF do_ksig_dead, MMState
  <2>2. x \subseteq Strays /\ x \in SUBSET (Proc \cup {HARDWARE})
    BY <1>1 DEF Sound, Strays, MMState
  <2> HIDE DEF x
  <2>3. /\ AlarmsOnly(mm, mm') /\ mm'.where = mm.where /\ mm'.timer = mm.timer
        /\ mm'.misfits = x
    BY <1>1, <2>1, <2>2 DEF AlarmsOnly, MMState
  <2>4. mm.timer \subseteq Alive(mm)
    BY <1>1 DEF Sound, Placed
  <2> QED BY <1>1, <2>2, <2>3, <2>4, OutsideKeeps
<1>4. CASE \E sg \in ToOne(p) : mm' = check_sig(mm, sg)
  BY <1>1, <1>4, SignalKeeps
<1> QED BY <1>2, <1>3, <1>4 DEF Ksig

\* Alarms, EXEC, keys, and calls of FS.
LEMMA OthersKeep ==
  ASSUME MMInv, NEW p \in Proc,
         \/ Alarm(p) \/ Exec(p) \/ Expire(p) \/ CallFS(p) \/ FSAnswers(p)
         \/ \E sig \in {"SIGINT", "SIGKILL"} : Type(p, sig)
  PROVE  Settled(mm', {})
<1>1. /\ Settled(mm, {}) /\ mm \in MMState /\ Sound(mm, {}, {}) /\ mm.misfits \subseteq Strays
      /\ mm.timer \subseteq Alive(mm)
  BY DEF MMInv, Settled, Sound, Placed
<1>2. Calls(p) => p \in Alive(mm) /\ mm.where[p] = "runs"
  BY <1>1, CalledKeeps DEF Calls
<1> SUFFICES /\ AlarmsOnly(mm, mm') /\ mm'.misfits = mm.misfits /\ mm'.timer \subseteq Alive(mm)
             /\ \A q \in Alive(mm) : mm'.where[q] = "mm" <=> mm.where[q] = "mm"
             /\ \A q \in Proc : mm'.where[q] = "free" <=> mm.where[q] = "free"
  BY <1>1, OutsideKeeps
<1>3. CASE Alarm(p)
  <2>1. PICK t \in SUBSET Proc :
          /\ t \subseteq mm.timer \cup {p}
          /\ \/ mm' = [mm EXCEPT !.flags[p] = @ \cup {"ALARM_ON"}, !.timer = t]
             \/ mm' = [mm EXCEPT !.flags[p] = @ \ {"ALARM_ON"}, !.timer = t]
    <3>1. mm.timer \in SUBSET Proc
      BY <1>1 DEF MMState
    <3> QED BY <1>3, <3>1 DEF Alarm
  <2>2. mm'.timer = t /\ mm'.where = mm.where /\ mm'.misfits = mm.misfits
    BY <1>1, <2>1 DEF MMState
  <2>3. AlarmsOnly(mm, mm')
    <3>1. CASE mm' = [mm EXCEPT !.flags[p] = @ \cup {"ALARM_ON"}, !.timer = t]
      BY <1>1, <3>1 DEF AlarmsOnly, MMState, Flag
    <3>2. CASE mm' = [mm EXCEPT !.flags[p] = @ \ {"ALARM_ON"}, !.timer = t]
      BY <1>1, <3>2 DEF AlarmsOnly, MMState
    <3> QED BY <2>1, <3>1, <3>2
  <2>4. p \in Alive(mm)
    BY <1>2, <1>3 DEF Alarm
  <2> QED BY <1>1, <2>1, <2>2, <2>3, <2>4
<1>4. CASE Exec(p)
  BY <1>1, <1>2, <1>4 DEF Exec, AlarmsOnly, MMState
<1>5. CASE Expire(p)
  BY <1>1, <1>5 DEF Expire, AlarmsOnly, MMState, Signal
<1>6. CASE \E sig \in {"SIGINT", "SIGKILL"} : Type(p, sig)
  BY <1>1, <1>6 DEF Type, AlarmsOnly, MMState, Signal
<1>7. CASE CallFS(p) \/ FSAnswers(p)
  <2>1. PICK w \in {"runs", "fs"} : mm' = [mm EXCEPT !.where[p] = w]
    BY <1>7 DEF CallFS, FSAnswers
  <2>2. mm.where[p] \in {"runs", "fs"}
    BY <1>7 DEF CallFS, FSAnswers, Calls
  <2>3. \A q \in Proc : mm'.where[q] = IF q = p THEN w ELSE mm.where[q]
    BY <1>1, <2>1 DEF MMState
  <2>4. AlarmsOnly(mm, mm') /\ mm'.misfits = mm.misfits /\ mm'.timer = mm.timer
    BY <1>1, <2>1 DEF AlarmsOnly, MMState
  <2> QED BY <1>1, <2>2, <2>3, <2>4, SlotsUsed
<1> QED BY <1>3, <1>4, <1>5, <1>6, <1>7

\* The invariant is one.
LEMMA MMInductive ==
  /\ MMInit => MMInv
  /\ MMInv /\ [MMNext]_mm_vars => MMInv'
<1>1. ASSUME MMInit
      PROVE  MMInv
  <2>1. /\ setup \in Setup /\ mm \in MMState /\ mm.misfits = {} /\ mm.timer = {}
        /\ mm.procs_in_use = 1
        /\ \A p \in Proc : /\ mm.flags[p] = IF p = INIT_PROC_NR THEN {"IN_USE"} ELSE {}
                           /\ mm.parent[p] = MM_PROC_NR
                           /\ mm.where[p] = IF p = INIT_PROC_NR THEN "runs" ELSE "free"
    BY <1>1, MMAssumption DEF MMInit, MMState, Flag
  <2>2. INIT_PROC_NR \in Proc /\ INIT_PROC_NR \notin User /\ User \subseteq Proc
    BY SlotFacts
  <2>3. InUse(mm) = {INIT_PROC_NR} /\ Alive(mm) = {INIT_PROC_NR}
    <3>1. \A p \in Proc : "IN_USE" \in mm.flags[p] <=> p = INIT_PROC_NR
      BY <2>1
    <3>2. \A p \in Proc : "HANGING" \notin mm.flags[p]
      BY <2>1
    <3>3. InUse(mm) = {INIT_PROC_NR}
      BY <2>2, <3>1 DEF InUse, Has
    <3> QED BY <2>1, <2>2, <3>2, <3>3, SlotsUsed
  <2>4. Cardinality(InUse(mm)) = 1
    BY <2>3, FS_Singleton
  <2>5. Family(mm)
    BY <2>1, <2>2, <2>3 DEF Family, Rooted
  <2>6. Placed(mm, {}) /\ Answering(mm, {})
    BY <2>1, <2>2, <2>3 DEF Placed, Answering, Awaits
  <2>7. \A p \in InUse(mm) : Waiting(mm, p)
    BY <2>1, <2>2, <2>3 DEF Waiting, Has
  <2> QED BY <2>1, <2>4, <2>5, <2>6, <2>7 DEF MMInv, Settled, Sound
<1>2. ASSUME MMInv, MMNext
      PROVE  MMInv'
  <2>1. Settled(mm', {})
    BY <1>2, CallsKeep, KernelKeeps, OthersKeep DEF MMNext
  <2> QED BY <1>2, <2>1 DEF MMNext, MMInv
<1>3. ASSUME MMInv, UNCHANGED mm_vars
      PROVE  MMInv'
  BY <1>3 DEF MMInv, mm_vars
<1> QED BY <1>1, <1>2, <1>3
-----------------------------------------------------------------------------
(* The tree. *)

\* The ancestors of p that Ancestors(p) goes through, up to the k-th generation.
Ups(p, k, up) ==
  up = [n \in 1 .. k |-> IF n = 1 THEN {mm.parent[p]}
                         ELSE up[n - 1] \cup {mm.parent[q] : q \in up[n - 1] \cap Proc}]

\* There are such, however many generations.
LEMMA UpsExist ==
  ASSUME NEW p, NEW n \in Nat, n >= 1
  PROVE  \E up : Ups(p, n, up)
<1> DEFINE Bad == {k \in Nat : k >= 1 /\ ~ \E up : Ups(p, k, up)}
           Base == {mm.parent[p]}
           Step(S) == S \cup {mm.parent[q] : q \in S \cap Proc}
<1> SUFFICES ASSUME Bad # {}
             PROVE  FALSE
  OBVIOUS
<1>1. PICK k \in Bad : \A y \in Bad : k <= y
  <2>1. LET x == CHOOSE x \in Bad : \A y \in Bad : x <= y
        IN  x \in Bad /\ \A y \in Bad : x <= y
    BY LeastIndex
  <2> QED BY <2>1
<1>2. k \in Nat /\ k >= 1 /\ ~ \E up : Ups(p, k, up)
  OBVIOUS
<1> HIDE DEF Base, Step
<1>3. \A j, up : Ups(p, j, up) <=> up = [i \in 1 .. j |-> IF i = 1 THEN Base ELSE Step(up[i - 1])]
  BY Zenon DEF Ups, Base, Step
<1>4. CASE k = 1
  <2> DEFINE a == [i \in 1 .. 1 |-> Base]
  <2>1. a = [i \in 1 .. 1 |-> IF i = 1 THEN Base ELSE Step(a[i - 1])]
    OBVIOUS
  <2> HIDE DEF a
  <2> QED BY <1>2, <1>3, <1>4, <2>1
<1>5. CASE k # 1
  <2>1. k - 1 \in Nat /\ k - 1 >= 1 /\ k - 1 \notin Bad
    BY <1>1, <1>2, <1>5
  <2>2. PICK a : Ups(p, k - 1, a)
    BY <2>1
  <2> DEFINE e == [i \in 1 .. k |-> IF i = 1 THEN Base ELSE Step(a[i - 1])]
  <2>3. ASSUME NEW i \in 1 .. k - 1
        PROVE  e[i] = a[i]
    <3>1. a = [j \in 1 .. k - 1 |-> IF j = 1 THEN Base ELSE Step(a[j - 1])]
      BY <1>3, <2>2
    <3> HIDE DEF e
    <3>2. a[i] = IF i = 1 THEN Base ELSE Step(a[i - 1])
      BY <3>1
    <3>3. i \in 1 .. k
      BY <1>2, <2>1
    <3> QED BY <3>2, <3>3 DEF e
  <2>4. ASSUME NEW i \in 1 .. k
        PROVE  e[i] = IF i = 1 THEN Base ELSE Step(e[i - 1])
    <3>1. CASE i = 1
      BY <3>1
    <3>2. CASE i # 1
      <4>1. i - 1 \in 1 .. k - 1
        BY <1>2, <3>2
      <4>2. e[i - 1] = a[i - 1]
        BY <2>3, <4>1
      <4>3. e[i] = Step(a[i - 1])
        BY <3>2
      <4> QED BY <3>2, <4>2, <4>3
    <3> QED BY <3>1, <3>2
  <2>5. e = [i \in 1 .. k |-> e[i]]
    OBVIOUS
  <2> HIDE DEF e
  <2>6. e = [i \in 1 .. k |-> IF i = 1 THEN Base ELSE Step(e[i - 1])]
    BY <2>4, <2>5
  <2> QED BY <1>2, <1>3, <2>6
<1> QED BY <1>4, <1>5

\* Everybody descends from INIT: each generation has one more ancestor, or INIT.
LEMMA DescendFromInit ==
  ASSUME mm \in MMState, Family(mm), NEW p \in InUse(mm) \cap User
  PROVE  INIT_PROC_NR \in Ancestors(p)
<1> DEFINE N == NR_PROCS
           up == CHOOSE up : Ups(p, N, up)
           Users == InUse(mm) \cap User
           Right(n) == \/ INIT_PROC_NR \in up[n]
                       \/ up[n] \subseteq Users /\ Cardinality(up[n]) >= n
           Bad == {n \in 1 .. N : ~Right(n)}
<1>1. N \in Nat /\ N >= 1
  BY SlotFacts
<1>2. Ups(p, N, up)
  BY <1>1, UpsExist
<1>3. Ancestors(p) = up[N]
  BY DEF Ancestors, Ups
<1> HIDE DEF up
<1>4. /\ up[1] = {mm.parent[p]}
      /\ \A n \in 1 .. N : n # 1 => up[n] = up[n - 1] \cup {mm.parent[q] : q \in up[n - 1] \cap Proc}
  BY <1>1, <1>2 DEF Ups
<1>5. /\ \A q \in Users : mm.parent[q] \in Users \cup {INIT_PROC_NR}
      /\ Users \subseteq Proc /\ IsFiniteSet(Users) /\ Cardinality(Users) <= N - 2
  <2>1. Users \in SUBSET Proc /\ InUse(mm) \subseteq Users \cup {INIT_PROC_NR}
    BY SlotFacts, SlotsUsed
  <2>2. IsFiniteSet(Users) /\ Cardinality(Users) <= N - 2
    BY <2>1, SlotFacts, FS_Subset
  <2> QED BY <2>1, <2>2 DEF Family
<1>6. \A S \in SUBSET Users : IsFiniteSet(S) /\ Cardinality(S) <= Cardinality(Users) /\ Cardinality(S) \in Nat
  BY <1>5, FS_Subset, FS_CardinalityType
<1>7. Bad = {}
  <2> SUFFICES ASSUME Bad # {}
               PROVE  FALSE
    OBVIOUS
  <2>1. PICK n \in Bad : \A y \in Bad : n <= y
    <3>1. Bad \in SUBSET Nat
      BY <1>1
    <3>2. LET x == CHOOSE x \in Bad : \A y \in Bad : x <= y
          IN  x \in Bad /\ \A y \in Bad : x <= y
      BY <3>1, LeastIndex
    <3> QED BY <3>2
  <2>2. n \in 1 .. N /\ ~Right(n)
    OBVIOUS
  <2>3. CASE n = 1
    <3>1. mm.parent[p] \in Users \cup {INIT_PROC_NR}
      BY <1>5
    <3>2. Cardinality({mm.parent[p]}) = 1
      BY FS_Singleton
    <3>3. INIT_PROC_NR \in up[1] \/ (up[1] \subseteq Users /\ Cardinality(up[1]) >= 1)
      BY <1>4, <3>1, <3>2
    <3> QED BY <2>2, <2>3, <3>3
  <2>4. CASE n # 1
    <3>1. n - 1 \in 1 .. N /\ n - 1 \notin Bad
      BY <1>1, <2>1, <2>2, <2>4
    <3>2. Right(n - 1)
      BY <3>1
    <3> DEFINE U == up[n - 1]
    <3>3. up[n] = U \cup {mm.parent[q] : q \in U \cap Proc}
      BY <1>4, <2>2, <2>4
    <3>4. INIT_PROC_NR \notin U /\ INIT_PROC_NR \notin up[n]
      BY <2>2, <3>3
    <3>5. U \subseteq Users /\ Cardinality(U) >= n - 1
      BY <3>2, <3>4
    <3> HIDE DEF U
    <3>6. U # {}
      <4>1. n \in Nat /\ n >= 2
        BY <1>1, <2>2, <2>4
      <4>2. Cardinality({}) = 0
        BY FS_EmptySet
      <4> QED BY <3>5, <4>1, <4>2
    <3>7. PICK q \in U : mm.parent[q] \notin U
      <4>1. U \in SUBSET (InUse(mm) \cap User)
        BY <3>5
      <4> QED BY <3>6, <4>1 DEF Family, Rooted
    <3>8. up[n] \subseteq Users
      BY <1>5, <3>3, <3>4, <3>5
    <3>9. mm.parent[q] \in up[n] /\ U \subseteq up[n]
      BY <1>5, <3>3, <3>5, <3>7
    <3>10. IsFiniteSet(U) /\ Cardinality(U) \in Nat
      BY <1>6, <3>5
    <3>11. Cardinality(U \cup {mm.parent[q]}) = Cardinality(U) + 1
      BY <3>7, <3>10, FS_AddElement
    <3>12. Cardinality(U \cup {mm.parent[q]}) <= Cardinality(up[n])
      BY <1>6, <3>8, <3>9, FS_Subset
    <3>13. Cardinality(up[n]) \in Nat
      BY <1>6, <3>8
    <3> QED BY <2>2, <3>5, <3>8, <3>10, <3>11, <3>12, <3>13
  <2> QED BY <2>3, <2>4
<1>8. Right(N)
  BY <1>1, <1>7
<1>9. ~(up[N] \subseteq Users /\ Cardinality(up[N]) >= N)
  <2> SUFFICES ASSUME up[N] \subseteq Users
               PROVE  ~(Cardinality(up[N]) >= N)
    OBVIOUS
  <2>1. Cardinality(up[N]) <= Cardinality(Users) /\ Cardinality(up[N]) \in Nat
    BY <1>6
  <2>2. Cardinality(Users) \in Nat
    BY <1>6
  <2> QED BY <1>1, <1>5, <2>1, <2>2
<1> QED BY <1>3, <1>8, <1>9

\* Whatever processes do to each other, they are a tree under INIT, of which the kernel
\* knows who lives, and nobody waits for children it has not.
THEOREM TreeTheorem == MMSpec => []TreeKept
<1>1. MMInv => TreeKept
  <2> SUFFICES ASSUME MMInv
               PROVE  TreeKept
    OBVIOUS
  <2>1. /\ mm \in MMState /\ Family(mm) /\ Placed(mm, {}) /\ \A p \in InUse(mm) : Waiting(mm, p)
        /\ mm.procs_in_use = Cardinality(InUse(mm))
    BY DEF MMInv, Settled, Sound
  <2>2. INIT_PROC_NR \in InUse(mm)
    BY <2>1, SlotsUsed DEF Family
  <2>3. mm.procs_in_use \in 1 .. Cardinality(Proc)
    <3>1. Cardinality({INIT_PROC_NR}) = 1
      BY FS_Singleton
    <3>2. {INIT_PROC_NR} \in SUBSET InUse(mm) /\ IsFiniteSet(InUse(mm))
      BY <2>1, <2>2, SlotsUsed
    <3>3. Cardinality({INIT_PROC_NR}) <= Cardinality(InUse(mm))
      BY <3>2, FS_Subset
    <3> QED BY <2>1, <3>1, <3>3, SlotsUsed, SlotFacts
  <2>4. MMTypeOK
    BY <2>1, <2>3 DEF MMTypeOK, MMState
  <2>5. \A p \in InUse(mm) \cap User :
          mm.parent[p] \in InUse(mm) /\ INIT_PROC_NR \in Ancestors(p)
    BY <2>1, DescendFromInit DEF Family
  <2>6. /\ \A p \in Proc : mm.where[p] = "free" <=> p \notin Alive(mm)
        /\ mm.timer \subseteq Alive(mm)
    BY <2>1 DEF Placed
  <2>7. \A p \in InUse(mm) : Has(mm, p, "WAITING") =>
          /\ Children(mm, p) \cap Dead(mm) = {}
          /\ p \in Alive(mm) => Children(mm, p) # {}
    BY <2>1 DEF Waiting
  <2> QED BY <2>1, <2>4, <2>5, <2>6, <2>7 DEF TreeKept
<1> QED BY <1>1, MMInductive, PTL DEF MMSpec

\* Where the bytes before the table do not look like a slot in use, no call of MM goes
\* without an answer or gets two, whoever dies or is signalled meanwhile.
THEOREM AnsweredOnceTheorem ==
  ASSUME ~BeforeTable
  PROVE  MMSpec => []AnsweredOnce
<1>1. MMInv => AnsweredOnce
  BY DEF MMInv, Settled, Sound, Strays, Answering, Awaits, AnsweredOnce
<1> QED BY <1>1, MMInductive, PTL DEF MMSpec
=============================================================================
