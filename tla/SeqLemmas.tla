----------------------------- MODULE SeqLemmas -----------------------------
(***************************************************************************)
(* Facts about sequences without repetitions, which is what the kernel's   *)
(* linked lists of processes are: what appending, removing and rotating    *)
(* do to the set of their elements.                                        *)
(***************************************************************************)
EXTENDS SequencesExt, Integers, SequenceTheorems, WellFoundedInduction, TLAPS

\* Appending (to the tail of a linked list) adds the element.
LEMMA AppendFacts ==
  ASSUME NEW S, NEW s \in Seq(S), NEW e \in S
  PROVE  /\ Append(s, e) \in Seq(S)
         /\ ToSet(Append(s, e)) = ToSet(s) \cup {e}
         /\ IsInjective(s) /\ e \notin ToSet(s) => IsInjective(Append(s, e))
         /\ Append(s, e) # <<>>
         /\ s # <<>> => Head(Append(s, e)) = Head(s)
<1>1. /\ Append(s, e) \in Seq(S)
      /\ Append(s, e) # <<>>
      /\ Len(Append(s, e)) = Len(s) + 1
      /\ \A i \in 1 .. Len(s) : Append(s, e)[i] = s[i]
      /\ Append(s, e)[Len(s) + 1] = e
  BY AppendProperties
<1>2. /\ Len(s) \in Nat
      /\ DOMAIN s = 1 .. Len(s)
      /\ DOMAIN Append(s, e) = 1 .. Len(s) + 1
  BY <1>1, LenProperties
<1>3. ToSet(Append(s, e)) = ToSet(s) \cup {e}
  BY <1>1, <1>2 DEF ToSet
<1>4. IsInjective(s) /\ e \notin ToSet(s) => IsInjective(Append(s, e))
  BY <1>1, <1>2 DEF ToSet, IsInjective
<1>5. s # <<>> => Head(Append(s, e)) = Head(s)
  BY HeadTailAppend
<1> QED BY <1>1, <1>3, <1>4, <1>5

\* Removing the element at position i moves the later ones up by one.
LEMMA RemoveAtIndices ==
  ASSUME NEW S, NEW s \in Seq(S), NEW i \in DOMAIN s
  PROVE  /\ RemoveAt(s, i) \in Seq(S)
         /\ Len(RemoveAt(s, i)) = Len(s) - 1
         /\ \A j \in 1 .. Len(s) - 1 : RemoveAt(s, i)[j] = IF j < i THEN s[j] ELSE s[j + 1]
<1> DEFINE l == SubSeq(s, 1, i - 1)
           r == SubSeq(s, i + 1, Len(s))
           n == Len(s)
<1>1. /\ n \in Nat
      /\ DOMAIN s = 1 .. n
      /\ s \in [1 .. n -> S]
  BY LenProperties
<1>2. i \in 1 .. n
  BY <1>1
<1>3. /\ l \in Seq(S)
      /\ Len(l) = i - 1
      /\ \A j \in 1 .. i - 1 : l[j] = s[j]
  <2>1. \A j \in 1 .. i - 1 : s[j] \in S
    BY <1>1, <1>2
  <2> QED BY <1>1, <1>2, <2>1, SubSeqProperties
<1>4. /\ r \in Seq(S)
      /\ Len(r) = n - i
      /\ \A j \in 1 .. n - i : r[j] = s[j + i]
  <2>1. \A j \in i + 1 .. n : s[j] \in S
    BY <1>1, <1>2
  <2>2. /\ r \in Seq(S)
        /\ Len(r) = IF i + 1 <= n THEN n - (i + 1) + 1 ELSE 0
        /\ \A j \in 1 .. n - (i + 1) + 1 : r[j] = s[(i + 1) + j - 1]
    <3>1. n \in Int /\ i + 1 \in Int
      BY <1>1, <1>2
    <3> QED BY <2>1, <3>1, SubSeqProperties
  <2> QED BY <1>1, <1>2, <2>2
<1>5. /\ l \o r \in Seq(S)
      /\ Len(l \o r) = n - 1
      /\ \A j \in 1 .. n - 1 : (l \o r)[j] = IF j < i THEN s[j] ELSE s[j + 1]
  <2>1. /\ l \o r \in Seq(S)
        /\ Len(l \o r) = Len(l) + Len(r)
        /\ \A j \in 1 .. Len(l) + Len(r) :
             (l \o r)[j] = IF j <= Len(l) THEN l[j] ELSE r[j - Len(l)]
    BY <1>3, <1>4, ConcatProperties
  <2>2. Len(l) + Len(r) = n - 1
    BY <1>1, <1>2, <1>3, <1>4
  <2>3. ASSUME NEW j \in 1 .. n - 1
        PROVE  (l \o r)[j] = IF j < i THEN s[j] ELSE s[j + 1]
    <3>1. CASE j < i
      BY <3>1, <2>1, <2>2, <1>1, <1>2, <1>3
    <3>2. CASE ~(j < i)
      <4>0. j \in 1 .. Len(l) + Len(r) /\ ~(j <= Len(l)) /\ Len(l) = i - 1
        BY <3>2, <2>2, <1>1, <1>2, <1>3
      <4>1. (l \o r)[j] = r[j - Len(l)]
        BY <4>0, <2>1
      <4>2. j - (i - 1) \in 1 .. n - i /\ (j - (i - 1)) + i = j + 1
        BY <3>2, <1>1, <1>2
      <4>3. r[j - (i - 1)] = s[j + 1]
        BY <4>2, <1>4
      <4> QED BY <3>2, <4>0, <4>1, <4>3
    <3> QED BY <3>1, <3>2
  <2> QED BY <2>1, <2>2, <2>3
<1>6. RemoveAt(s, i) = l \o r
  BY DEF RemoveAt
<1> QED BY <1>5, <1>6

\* Inserting an element at position i moves the later ones down by one.
LEMMA InsertAtIndices ==
  ASSUME NEW S, NEW s \in Seq(S), NEW i \in 1 .. Len(s) + 1, NEW e \in S
  PROVE  /\ InsertAt(s, i, e) \in Seq(S)
         /\ Len(InsertAt(s, i, e)) = Len(s) + 1
         /\ \A j \in 1 .. Len(s) + 1 :
              InsertAt(s, i, e)[j] = IF j < i THEN s[j] ELSE IF j = i THEN e ELSE s[j - 1]
<1> DEFINE l == SubSeq(s, 1, i - 1)
           m == l \o <<e>>
           r == SubSeq(s, i, Len(s))
           n == Len(s)
<1>1. /\ n \in Nat
      /\ DOMAIN s = 1 .. n
      /\ s \in [1 .. n -> S]
      /\ i \in Nat /\ 1 <= i /\ i <= n + 1
  BY LenProperties
<1>2. /\ l \in Seq(S)
      /\ Len(l) = i - 1
      /\ \A j \in 1 .. i - 1 : l[j] = s[j]
  <2>1. \A j \in 1 .. i - 1 : s[j] \in S
    BY <1>1
  <2>2. i - 1 \in Int
    BY <1>1
  <2> QED BY <1>1, <2>1, <2>2, SubSeqProperties
<1>3. /\ r \in Seq(S)
      /\ Len(r) = n - i + 1
      /\ \A j \in 1 .. n - i + 1 : r[j] = s[j + i - 1]
  <2>1. \A j \in i .. n : s[j] \in S
    BY <1>1
  <2>2. /\ r \in Seq(S)
        /\ Len(r) = IF i <= n THEN n - i + 1 ELSE 0
        /\ \A j \in 1 .. n - i + 1 : r[j] = s[i + j - 1]
    <3>1. n \in Int /\ i \in Int
      BY <1>1
    <3> QED BY <2>1, <3>1, SubSeqProperties
  <2> QED BY <1>1, <2>2
<1>4. /\ m \in Seq(S)
      /\ Len(m) = i
      /\ \A j \in 1 .. i - 1 : m[j] = s[j]
      /\ m[i] = e
  <2>1. <<e>> \in Seq(S) /\ Len(<<e>>) = 1 /\ <<e>>[1] = e
    OBVIOUS
  <2>2. /\ m \in Seq(S)
        /\ Len(m) = Len(l) + 1
        /\ \A j \in 1 .. Len(l) + 1 : m[j] = IF j <= Len(l) THEN l[j] ELSE <<e>>[j - Len(l)]
    <3> HIDE DEF l
    <3> QED BY <1>2, <2>1, ConcatProperties
  <2> HIDE DEF l, m
  <2>3. Len(m) = i /\ Len(l) = i - 1
    BY <1>1, <1>2, <2>2
  <2>4. ASSUME NEW j \in 1 .. i - 1
        PROVE  m[j] = s[j]
    <3>1. j \in 1 .. Len(l) + 1 /\ j <= Len(l)
      BY <1>1, <2>3
    <3>2. m[j] = l[j]
      BY <2>2, <3>1
    <3> QED BY <1>2, <3>2
  <2>5. m[i] = e
    <3>1. i \in 1 .. Len(l) + 1 /\ ~(i <= Len(l)) /\ i - Len(l) = 1
      BY <1>1, <2>3
    <3>2. m[i] = <<e>>[1]
      BY <2>2, <3>1
    <3> QED BY <2>1, <3>2
  <2> QED BY <2>2, <2>3, <2>4, <2>5
<1>5. InsertAt(s, i, e) = m \o r
  BY DEF InsertAt
<1> HIDE DEF l, m, r
<1>6. /\ m \o r \in Seq(S)
      /\ Len(m \o r) = Len(m) + Len(r)
      /\ \A j \in 1 .. Len(m) + Len(r) :
           (m \o r)[j] = IF j <= Len(m) THEN m[j] ELSE r[j - Len(m)]
  BY <1>3, <1>4, ConcatProperties
<1>7. Len(m) + Len(r) = n + 1
  BY <1>1, <1>3, <1>4
<1>8. ASSUME NEW j \in 1 .. n + 1
      PROVE  (m \o r)[j] = IF j < i THEN s[j] ELSE IF j = i THEN e ELSE s[j - 1]
  <2>1. CASE j <= i
    <3>1. (m \o r)[j] = m[j]
      BY <2>1, <1>1, <1>4, <1>6, <1>7
    <3>2. j < i \/ j = i
      BY <2>1, <1>1
    <3> QED BY <3>1, <3>2, <1>1, <1>4
  <2>2. CASE j > i
    <3>1. (m \o r)[j] = r[j - i]
      BY <2>2, <1>1, <1>4, <1>6, <1>7
    <3>2. j - i \in 1 .. n - i + 1 /\ (j - i) + i - 1 = j - 1
      BY <2>2, <1>1
    <3>3. r[j - i] = s[j - 1]
      BY <3>2, <1>3
    <3>4. ~(j < i) /\ j # i
      BY <2>2, <1>1
    <3> QED BY <3>1, <3>3, <3>4
  <2>3. j <= i \/ j > i
    BY <1>1
  <2> QED BY <2>1, <2>2, <2>3
<1> QED BY <1>5, <1>6, <1>7, <1>8

\* Unlinking the element at position i takes away that element only.
LEMMA RemoveAtFacts ==
  ASSUME NEW S, NEW s \in Seq(S), NEW i \in DOMAIN s, IsInjective(s)
  PROVE  /\ RemoveAt(s, i) \in Seq(S)
         /\ ToSet(RemoveAt(s, i)) = ToSet(s) \ {s[i]}
         /\ IsInjective(RemoveAt(s, i))
         /\ Len(RemoveAt(s, i)) = Len(s) - 1
         /\ \A j \in 1 .. Len(s) - 1 : RemoveAt(s, i)[j] = IF j < i THEN s[j] ELSE s[j + 1]
<1> DEFINE n == Len(s)
           t == RemoveAt(s, i)
<1>1. n \in Nat /\ DOMAIN s = 1 .. n
  BY LenProperties
<1>2. i \in 1 .. n
  BY <1>1
<1>5. /\ t \in Seq(S)
      /\ Len(t) = n - 1
      /\ \A j \in 1 .. n - 1 : t[j] = IF j < i THEN s[j] ELSE s[j + 1]
  BY RemoveAtIndices
<1>7. DOMAIN t = 1 .. n - 1
  BY <1>5, LenProperties
<1>8. ToSet(t) = ToSet(s) \ {s[i]}
  <2>1. ASSUME NEW j \in 1 .. n - 1
        PROVE  t[j] \in ToSet(s) \ {s[i]}
    <3>1. CASE j < i
      BY <3>1, <1>1, <1>2, <1>5 DEF ToSet, IsInjective
    <3>2. CASE ~(j < i)
      <4>1. j + 1 \in 1 .. n /\ j + 1 # i
        BY <3>2, <1>1, <1>2
      <4>2. t[j] = s[j + 1]
        BY <3>2, <1>5
      <4> QED BY <4>1, <4>2, <1>1, <1>2 DEF ToSet, IsInjective
    <3> QED BY <3>1, <3>2
  <2>2. ASSUME NEW j \in 1 .. n, s[j] # s[i]
        PROVE  s[j] \in ToSet(t)
    <3>1. CASE j < i
      <4>1. j \in 1 .. n - 1 /\ t[j] = s[j]
        BY <3>1, <1>1, <1>2, <1>5
      <4> QED BY <4>1, <1>7 DEF ToSet
    <3>2. CASE j > i
      <4>1. j - 1 \in 1 .. n - 1 /\ ~(j - 1 < i) /\ (j - 1) + 1 = j
        BY <3>2, <1>1, <1>2
      <4>2. t[j - 1] = s[j]
        BY <4>1, <1>5
      <4> QED BY <4>1, <4>2, <1>7 DEF ToSet
    <3> QED BY <3>1, <3>2, <2>2, <1>1, <1>2
  <2> QED BY <2>1, <2>2, <1>1, <1>7 DEF ToSet
<1>9. IsInjective(t)
  <2> SUFFICES ASSUME NEW a \in 1 .. n - 1, NEW b \in 1 .. n - 1, t[a] = t[b]
               PROVE  a = b
    BY <1>7 DEF IsInjective
  <2> DEFINE up(x) == IF x < i THEN x ELSE x + 1
  <2>1. up(a) \in 1 .. n /\ up(b) \in 1 .. n
    BY <1>1, <1>2
  <2>2. t[a] = s[up(a)] /\ t[b] = s[up(b)]
    BY <1>5
  <2>3. up(a) = up(b)
    BY <2>1, <2>2, <1>1 DEF IsInjective
  <2> QED BY <2>3, <1>1, <1>2
<1> QED BY <1>5, <1>8, <1>9

\* A nonempty set of positions has a first one: the search of a list stops.
LEMMA LeastIndex ==
  ASSUME NEW T \in SUBSET Nat, T # {}
  PROVE  LET m == CHOOSE x \in T : \A y \in T : x <= y
         IN  m \in T /\ \A y \in T : m <= y
<1> DEFINE lt == OpToRel(<, Nat)
<1>1. IsWellFoundedOn(lt, Nat)
  BY NatLessThanWellFounded
<1>2. ASSUME NEW x \in T, NEW y \in T, ~(<<y, x>> \in lt)
      PROVE  x <= y
  BY <1>2 DEF OpToRel
<1> HIDE DEF lt
<1>3. \E x \in T : \A y \in T : ~(<<y, x>> \in lt)
  BY <1>1, WFMin
<1>4. \E x \in T : \A y \in T : x <= y
  BY <1>2, <1>3
<1> QED BY <1>4

\* Removing an element of a list by name, as unready() does.
LEMMA RemoveFirstFacts ==
  ASSUME NEW S, NEW s \in Seq(S), NEW e, IsInjective(s)
  PROVE  /\ RemoveFirst(s, e) \in Seq(S)
         /\ ToSet(RemoveFirst(s, e)) = ToSet(s) \ {e}
         /\ IsInjective(RemoveFirst(s, e))
         /\ s # <<>> /\ Head(s) # e =>
              RemoveFirst(s, e) # <<>> /\ Head(RemoveFirst(s, e)) = Head(s)
<1>1. /\ Len(s) \in Nat
      /\ DOMAIN s = 1 .. Len(s)
  BY LenProperties
<1>2. CASE e \notin ToSet(s)
  <2>1. RemoveFirst(s, e) = s
    BY <1>1, <1>2 DEF RemoveFirst, ToSet
  <2> QED BY <1>2, <2>1
<1>3. CASE e \in ToSet(s)
  <2>1. PICK i \in 1 .. Len(s) : s[i] = e
    BY <1>1, <1>3 DEF ToSet
  <2>2. {j \in 1 .. Len(s) : s[j] = e} = {i}
    BY <1>1, <2>1 DEF IsInjective
  <2>3. Min({i}) = i
    BY <2>1 DEF Min
  <2>4. RemoveFirst(s, e) = RemoveAt(s, i)
    BY <2>1, <2>2, <2>3 DEF RemoveFirst, SelectInSeq
  <2>5. /\ RemoveAt(s, i) \in Seq(S)
        /\ ToSet(RemoveAt(s, i)) = ToSet(s) \ {s[i]}
        /\ IsInjective(RemoveAt(s, i))
        /\ Len(RemoveAt(s, i)) = Len(s) - 1
        /\ \A j \in 1 .. Len(s) - 1 :
             RemoveAt(s, i)[j] = IF j < i THEN s[j] ELSE s[j + 1]
    <3>1. i \in DOMAIN s
      BY <1>1
    <3> QED BY <3>1, RemoveAtFacts
  <2>6. ASSUME s # <<>>, Head(s) # e
        PROVE  RemoveAt(s, i) # <<>> /\ Head(RemoveAt(s, i)) = Head(s)
    <3>1. i # 1
      BY <2>1, <2>6
    <3>2. Len(RemoveAt(s, i)) >= 1 /\ RemoveAt(s, i)[1] = s[1]
      BY <1>1, <2>1, <2>5, <3>1
    <3>3. RemoveAt(s, i) # <<>>
      BY <3>2
    <3> QED BY <2>6, <3>2, <3>3, <2>5
  <2> QED BY <2>1, <2>4, <2>5, <2>6
<1> QED BY <1>2, <1>3

\* Moving the head of a list to its tail, as sched() does.
LEMMA RotateFacts ==
  ASSUME NEW S, NEW s \in Seq(S), s # <<>>, IsInjective(s)
  PROVE  LET r == Append(Tail(s), Head(s))
         IN  r \in Seq(S) /\ ToSet(r) = ToSet(s) /\ IsInjective(r)
<1> DEFINE n == Len(s)
           r == Append(Tail(s), Head(s))
<1>1. n \in Nat /\ n >= 1 /\ DOMAIN s = 1 .. n
  BY LenProperties, EmptySeq
<1>2. /\ Tail(s) \in Seq(S)
      /\ Head(s) \in S
      /\ Len(Tail(s)) = n - 1
      /\ \A i \in 1 .. n - 1 : Tail(s)[i] = s[i + 1]
      /\ DOMAIN Tail(s) = 1 .. n - 1
  BY <1>1, HeadTailProperties, LenProperties
<1>3. Head(s) = s[1]
  OBVIOUS
<1>4. ToSet(Tail(s)) = ToSet(s) \ {Head(s)}
  <2>1. ASSUME NEW i \in 1 .. n - 1
        PROVE  Tail(s)[i] \in ToSet(s) \ {Head(s)}
    <3>1. i + 1 \in 1 .. n /\ i + 1 # 1 /\ 1 \in 1 .. n
      BY <1>1
    <3>2. Tail(s)[i] = s[i + 1]
      BY <1>2
    <3> QED BY <1>1, <1>3, <3>1, <3>2 DEF ToSet, IsInjective
  <2>2. ASSUME NEW j \in 1 .. n, s[j] # Head(s)
        PROVE  s[j] \in ToSet(Tail(s))
    <3>1. j - 1 \in 1 .. n - 1 /\ (j - 1) + 1 = j
      BY <1>1, <1>3, <2>2
    <3>2. Tail(s)[j - 1] = s[j]
      BY <1>2, <3>1
    <3> QED BY <1>2, <3>1, <3>2 DEF ToSet
  <2> QED BY <1>1, <1>2, <2>1, <2>2 DEF ToSet
<1>5. IsInjective(Tail(s))
  <2> SUFFICES ASSUME NEW a \in 1 .. n - 1, NEW b \in 1 .. n - 1, Tail(s)[a] = Tail(s)[b]
               PROVE  a = b
    BY <1>2 DEF IsInjective
  <2>1. a + 1 \in 1 .. n /\ b + 1 \in 1 .. n /\ s[a + 1] = s[b + 1]
    BY <1>1, <1>2
  <2>2. a + 1 = b + 1
    BY <2>1, <1>1 DEF IsInjective
  <2> QED BY <2>2, <1>1
<1>6. Head(s) \in ToSet(s)
  BY <1>1, <1>3 DEF ToSet
<1>7. Head(s) \notin ToSet(Tail(s))
  BY <1>4
<1>8. r \in Seq(S) /\ ToSet(r) = ToSet(Tail(s)) \cup {Head(s)} /\ IsInjective(r)
  <2> DEFINE t == Tail(s)
             h == Head(s)
  <2>1. t \in Seq(S) /\ h \in S /\ IsInjective(t) /\ h \notin ToSet(t)
    BY <1>2, <1>5, <1>7
  <2> HIDE DEF t, h
  <2>2. /\ Append(t, h) \in Seq(S)
        /\ ToSet(Append(t, h)) = ToSet(t) \cup {h}
        /\ IsInjective(Append(t, h))
    BY <2>1, AppendFacts
  <2> QED BY <2>2 DEF t, h
<1> QED BY <1>4, <1>6, <1>8

\* Appending a list of others, as the scan of interrupt() does.
LEMMA ConcatFacts ==
  ASSUME NEW S, NEW s \in Seq(S), NEW t \in Seq(S),
         IsInjective(s), IsInjective(t), ToSet(s) \cap ToSet(t) = {}
  PROVE  /\ s \o t \in Seq(S)
         /\ ToSet(s \o t) = ToSet(s) \cup ToSet(t)
         /\ IsInjective(s \o t)
         /\ s # <<>> => s \o t # <<>> /\ Head(s \o t) = Head(s)
<1>1. /\ Len(s) \in Nat /\ Len(t) \in Nat
      /\ DOMAIN s = 1 .. Len(s) /\ DOMAIN t = 1 .. Len(t)
      /\ s # <<>> => Len(s) >= 1
  BY LenProperties, EmptySeq
<1>2. /\ s \o t \in Seq(S)
      /\ Len(s \o t) = Len(s) + Len(t)
      /\ \A i \in 1 .. Len(s) + Len(t) :
           (s \o t)[i] = IF i <= Len(s) THEN s[i] ELSE t[i - Len(s)]
  BY ConcatProperties
<1>3. DOMAIN (s \o t) = 1 .. Len(s) + Len(t)
  BY <1>2, LenProperties
<1>4. \A i \in 1 .. Len(s) + Len(t) :
        \/ i \in 1 .. Len(s) /\ (s \o t)[i] = s[i]
        \/ i - Len(s) \in 1 .. Len(t) /\ (s \o t)[i] = t[i - Len(s)] /\ i > Len(s)
  BY <1>1, <1>2
<1>5. ToSet(s \o t) = ToSet(s) \cup ToSet(t)
  <2>1. ToSet(s \o t) \subseteq ToSet(s) \cup ToSet(t)
    BY <1>1, <1>3, <1>4 DEF ToSet
  <2>2. ASSUME NEW i \in 1 .. Len(s)
        PROVE  s[i] \in ToSet(s \o t)
    <3>1. i \in 1 .. Len(s) + Len(t) /\ (s \o t)[i] = s[i]
      BY <1>1, <1>2
    <3> QED BY <3>1, <1>3 DEF ToSet
  <2>3. ASSUME NEW i \in 1 .. Len(t)
        PROVE  t[i] \in ToSet(s \o t)
    <3>1. /\ i + Len(s) \in 1 .. Len(s) + Len(t)
          /\ ~(i + Len(s) <= Len(s))
          /\ (i + Len(s)) - Len(s) = i
      BY <1>1
    <3>2. (s \o t)[i + Len(s)] = t[i]
      BY <3>1, <1>2
    <3> QED BY <3>1, <3>2, <1>3 DEF ToSet
  <2> QED BY <1>1, <2>1, <2>2, <2>3 DEF ToSet
<1>6. IsInjective(s \o t)
  <2> SUFFICES ASSUME NEW a \in 1 .. Len(s) + Len(t), NEW b \in 1 .. Len(s) + Len(t),
                      (s \o t)[a] = (s \o t)[b]
               PROVE  a = b
    BY <1>3 DEF IsInjective
  <2>1. CASE a \in 1 .. Len(s) /\ b \in 1 .. Len(s)
    BY <2>1, <1>1, <1>2 DEF IsInjective
  <2>2. CASE a > Len(s) /\ b > Len(s)
    <3>1. /\ a - Len(s) \in 1 .. Len(t) /\ b - Len(s) \in 1 .. Len(t)
          /\ t[a - Len(s)] = t[b - Len(s)]
      BY <2>2, <1>1, <1>4
    <3>2. a - Len(s) = b - Len(s)
      BY <3>1, <1>1 DEF IsInjective
    <3> QED BY <3>2, <1>1
  <2>3. ASSUME NEW x \in 1 .. Len(s), NEW y \in 1 .. Len(s) + Len(t), y > Len(s)
        PROVE  (s \o t)[x] # (s \o t)[y]
    <3>1. (s \o t)[x] = s[x] /\ s[x] \in ToSet(s)
      <4>1. x \in 1 .. Len(s) + Len(t) /\ x <= Len(s)
        BY <1>1
      <4> QED BY <4>1, <1>1, <1>2 DEF ToSet
    <3>2. (s \o t)[y] \in ToSet(t)
      BY <2>3, <1>1, <1>4 DEF ToSet
    <3> QED BY <3>1, <3>2
  <2> QED BY <2>1, <2>2, <2>3, <1>1
<1>7. ASSUME s # <<>>
      PROVE  s \o t # <<>> /\ Head(s \o t) = Head(s)
  <2>1. Len(s \o t) >= 1 /\ (s \o t)[1] = s[1]
    BY <1>1, <1>2, <1>7
  <2>2. s \o t # <<>>
    BY <2>1
  <2> QED BY <1>2, <1>7, <2>1, <2>2
<1> QED BY <1>2, <1>5, <1>6, <1>7

\* The members of a sequence over S are in S.
LEMMA ToSetIn ==
  ASSUME NEW S, NEW s \in Seq(S)
  PROVE  ToSet(s) \subseteq S
BY LenProperties DEF ToSet

\* The head of a sequence is one of its members.
LEMMA HeadFacts ==
  ASSUME NEW S, NEW s \in Seq(S), s # <<>>
  PROVE  Head(s) \in S /\ Head(s) \in ToSet(s)
<1>1. Len(s) \in Nat \ {0} /\ DOMAIN s = 1 .. Len(s) /\ Head(s) = s[1]
  BY EmptySeq, LenProperties
<1>2. s[1] \in S /\ s[1] \in ToSet(s)
  BY <1>1, ElementOfSeq DEF ToSet
<1> QED BY <1>1, <1>2

\* Putting a new member before a sequence adds that member.
LEMMA PushFacts ==
  ASSUME NEW S, NEW s \in Seq(S), NEW e \in S, IsInjective(s), e \notin ToSet(s)
  PROVE  /\ <<e>> \o s \in Seq(S)
         /\ ToSet(<<e>> \o s) = {e} \cup ToSet(s)
         /\ IsInjective(<<e>> \o s)
<1> DEFINE one == <<e>>
<1>1. one \in Seq(S) /\ ToSet(one) = {e} /\ IsInjective(one)
  BY DEF ToSet, IsInjective
<1> SUFFICES /\ one \o s \in Seq(S)
             /\ ToSet(one \o s) = {e} \cup ToSet(s)
             /\ IsInjective(one \o s)
  OBVIOUS
<1> HIDE DEF one
<1>2. ToSet(one) \cap ToSet(s) = {}
  BY <1>1
<1> QED BY <1>1, <1>2, ConcatFacts
=============================================================================
