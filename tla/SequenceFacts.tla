---------------------------- MODULE SequenceFacts ----------------------------
(***************************************************************************)
(* What the operations on the intrusive lists and queues of furi/core do   *)
(* to the set of their elements and to the absence of duplicates.          *)
(***************************************************************************)
EXTENDS Integers, SequencesExt, SequenceTheorems, WellFoundedInduction, TLAPS

\* WaitingList_push_back, or furi_message_queue_put: what is appended joins the
\* elements, and the list stays free of duplicates if it was not among them.
LEMMA AppendFacts ==
    ASSUME NEW S, NEW s \in Seq(S), NEW x \in S
    PROVE  /\ Append(s, x) \in Seq(S)
           /\ Append(s, x) # <<>>
           /\ ToSet(Append(s, x)) = ToSet(s) \cup {x}
           /\ IsInjective(s) /\ x \notin ToSet(s) => IsInjective(Append(s, x))
  <1> DEFINE r == Append(s, x)
  <1>1. /\ r \in Seq(S)
        /\ r # <<>>
        /\ DOMAIN r = 1..Len(s) + 1
        /\ \A k \in 1..Len(s) : r[k] = s[k]
        /\ r[Len(s) + 1] = x
    BY AppendProperties, LenProperties
  <1>2. DOMAIN s = 1..Len(s) /\ Len(s) \in Nat
    BY LenProperties
  <1> HIDE DEF r
  <1>3. ToSet(r) = ToSet(s) \cup {x}
    <2>1. ASSUME NEW y \in ToSet(r) PROVE y \in ToSet(s) \cup {x}
      BY <2>1, <1>1, <1>2 DEF ToSet
    <2>2. ASSUME NEW y \in ToSet(s) \cup {x} PROVE y \in ToSet(r)
      BY <2>2, <1>1, <1>2 DEF ToSet
    <2> QED
      BY <2>1, <2>2
  <1>4. IsInjective(s) /\ x \notin ToSet(s) => IsInjective(r)
    BY <1>1, <1>2 DEF ToSet, IsInjective
  <1> QED
    BY <1>1, <1>3, <1>4 DEF r

\* WaitingList_pop_front, or furi_message_queue_get: the head leaves the elements
\* of a list without duplicates.
LEMMA TailFacts ==
    ASSUME NEW S, NEW s \in Seq(S), s # <<>>
    PROVE  /\ Tail(s) \in Seq(S)
           /\ Head(s) \in S
           /\ ToSet(s) = ToSet(Tail(s)) \cup {Head(s)}
           /\ IsInjective(s) => IsInjective(Tail(s)) /\ Head(s) \notin ToSet(Tail(s))
  <1> DEFINE r == Tail(s)
             h == Head(s)
  <1>1. /\ r \in Seq(S)
        /\ h \in S
        /\ DOMAIN r = 1..Len(s) - 1
        /\ \A k \in 1..Len(s) - 1 : r[k] = s[k + 1]
        /\ h = s[1]
    BY HeadTailProperties, LenProperties
  <1>2. DOMAIN s = 1..Len(s) /\ Len(s) \in Nat \ {0}
    BY LenProperties, EmptySeq
  <1> HIDE DEF r, h
  <1>3. ToSet(s) = ToSet(r) \cup {h}
    <2>1. ASSUME NEW y \in ToSet(r) \cup {h} PROVE y \in ToSet(s)
      BY <2>1, <1>1, <1>2 DEF ToSet
    <2>2. ASSUME NEW y \in ToSet(s) PROVE y \in ToSet(r) \cup {h}
      <3>1. PICK k \in 1..Len(s) : y = s[k]
        BY <1>2 DEF ToSet
      <3>2. CASE k = 1
        BY <3>1, <3>2, <1>1
      <3>3. CASE k > 1
        <4>1. k - 1 \in DOMAIN r /\ r[k - 1] = s[k]
          BY <3>3, <1>1, <1>2
        <4> QED
          BY <4>1, <3>1 DEF ToSet
      <3> QED
        BY <3>2, <3>3, <1>2
    <2> QED
      BY <2>1, <2>2
  <1>4. ASSUME IsInjective(s) PROVE IsInjective(r) /\ h \notin ToSet(r)
    <2>1. ASSUME NEW k \in DOMAIN r, NEW l \in DOMAIN r, r[k] = r[l] PROVE k = l
      <3>1. k + 1 \in DOMAIN s /\ l + 1 \in DOMAIN s /\ s[k + 1] = s[l + 1]
        BY <2>1, <1>1, <1>2
      <3>2. k + 1 = l + 1
        BY <3>1, <1>4 DEF IsInjective
      <3> QED
        BY <3>2, <1>1, <1>2
    <2>2. ASSUME NEW k \in DOMAIN r PROVE r[k] # h
      <3>1. k + 1 \in DOMAIN s /\ 1 \in DOMAIN s /\ k + 1 # 1 /\ r[k] = s[k + 1]
        BY <1>1, <1>2
      <3> QED
        BY <3>1, <1>1, <1>4 DEF IsInjective
    <2> QED
      BY <2>1, <2>2 DEF IsInjective, ToSet
  <1> QED
    BY <1>1, <1>3, <1>4 DEF r, h

\* What is behind an element that is unlinked moves up one place.
LEMMA RemoveAtElements ==
    ASSUME NEW S, NEW s \in Seq(S), NEW j \in DOMAIN s
    PROVE  /\ RemoveAt(s, j) \in Seq(S)
           /\ DOMAIN RemoveAt(s, j) = 1..Len(s) - 1
           /\ \A k \in 1..Len(s) - 1 :
                RemoveAt(s, j)[k] = IF k < j THEN s[k] ELSE s[k + 1]
  <1> DEFINE a == SubSeq(s, 1, j - 1)
             b == SubSeq(s, j + 1, Len(s))
             r == a \o b
  <1>1. DOMAIN s = 1..Len(s) /\ Len(s) \in Nat /\ j \in 1..Len(s)
        /\ \A k \in 1..Len(s) : s[k] \in S
    BY LenProperties
  <1>2. /\ a \in Seq(S)
        /\ Len(a) = j - 1
        /\ \A k \in 1..j - 1 : a[k] = s[k]
    BY <1>1, SubSeqProperties
  <1>3. /\ b \in Seq(S)
        /\ Len(b) = Len(s) - j
        /\ \A k \in 1..Len(s) - j : b[k] = s[j + k]
    BY <1>1, SubSeqProperties
  <1> HIDE DEF a, b
  <1>4. /\ r \in Seq(S)
        /\ Len(r) = Len(s) - 1
        /\ \A k \in 1..Len(s) - 1 :
              r[k] = IF k <= j - 1 THEN a[k] ELSE b[k - (j - 1)]
    <2>1. Len(a) + Len(b) = Len(s) - 1
      BY <1>1, <1>2, <1>3
    <2>2. /\ r \in Seq(S)
          /\ Len(r) = Len(a) + Len(b)
          /\ \A k \in 1..Len(a) + Len(b) :
                r[k] = IF k <= Len(a) THEN a[k] ELSE b[k - Len(a)]
      BY <1>2, <1>3, ConcatProperties
    <2> QED
      BY <2>1, <2>2, <1>2
  <1>5. DOMAIN r = 1..Len(s) - 1
    BY <1>4, LenProperties
  <1>6. ASSUME NEW k \in 1..Len(s) - 1
        PROVE  r[k] = IF k < j THEN s[k] ELSE s[k + 1]
    <2>1. CASE k < j
      BY <2>1, <1>4, <1>1, <1>2
    <2>2. CASE ~(k < j)
      <3>1. k - (j - 1) \in 1..Len(s) - j /\ j + (k - (j - 1)) = k + 1
        BY <2>2, <1>1
      <3> QED
        BY <2>2, <3>1, <1>4, <1>1, <1>3
    <2> QED
      BY <2>1, <2>2
  <1> QED
    BY <1>4, <1>5, <1>6 DEF r, a, b, RemoveAt

\* WaitingList_unlink: exactly one element leaves a list without duplicates.
LEMMA RemoveAtFacts ==
    ASSUME NEW S, NEW s \in Seq(S), NEW j \in DOMAIN s, IsInjective(s)
    PROVE  /\ RemoveAt(s, j) \in Seq(S)
           /\ ToSet(RemoveAt(s, j)) = ToSet(s) \ {s[j]}
           /\ IsInjective(RemoveAt(s, j))
  <1> DEFINE r == RemoveAt(s, j)
  <1>1. DOMAIN s = 1..Len(s) /\ Len(s) \in Nat /\ j \in 1..Len(s)
    BY LenProperties
  <1>2. /\ r \in Seq(S)
        /\ DOMAIN r = 1..Len(s) - 1
        /\ \A k \in 1..Len(s) - 1 : r[k] = IF k < j THEN s[k] ELSE s[k + 1]
    BY RemoveAtElements
  <1> HIDE DEF r
  <1>3. ToSet(r) = ToSet(s) \ {s[j]}
    <2>1. ASSUME NEW y \in ToSet(r) PROVE y \in ToSet(s) \ {s[j]}
      BY <2>1, <1>1, <1>2 DEF ToSet, IsInjective
    <2>2. ASSUME NEW y \in ToSet(s) \ {s[j]} PROVE y \in ToSet(r)
      <3>1. PICK k \in 1..Len(s) : y = s[k] /\ k # j
        BY <1>1 DEF ToSet
      <3>2. CASE k < j
        BY <3>1, <3>2, <1>1, <1>2 DEF ToSet
      <3>3. CASE k > j
        <4>1. k - 1 \in DOMAIN r /\ r[k - 1] = s[k]
          BY <3>3, <1>1, <1>2
        <4> QED
          BY <4>1, <3>1 DEF ToSet
      <3> QED
        BY <3>1, <3>2, <3>3, <1>1
    <2> QED
      BY <2>1, <2>2
  <1>4. IsInjective(r)
    <2> SUFFICES ASSUME NEW k \in DOMAIN r, NEW l \in DOMAIN r, r[k] = r[l]
                 PROVE  k = l
      BY DEF IsInjective
    <2> DEFINE From(n) == IF n < j THEN n ELSE n + 1
    <2>1. /\ From(k) \in DOMAIN s /\ From(l) \in DOMAIN s
          /\ s[From(k)] = s[From(l)]
      BY <1>1, <1>2
    <2>2. From(k) = From(l)
      BY <2>1 DEF IsInjective
    <2> QED
      BY <2>2, <1>1, <1>2
  <1> QED
    BY <1>2, <1>3, <1>4 DEF r

\* FuriPubSubSubscriptionList_push_raw: an item that was not there joins the list
\* where iteration begins.
LEMMA ConsFacts ==
    ASSUME NEW S, NEW s \in Seq(S), NEW x \in S
    PROVE  /\ <<x>> \o s \in Seq(S)
           /\ ToSet(<<x>> \o s) = ToSet(s) \cup {x}
           /\ IsInjective(s) /\ x \notin ToSet(s) => IsInjective(<<x>> \o s)
  <1> DEFINE r == <<x>> \o s
  <1>1. DOMAIN s = 1..Len(s) /\ Len(s) \in Nat
    BY LenProperties
  <1>2. /\ r \in Seq(S)
        /\ DOMAIN r = 1..Len(s) + 1
        /\ r[1] = x
        /\ \A k \in 1..Len(s) : r[k + 1] = s[k]
    <2>1. <<x>> \in Seq(S) /\ Len(<<x>>) = 1 /\ <<x>>[1] = x
      OBVIOUS
    <2>2. /\ r \in Seq(S)
          /\ Len(r) = 1 + Len(s)
          /\ \A k \in 1..1 + Len(s) : r[k] = IF k <= 1 THEN <<x>>[k] ELSE s[k - 1]
      BY <2>1, ConcatProperties
    <2> HIDE DEF r
    <2>3. DOMAIN r = 1..Len(s) + 1
      BY <1>1, <2>2, LenProperties
    <2>4. \A k \in 1..Len(s) : k + 1 \in 1..1 + Len(s) /\ ~(k + 1 <= 1) /\ (k + 1) - 1 = k
      BY <1>1
    <2> QED
      BY <1>1, <2>1, <2>2, <2>3, <2>4
  <1> HIDE DEF r
  <1>3. ASSUME NEW k \in DOMAIN r, k # 1
        PROVE  k - 1 \in 1..Len(s) /\ r[k] = s[k - 1]
    <2>1. k - 1 \in 1..Len(s) /\ (k - 1) + 1 = k
      BY <1>1, <1>2, <1>3
    <2> QED
      BY <2>1, <1>2
  <1>4. ToSet(r) = ToSet(s) \cup {x}
    <2>1. ASSUME NEW y \in ToSet(r) PROVE y \in ToSet(s) \cup {x}
      BY <2>1, <1>1, <1>2, <1>3 DEF ToSet
    <2>2. ASSUME NEW y \in ToSet(s) PROVE y \in ToSet(r)
      BY <2>2, <1>1, <1>2 DEF ToSet
    <2>3. x \in ToSet(r)
      BY <1>1, <1>2 DEF ToSet
    <2> QED
      BY <2>1, <2>2, <2>3
  <1>5. ASSUME IsInjective(s), x \notin ToSet(s) PROVE IsInjective(r)
    <2> SUFFICES ASSUME NEW k \in DOMAIN r, NEW l \in DOMAIN r, r[k] = r[l]
                 PROVE  k = l
      BY DEF IsInjective
    <2>1. \A n \in 1..Len(s) : s[n] # x
      BY <1>1, <1>5 DEF ToSet
    <2>2. CASE k = 1 \/ l = 1
      BY <2>1, <2>2, <1>2, <1>3
    <2>3. CASE k # 1 /\ l # 1
      <3>1. k - 1 = l - 1
        BY <2>3, <1>1, <1>3, <1>5 DEF IsInjective
      <3> QED
        BY <3>1, <1>1, <1>2
    <2> QED
      BY <2>2, <2>3
  <1> QED
    BY <1>2, <1>4, <1>5 DEF r

\* Where the elements of a queue are after one is put at its end,
LEMMA AppendElements ==
    ASSUME NEW S, NEW s \in Seq(S), NEW x \in S
    PROVE  /\ Append(s, x) \in Seq(S)
           /\ DOMAIN Append(s, x) = DOMAIN s \cup {Len(s) + 1}
           /\ Len(s) + 1 \notin DOMAIN s
           /\ \A i \in DOMAIN s : Append(s, x)[i] = s[i]
           /\ Append(s, x)[Len(s) + 1] = x
  <1>1. DOMAIN s = 1..Len(s) /\ Len(s) \in Nat
    BY LenProperties
  <1>2. /\ Append(s, x) \in Seq(S)
        /\ Len(Append(s, x)) = Len(s) + 1
        /\ \A i \in 1..Len(s) : Append(s, x)[i] = s[i]
        /\ Append(s, x)[Len(s) + 1] = x
    BY AppendProperties
  <1>3. DOMAIN Append(s, x) = 1..Len(s) + 1
    BY <1>2, LenProperties
  <1>4. 1..Len(s) + 1 = (1..Len(s)) \cup {Len(s) + 1} /\ Len(s) + 1 \notin 1..Len(s)
    BY <1>1
  <1> QED
    BY <1>1, <1>2, <1>3, <1>4

\* and after the first is taken.
LEMMA TailElements ==
    ASSUME NEW S, NEW s \in Seq(S), s # <<>>
    PROVE  /\ Tail(s) \in Seq(S)
           /\ 1 \in DOMAIN s /\ Head(s) = s[1] /\ Head(s) \in S
           /\ \A i \in DOMAIN Tail(s) :
                i \in Nat /\ i + 1 \in DOMAIN s /\ i + 1 # 1 /\ Tail(s)[i] = s[i + 1]
           /\ \A i \in DOMAIN s \ {1} :
                i \in Nat /\ i - 1 \in DOMAIN Tail(s) /\ Tail(s)[i - 1] = s[i]
  <1> DEFINE r == Tail(s)
  <1>1. DOMAIN s = 1..Len(s) /\ Len(s) \in Nat \ {0}
    BY LenProperties, EmptySeq
  <1>2. /\ r \in Seq(S) /\ Head(s) = s[1] /\ Head(s) \in S
        /\ DOMAIN r = 1..Len(s) - 1
        /\ \A k \in 1..Len(s) - 1 : r[k] = s[k + 1]
    BY HeadTailProperties, LenProperties
  <1> HIDE DEF r
  <1>3. \A i \in 1..Len(s) - 1 : i \in Nat /\ i + 1 \in 1..Len(s) /\ i + 1 # 1
    BY <1>1
  <1>4. ASSUME NEW i \in DOMAIN s \ {1}
        PROVE  i \in Nat /\ i - 1 \in 1..Len(s) - 1 /\ r[i - 1] = s[i]
    <2>1. i \in Nat /\ i - 1 \in 1..Len(s) - 1 /\ (i - 1) + 1 = i
      BY <1>1
    <2> QED
      BY <1>2, <2>1
  <1> QED
    BY <1>1, <1>2, <1>3, <1>4 DEF r

\* A queue with one element and one more.
LEMMA AppendToOne ==
    ASSUME NEW a, NEW b
    PROVE  Append(<<a>>, b) = <<a, b>>
  <1> DEFINE S == {a, b}
             s == <<a>>
             t == <<a, b>>
             r == Append(s, b)
  <1>1. s \in Seq(S) /\ Len(s) = 1 /\ s[1] = a
    OBVIOUS
  <1>2. t \in Seq(S) /\ Len(t) = 2 /\ t[1] = a /\ t[2] = b
    OBVIOUS
  <1>3. b \in S /\ s \in Seq(S)
    OBVIOUS
  <1> HIDE DEF s, t, S
  <1>4. /\ r \in Seq(S) /\ Len(r) = Len(s) + 1 /\ r[Len(s) + 1] = b
        /\ \A i \in 1..Len(s) : r[i] = s[i]
    BY <1>3, AppendProperties
  <1> HIDE DEF r
  <1>5. Len(r) = Len(t) /\ \A i \in 1..Len(r) : r[i] = t[i]
    BY <1>1, <1>2, <1>4
  <1>6. r = t
    BY <1>2, <1>4, <1>5, SeqEqual
  <1> QED
    BY <1>6 DEF s, t, r

\* TimerList_push_after and TimerList_push_front: an element behind the first k.
LEMMA InsertAtElements ==
    ASSUME NEW S, NEW s \in Seq(S), NEW k \in 0..Len(s), NEW x \in S
    PROVE  /\ InsertAt(s, k + 1, x) \in Seq(S)
           /\ DOMAIN InsertAt(s, k + 1, x) = 1..Len(s) + 1
           /\ \A n \in 1..Len(s) + 1 :
                InsertAt(s, k + 1, x)[n] =
                  IF n <= k THEN s[n] ELSE IF n = k + 1 THEN x ELSE s[n - 1]
  <1> DEFINE a == SubSeq(s, 1, k)
             b == SubSeq(s, k + 1, Len(s))
             c == <<x>>
             r == (a \o c) \o b
  <1>1. DOMAIN s = 1..Len(s) /\ Len(s) \in Nat /\ \A n \in 1..Len(s) : s[n] \in S
    BY LenProperties
  <1>2. /\ a \in Seq(S)
        /\ Len(a) = k
        /\ \A n \in 1..k : a[n] = s[n]
    BY <1>1, SubSeqProperties
  <1>3. /\ b \in Seq(S)
        /\ Len(b) = Len(s) - k
        /\ \A n \in 1..Len(s) - k : b[n] = s[k + n]
    <2>1. k + 1 \in Int /\ Len(s) \in Int /\ \A n \in k + 1..Len(s) : s[n] \in S
      BY <1>1
    <2>2. /\ b \in Seq(S)
          /\ Len(b) = IF k + 1 <= Len(s) THEN Len(s) - (k + 1) + 1 ELSE 0
          /\ \A n \in 1..Len(s) - (k + 1) + 1 : b[n] = s[k + 1 + n - 1]
      BY <2>1, SubSeqProperties
    <2> HIDE DEF b
    <2>3. Len(b) = Len(s) - k
      <3>1. k \in Int /\ Len(s) \in Int /\ k <= Len(s)
        BY <1>1
      <3>2. CASE k + 1 <= Len(s)
        <4>1. Len(b) = Len(s) - (k + 1) + 1
          BY <2>2, <3>2
        <4> QED
          BY <4>1, <3>1
      <3>3. CASE ~(k + 1 <= Len(s))
        <4>1. Len(b) = 0 /\ k = Len(s)
          BY <2>2, <3>1, <3>3
        <4> QED
          BY <4>1, <3>1
      <3> QED
        BY <3>2, <3>3
    <2>4. ASSUME NEW n \in 1..Len(s) - k PROVE b[n] = s[k + n]
      <3>1. n \in 1..Len(s) - (k + 1) + 1 /\ k + 1 + n - 1 = k + n
        BY <1>1
      <3> QED
        BY <3>1, <2>2
    <2> QED
      BY <2>2, <2>3, <2>4
  <1>4. c \in Seq(S) /\ Len(c) = 1 /\ c[1] = x
    OBVIOUS
  <1> HIDE DEF a, b, c
  <1>5. /\ a \o c \in Seq(S)
        /\ Len(a \o c) = k + 1
        /\ \A n \in 1..k + 1 : (a \o c)[n] = IF n <= k THEN s[n] ELSE x
    <2>1. /\ a \o c \in Seq(S)
          /\ Len(a \o c) = Len(a) + Len(c)
          /\ \A n \in 1..Len(a) + Len(c) :
                (a \o c)[n] = IF n <= Len(a) THEN a[n] ELSE c[n - Len(a)]
      BY <1>2, <1>4, ConcatProperties
    <2>2. ASSUME NEW n \in 1..k + 1
          PROVE  (a \o c)[n] = IF n <= k THEN s[n] ELSE x
      <3>1. CASE n <= k
        BY <3>1, <2>1, <1>2, <1>4
      <3>2. CASE n = k + 1
        <4>1. n - k = 1 /\ ~(n <= k) /\ n \in 1..Len(a) + Len(c)
          BY <3>2, <1>2, <1>4
        <4>2. (a \o c)[n] = c[1]
          BY <4>1, <2>1, <1>2
        <4> QED
          BY <4>1, <4>2, <1>4
      <3>3. n <= k \/ n = k + 1
        BY <1>1
      <3> QED
        BY <3>1, <3>2, <3>3, Zenon
    <2> QED
      BY <2>1, <2>2, <1>2, <1>4
  <1> DEFINE d == a \o c
  <1> HIDE DEF d
  <1>6. /\ r \in Seq(S)
        /\ Len(r) = Len(s) + 1
        /\ \A n \in 1..Len(s) + 1 : r[n] = IF n <= k + 1 THEN d[n] ELSE b[n - (k + 1)]
    <2>1. d \in Seq(S) /\ Len(d) = k + 1
      BY <1>5 DEF d
    <2>2. /\ d \o b \in Seq(S)
          /\ Len(d \o b) = Len(d) + Len(b)
          /\ \A n \in 1..Len(d) + Len(b) :
                (d \o b)[n] = IF n <= Len(d) THEN d[n] ELSE b[n - Len(d)]
      BY <2>1, <1>3, ConcatProperties
    <2>3. Len(d) + Len(b) = Len(s) + 1
      BY <2>1, <1>1, <1>3
    <2> QED
      BY <2>1, <2>2, <2>3 DEF d
  <1> HIDE DEF r
  <1>7. DOMAIN r = 1..Len(s) + 1
    BY <1>6, LenProperties
  <1>8. ASSUME NEW n \in 1..Len(s) + 1
        PROVE  r[n] = IF n <= k THEN s[n] ELSE IF n = k + 1 THEN x ELSE s[n - 1]
    <2>1. CASE n <= k + 1
      <3>1. r[n] = d[n] /\ n \in 1..k + 1
        BY <2>1, <1>6
      <3> QED
        BY <3>1, <1>5 DEF d
    <2>2. CASE n > k + 1
      <3>1. r[n] = b[n - (k + 1)]
        BY <2>2, <1>6
      <3>2. n - (k + 1) \in 1..Len(s) - k /\ k + (n - (k + 1)) = n - 1
        BY <2>2, <1>1
      <3>3. ~(n <= k) /\ n # k + 1 /\ b[n - (k + 1)] = s[n - 1]
        BY <2>2, <3>2, <1>3
      <3> QED
        BY <3>1, <3>3
    <2> QED
      BY <2>1, <2>2
  <1>9. InsertAt(s, k + 1, x) = r
    <2>1. (k + 1) - 1 = k
      OBVIOUS
    <2> QED
      BY <2>1 DEF InsertAt, r, a, b, c
  <1> QED
    BY <1>6, <1>7, <1>8, <1>9

\* It joins the elements of the list, which stays free of duplicates.
LEMMA InsertAtFacts ==
    ASSUME NEW S, NEW s \in Seq(S), NEW k \in 0..Len(s), NEW x \in S
    PROVE  /\ ToSet(InsertAt(s, k + 1, x)) = ToSet(s) \cup {x}
           /\ IsInjective(s) /\ x \notin ToSet(s) => IsInjective(InsertAt(s, k + 1, x))
  <1> DEFINE r == InsertAt(s, k + 1, x)
             From(n) == IF n <= k THEN n ELSE n - 1
             To(n) == IF n <= k THEN n ELSE n + 1
  <1>1. DOMAIN s = 1..Len(s) /\ Len(s) \in Nat
    BY LenProperties
  <1>2. /\ DOMAIN r = 1..Len(s) + 1
        /\ \A n \in 1..Len(s) + 1 :
              r[n] = IF n <= k THEN s[n] ELSE IF n = k + 1 THEN x ELSE s[n - 1]
    BY InsertAtElements
  <1> HIDE DEF r
  <1>3. \A n \in DOMAIN r \ {k + 1} : From(n) \in DOMAIN s /\ r[n] = s[From(n)]
    BY <1>1, <1>2
  <1>4. \A n \in DOMAIN s : To(n) \in DOMAIN r /\ r[To(n)] = s[n]
    BY <1>1, <1>2
  <1>5. k + 1 \in DOMAIN r /\ r[k + 1] = x
    BY <1>1, <1>2
  <1>6. ToSet(r) = ToSet(s) \cup {x}
    <2>1. ASSUME NEW y \in ToSet(r) PROVE y \in ToSet(s) \cup {x}
      BY <2>1, <1>3, <1>5 DEF ToSet
    <2>2. ASSUME NEW y \in ToSet(s) PROVE y \in ToSet(r)
      BY <2>2, <1>4 DEF ToSet
    <2>3. x \in ToSet(r)
      BY <1>5 DEF ToSet
    <2> QED
      BY <2>1, <2>2, <2>3
  <1>7. ASSUME IsInjective(s), x \notin ToSet(s),
               NEW m \in DOMAIN r, NEW n \in DOMAIN r, r[m] = r[n]
        PROVE  m = n
    <2>1. \A p \in DOMAIN s : s[p] # x
      BY <1>7 DEF ToSet
    <2>2. CASE m = k + 1 \/ n = k + 1
      BY <2>1, <2>2, <1>3, <1>5, <1>7
    <2>3. CASE m # k + 1 /\ n # k + 1
      <3>1. From(m) = From(n)
        BY <2>3, <1>3, <1>7 DEF IsInjective
      <3>2. m \in Nat /\ n \in Nat
        BY <1>1, <1>2
      <3> QED
        BY <2>3, <3>1, <3>2
    <2> QED
      BY <2>2, <2>3
  <1> QED
    BY <1>6, <1>7 DEF r, IsInjective

\* The greatest element of a set of positions.
LEMMA MaxFacts ==
    ASSUME NEW n \in Nat, NEW S \in SUBSET (0..n), S # {}
    PROVE  Max(S) \in S /\ \A y \in S : Max(S) >= y
  <1> DEFINE T == {n - y : y \in S}
  <1>1. T \subseteq Nat /\ T # {}
    <2>1. \A y \in S : n - y \in Nat
      OBVIOUS
    <2>2. PICK y \in S : TRUE
      OBVIOUS
    <2>3. n - y \in T
      OBVIOUS
    <2> QED
      BY <2>1, <2>3
  <1>2. PICK m \in T : \A z \in T : ~(<<z, m>> \in OpToRel(<, Nat))
    BY <1>1, NatLessThanWellFounded, WFMin
  <1>3. \A z \in T : m <= z
    <2> SUFFICES ASSUME NEW z \in T PROVE m <= z
      OBVIOUS
    <2>1. m \in Nat /\ z \in Nat
      BY <1>1
    <2>2. ~(z < m)
      BY <1>2, <2>1 DEF OpToRel
    <2> QED
      BY <2>1, <2>2
  <1>4. PICK x \in S : m = n - x
    BY <1>2
  <1>5. \A y \in S : x >= y
    BY <1>3, <1>4
  <1> QED
    BY <1>5 DEF Max

=============================================================================
