-------------------------- MODULE SequenceElements --------------------------
(***************************************************************************)
(* The elements of a sequence after the operations the specifications      *)
(* perform on their queues and pipes.                                      *)
(***************************************************************************)
EXTENDS Integers, Sequences, SequencesExt, SequenceTheorems, TLAPS

\* The elements of a sequence are its values at its indices.
LEMMA ElementIndex ==
    ASSUME NEW S, NEW s \in Seq(S)
    PROVE  /\ \A x : x \in ToSet(s) <=> \E i \in 1..Len(s) : s[i] = x
           /\ \A i \in 1..Len(s) : s[i] \in S /\ s[i] \in ToSet(s)
           /\ \A x \in ToSet(s) : x \in S
           /\ Len(s) \in Nat
           /\ s # <<>> => Len(s) > 0
           /\ DOMAIN s = 1..Len(s)
  BY DEF ToSet

\* A sequence over S has its elements in S.
LEMMA ElementsWithin ==
    ASSUME NEW S, NEW s \in Seq(S), NEW T, \A i \in 1..Len(s) : s[i] \in T
    PROVE  ToSet(s) \subseteq T
  BY ElementIndex

\* The empty sequence has no elements.
LEMMA EmptyElements ==
    ASSUME NEW S
    PROVE  <<>> \in Seq(S) /\ ToSet(<<>>) = {}
  BY DEF ToSet

\* Append adds one element.
LEMMA AppendElements ==
    ASSUME NEW S, NEW s \in Seq(S), NEW x \in S
    PROVE  /\ Append(s, x) \in Seq(S)
           /\ ToSet(Append(s, x)) = ToSet(s) \cup {x}
<1>1. /\ Append(s, x) \in Seq(S)
      /\ Len(Append(s, x)) = Len(s) + 1
      /\ \A i \in 1..Len(s) : Append(s, x)[i] = s[i]
      /\ Append(s, x)[Len(s) + 1] = x
  OBVIOUS
<1> DEFINE t == Append(s, x)
<1>2. t \in Seq(S) /\ Len(s) \in Nat
  BY <1>1
<1>3. ToSet(t) \subseteq ToSet(s) \cup {x}
  <2>1. \A i \in 1..Len(t) : t[i] \in ToSet(s) \cup {x}
    <3>1. \A i \in 1..Len(s) : s[i] \in ToSet(s)
      BY ElementIndex
    <3> QED
      BY <3>1, <1>1, <1>2
  <2> HIDE DEF t
  <2> QED
    BY <2>1, <1>2, ElementsWithin
<1>4. ToSet(s) \subseteq ToSet(t) /\ x \in ToSet(t)
  <2>1. \A i \in 1..Len(t) : t[i] \in ToSet(t)
    <3> HIDE DEF t
    <3> QED
      BY <1>2, ElementIndex
  <2>2. \A i \in 1..Len(s) : s[i] \in ToSet(t)
    BY <2>1, <1>1, <1>2
  <2> QED
    BY <2>1, <2>2, <1>1, <1>2, ElementsWithin
<1> QED
  BY <1>1, <1>3, <1>4

\* The first element and the rest.
LEMMA TailElements ==
    ASSUME NEW S, NEW s \in Seq(S), s # <<>>
    PROVE  /\ Tail(s) \in Seq(S) /\ Head(s) \in S
           /\ Head(s) \in ToSet(s)
           /\ ToSet(Tail(s)) \subseteq ToSet(s)
           /\ ToSet(s) = ToSet(Tail(s)) \cup {Head(s)}
           /\ Head(s) = s[1] /\ Len(s) > 0
           /\ Len(Tail(s)) = Len(s) - 1
           /\ \A i \in 1..Len(s) - 1 : Tail(s)[i] = s[i + 1]
<1>1. /\ Head(s) \in S /\ Tail(s) \in Seq(S)
      /\ Len(Tail(s)) = Len(s) - 1
      /\ \A i \in 1..Len(Tail(s)) : Tail(s)[i] = s[i + 1]
  BY HeadTailProperties
<1>2. Len(s) \in Nat \ {0} /\ Head(s) = s[1]
  OBVIOUS
<1>3. ToSet(Tail(s)) \subseteq ToSet(s)
  <2> DEFINE t == Tail(s)
  <2>1. \A i \in 1..Len(t) : t[i] \in ToSet(s)
    BY <1>1, <1>2, ElementIndex
  <2> HIDE DEF t
  <2> QED
    BY <2>1, <1>1, ElementsWithin DEF t
<1>4. Head(s) \in ToSet(s)
  BY <1>2, ElementIndex
<1>5. ASSUME NEW i \in 1..Len(s)
      PROVE  s[i] \in ToSet(Tail(s)) \cup {Head(s)}
  <2>1. CASE i = 1
    BY <2>1, <1>2
  <2>2. CASE i # 1
    <3>1. i - 1 \in 1..Len(Tail(s)) /\ Tail(s)[i - 1] = s[i]
      BY <2>2, <1>1, <1>2
    <3> QED
      BY <3>1, <1>1, ElementIndex
  <2> QED
    BY <2>1, <2>2
<1>6. ToSet(s) = ToSet(Tail(s)) \cup {Head(s)}
  BY <1>3, <1>4, <1>5, ElementIndex
<1> QED
  BY <1>1, <1>2, <1>3, <1>4, <1>6

\* RemoveAt keeps the other elements and adds none.
LEMMA RemoveAtElements ==
    ASSUME NEW S, NEW s \in Seq(S), NEW i \in 1..Len(s)
    PROVE  /\ RemoveAt(s, i) \in Seq(S)
           /\ ToSet(RemoveAt(s, i)) \subseteq ToSet(s)
           /\ s[i] \in S /\ s[i] \in ToSet(s)
<1> DEFINE a == SubSeq(s, 1, i - 1)
           b == SubSeq(s, i + 1, Len(s))
<1>1. /\ a \in Seq(S) /\ Len(a) = i - 1
      /\ \A k \in 1..Len(a) : a[k] = s[k]
  OBVIOUS
<1>2. /\ b \in Seq(S) /\ Len(b) = Len(s) - i
      /\ \A k \in 1..Len(b) : b[k] = s[i + k]
  OBVIOUS
<1>3. RemoveAt(s, i) = a \o b
  BY DEF RemoveAt
<1> HIDE DEF a, b
<1>4. /\ a \o b \in Seq(S)
      /\ Len(a \o b) = Len(a) + Len(b)
      /\ \A k \in 1..Len(a) + Len(b) :
            (a \o b)[k] = IF k <= Len(a) THEN a[k] ELSE b[k - Len(a)]
  BY <1>1, <1>2, ConcatProperties
<1>5. ASSUME NEW k \in 1..Len(a \o b)
      PROVE  (a \o b)[k] \in ToSet(s)
  <2>1. CASE k <= Len(a)
    BY <2>1, <1>1, <1>2, <1>4, ElementIndex
  <2>2. CASE ~(k <= Len(a))
    <3>1. k - Len(a) \in 1..Len(b) /\ i + (k - Len(a)) \in 1..Len(s)
      BY <2>2, <1>1, <1>2, <1>4
    <3>2. (a \o b)[k] = s[i + (k - Len(a))]
      BY <3>1, <2>2, <1>1, <1>2, <1>4
    <3> QED
      BY <3>1, <3>2, ElementIndex
  <2> QED
    BY <2>1, <2>2
<1>6. ToSet(a \o b) \subseteq ToSet(s)
  BY <1>4, <1>5, ElementsWithin
<1> QED
  BY <1>3, <1>4, <1>6, ElementIndex

\* Dropping the last element adds none.
LEMMA FrontElements ==
    ASSUME NEW S, NEW s \in Seq(S), s # <<>>
    PROVE  /\ SubSeq(s, 1, Len(s) - 1) \in Seq(S)
           /\ ToSet(SubSeq(s, 1, Len(s) - 1)) \subseteq ToSet(s)
<1>1. Len(s) \in Nat \ {0}
  OBVIOUS
<1>2. \A i \in 1..Len(s) - 1 : s[i] \in S
  BY <1>1, ElementIndex
<1>3. /\ SubSeq(s, 1, Len(s) - 1) \in Seq(S)
      /\ Len(SubSeq(s, 1, Len(s) - 1)) =
            IF 1 <= Len(s) - 1 THEN Len(s) - 1 - 1 + 1 ELSE 0
      /\ \A k \in 1..Len(s) - 1 - 1 + 1 :
            SubSeq(s, 1, Len(s) - 1)[k] = s[1 + k - 1]
  BY <1>1, <1>2, SubSeqProperties
<1>4. ASSUME NEW k \in 1..Len(SubSeq(s, 1, Len(s) - 1))
      PROVE  SubSeq(s, 1, Len(s) - 1)[k] \in ToSet(s)
  BY <1>1, <1>3, ElementIndex
<1> QED
  BY <1>3, <1>4, ElementsWithin

\* The last element and the ones before it.
LEMMA FrontLast ==
    ASSUME NEW S, NEW s \in Seq(S), s # <<>>
    PROVE  /\ Len(s) \in Nat \ {0}
           /\ Front(s) \in Seq(S)
           /\ Len(Front(s)) = Len(s) - 1
           /\ \A k \in 1..Len(s) - 1 : Front(s)[k] = s[k]
           /\ Last(s) = s[Len(s)] /\ Last(s) \in S
<1>1. Len(s) \in Nat \ {0}
  OBVIOUS
<1>2. \A i \in 1..Len(s) - 1 : s[i] \in S
  BY <1>1, ElementIndex
<1>3. /\ SubSeq(s, 1, Len(s) - 1) \in Seq(S)
      /\ Len(SubSeq(s, 1, Len(s) - 1)) =
            IF 1 <= Len(s) - 1 THEN Len(s) - 1 - 1 + 1 ELSE 0
      /\ \A k \in 1..Len(s) - 1 - 1 + 1 :
            SubSeq(s, 1, Len(s) - 1)[k] = s[1 + k - 1]
  BY <1>1, <1>2, SubSeqProperties
<1>4. s[Len(s)] \in S
  BY <1>1, ElementIndex
<1>5. PICK n \in Nat \ {0} : n = Len(s)
  BY <1>1
<1>6. Front(s) = SubSeq(s, 1, n - 1) /\ Last(s) = s[n]
  BY <1>5 DEF Front, Last
<1>7. Len(Front(s)) = n - 1
  BY <1>3, <1>5, <1>6
<1>8. ASSUME NEW k \in 1..n - 1
      PROVE  Front(s)[k] = s[k]
  <2>1. k \in 1..n - 1 - 1 + 1 /\ 1 + k - 1 = k
    OBVIOUS
  <2> QED
    BY <1>3, <1>5, <1>6, <2>1
<1> QED
  BY <1>3, <1>4, <1>5, <1>6, <1>7, <1>8

\* An element that is new leaves a sequence without repetitions so.
LEMMA AppendDistinct ==
    ASSUME NEW S, NEW s \in Seq(S), NEW x \in S, IsInjective(s), x \notin ToSet(s)
    PROVE  IsInjective(Append(s, x))
<1> DEFINE t == Append(s, x)
<1>1. /\ Len(t) = Len(s) + 1 /\ Len(s) \in Nat
      /\ \A i \in 1..Len(s) : t[i] = s[i]
      /\ t[Len(s) + 1] = x
      /\ DOMAIN t = 1..Len(s) + 1
  OBVIOUS
<1>2. /\ \A i \in 1..Len(s) : s[i] # x
      /\ \A i, j \in 1..Len(s) : s[i] = s[j] => i = j
  BY ElementIndex DEF IsInjective
<1> HIDE DEF t
<1>3. \A i, j \in 1..Len(s) + 1 : t[i] = t[j] => i = j
  BY <1>1, <1>2
<1> QED
  BY <1>1, <1>3 DEF IsInjective, t

\* The first element of such a sequence is not in the rest, which has none either.
LEMMA TailDistinct ==
    ASSUME NEW S, NEW s \in Seq(S), s # <<>>, IsInjective(s)
    PROVE  IsInjective(Tail(s)) /\ Head(s) \notin ToSet(Tail(s))
<1> DEFINE t == Tail(s)
<1>1. /\ t \in Seq(S) /\ Len(t) = Len(s) - 1 /\ Len(s) \in Nat
      /\ \A i \in 1..Len(s) - 1 : t[i] = s[i + 1]
      /\ Head(s) = s[1] /\ Len(s) > 0
      /\ DOMAIN t = 1..Len(s) - 1
  BY TailElements, ElementIndex
<1>2. \A i, j \in 1..Len(s) : s[i] = s[j] => i = j
  BY ElementIndex DEF IsInjective
<1> HIDE DEF t
<1>3. \A i, j \in 1..Len(s) - 1 : t[i] = t[j] => i = j
  BY <1>1, <1>2
<1>4. \A i \in 1..Len(s) - 1 : t[i] # Head(s)
  BY <1>1, <1>2
<1>5. Head(s) \notin ToSet(t)
  BY <1>1, <1>4, ElementIndex
<1> QED
  BY <1>1, <1>3, <1>5 DEF IsInjective, t

\* What may follow an element of A in a sequence is in B: this still holds of
\* the rest, all of which is in B once an element of A was first ...
LEMMA TailOrder ==
    ASSUME NEW S, NEW s \in Seq(S), s # <<>>, NEW A, NEW B,
           \A i, j \in DOMAIN s : i < j /\ s[i] \in A => s[j] \in B
    PROVE  /\ \A i, j \in DOMAIN Tail(s) :
                 i < j /\ Tail(s)[i] \in A => Tail(s)[j] \in B
           /\ Head(s) \in A => ToSet(Tail(s)) \subseteq B
<1> DEFINE t == Tail(s)
<1>1. /\ t \in Seq(S) /\ Len(t) = Len(s) - 1 /\ Len(s) \in Nat
      /\ \A i \in 1..Len(s) - 1 : t[i] = s[i + 1]
      /\ Head(s) = s[1] /\ Len(s) > 0
      /\ DOMAIN t = 1..Len(s) - 1 /\ DOMAIN s = 1..Len(s)
  BY TailElements, ElementIndex
<1> HIDE DEF t
<1>2. ASSUME NEW i \in 1..Len(s) - 1, NEW j \in 1..Len(s) - 1, i < j, t[i] \in A
      PROVE  t[j] \in B
  <2>1. /\ i + 1 \in 1..Len(s) /\ j + 1 \in 1..Len(s) /\ i + 1 < j + 1
        /\ t[i] = s[i + 1] /\ t[j] = s[j + 1]
    BY <1>1, <1>2
  <2> QED
    BY <1>1, <1>2, <2>1
<1>3. ASSUME Head(s) \in A, NEW j \in 1..Len(t)
      PROVE  t[j] \in B
  <2>1. j + 1 \in 1..Len(s) /\ 1 \in 1..Len(s) /\ 1 < j + 1 /\ t[j] = s[j + 1]
    BY <1>1
  <2> QED
    BY <1>1, <1>3, <2>1
<1>4. Head(s) \in A => ToSet(t) \subseteq B
  BY <1>1, <1>3, ElementsWithin
<1> QED
  BY <1>1, <1>2, <1>4 DEF t

\* ... and of a sequence with one element more, if that is in B or nothing
\* before it is in A.
LEMMA AppendOrder ==
    ASSUME NEW S, NEW s \in Seq(S), NEW x \in S, NEW A, NEW B,
           \A i, j \in DOMAIN s : i < j /\ s[i] \in A => s[j] \in B,
           x \in B \/ \A y \in ToSet(s) : y \notin A
    PROVE  \A i, j \in DOMAIN Append(s, x) :
              i < j /\ Append(s, x)[i] \in A => Append(s, x)[j] \in B
<1> DEFINE t == Append(s, x)
<1>1. /\ Len(t) = Len(s) + 1 /\ Len(s) \in Nat
      /\ \A i \in 1..Len(s) : t[i] = s[i]
      /\ t[Len(s) + 1] = x
      /\ DOMAIN t = 1..Len(s) + 1 /\ DOMAIN s = 1..Len(s)
  OBVIOUS
<1>2. x \in B \/ \A i \in 1..Len(s) : s[i] \notin A
  BY ElementIndex
<1> HIDE DEF t
<1>3. \A i, j \in 1..Len(s) + 1 : i < j /\ t[i] \in A => t[j] \in B
  BY <1>1, <1>2
<1> QED
  BY <1>1, <1>3 DEF t

\* What is appended to a sequence that has elements is in its tail.
LEMMA TailAppend ==
    ASSUME NEW S, NEW s \in Seq(S), s # <<>>, NEW x \in S
    PROVE  /\ ToSet(Tail(Append(s, x))) = ToSet(Tail(s)) \cup {x}
           /\ Len(Append(s, x)) > 1
<1> DEFINE t == Append(s, x)
<1>1. /\ t \in Seq(S) /\ Len(t) = Len(s) + 1 /\ Len(s) \in Nat /\ Len(s) > 0 /\ t # <<>>
      /\ \A i \in 1..Len(s) : t[i] = s[i]
      /\ t[Len(s) + 1] = x
  OBVIOUS
<1> HIDE DEF t
<1>2. /\ Tail(t) \in Seq(S) /\ Len(Tail(t)) = Len(s)
      /\ \A i \in 1..Len(s) : Tail(t)[i] = t[i + 1]
  BY <1>1
<1>3. /\ Tail(s) \in Seq(S) /\ Len(Tail(s)) = Len(s) - 1
      /\ \A i \in 1..Len(s) - 1 : Tail(s)[i] = s[i + 1]
  BY <1>1
<1>4. \A i \in 1..Len(s) - 1 : Tail(t)[i] = Tail(s)[i]
  BY <1>1, <1>2, <1>3
<1>5. Tail(t)[Len(s)] = x
  BY <1>1, <1>2
<1>6. \A y : y \in ToSet(Tail(t)) <=> \E i \in 1..Len(s) : Tail(t)[i] = y
  BY <1>2, ElementIndex
<1>7. \A y : y \in ToSet(Tail(s)) <=> \E i \in 1..Len(s) - 1 : Tail(s)[i] = y
  BY <1>3, ElementIndex
<1>8. \A i \in 1..Len(s) : i = Len(s) \/ i \in 1..Len(s) - 1
  BY <1>1
<1>9. ToSet(Tail(t)) = ToSet(Tail(s)) \cup {x}
  <2>1. ASSUME NEW y, y \in ToSet(Tail(t))
        PROVE  y \in ToSet(Tail(s)) \/ y = x
    BY <1>4, <1>5, <1>6, <1>7, <1>8, <2>1
  <2>2. ASSUME NEW y, y \in ToSet(Tail(s))
        PROVE  y \in ToSet(Tail(t))
    <3>1. PICK i \in 1..Len(s) - 1 : Tail(s)[i] = y
      BY <1>7, <2>2
    <3>2. i \in 1..Len(s) /\ Tail(t)[i] = y
      BY <1>1, <1>4, <3>1
    <3> QED
      BY <1>6, <3>2
  <2>3. x \in ToSet(Tail(t))
    <3>1. Len(s) \in 1..Len(s)
      BY <1>1
    <3> QED
      BY <1>5, <1>6, <3>1
  <2> QED
    BY <2>1, <2>2, <2>3
<1> QED
  BY <1>1, <1>9 DEF t

\* A sequence of one.
LEMMA OneElement ==
    ASSUME NEW S, NEW s \in Seq(S), NEW x \in S
    PROVE  /\ ToSet(<<x>>) = {x} /\ <<x>> \in Seq(S) /\ <<x>> # <<>>
           /\ \A y \in S : Append(s, y) = <<x>> => s = <<>> /\ y = x
           /\ Append(<<>>, x) = <<x>>
<1>1. ToSet(<<x>>) = {x}
  BY DEF ToSet
<1>2. ASSUME NEW y \in S, Append(s, y) = <<x>>
      PROVE  s = <<>> /\ y = x
  <2>1. Len(Append(s, y)) = Len(s) + 1 /\ Len(<<x>>) = 1 /\ Len(s) \in Nat
    OBVIOUS
  <2>2. Len(s) = 0
    BY <1>2, <2>1
  <2>3. s = <<>>
    BY <2>2
  <2>4. Append(s, y)[Len(s) + 1] = y
    OBVIOUS
  <2> QED
    BY <1>2, <2>2, <2>3, <2>4
<1> QED
  BY <1>1, <1>2

\* What Append puts first.
LEMMA AppendFirst ==
    ASSUME NEW S, NEW s \in Seq(S), NEW x \in S
    PROVE  /\ Append(s, x) # <<>>
           /\ s = <<>> => Append(s, x)[1] = x
           /\ s # <<>> => Append(s, x)[1] = s[1]
<1>1. /\ Len(Append(s, x)) = Len(s) + 1 /\ Len(s) \in Nat
      /\ \A i \in 1..Len(s) : Append(s, x)[i] = s[i]
      /\ Append(s, x)[Len(s) + 1] = x
  OBVIOUS
<1>2. s # <<>> => Len(s) > 0
  OBVIOUS
<1>3. s = <<>> => Len(s) = 0
  OBVIOUS
<1>4. Append(s, x) # <<>>
  <2>1. Len(<<>>) = 0
    OBVIOUS
  <2> QED
    BY <1>1, <2>1
<1> QED
  BY <1>1, <1>2, <1>3, <1>4
-----------------------------------------------------------------------------
(* The order of the elements                                               *)

Precedes(s, a, b) == \E i, j \in DOMAIN s : i < j /\ s[i] = a /\ s[j] = b

\* Any earlier element of s is related to any later one.
Ordered(s, R) == \A i, j \in DOMAIN s : i < j => <<s[i], s[j]>> \in R

\* What precedes, and what is preceded, is an element.
LEMMA PrecedesIn ==
    ASSUME NEW S, NEW s \in Seq(S), NEW a, NEW b, Precedes(s, a, b)
    PROVE  a \in ToSet(s) /\ b \in ToSet(s)
  BY ElementIndex DEF Precedes

\* In a sequence without repetition nothing precedes what precedes it.
LEMMA PrecedesOnce ==
    ASSUME NEW S, NEW s \in Seq(S), IsInjective(s), NEW a, NEW b, Precedes(s, a, b)
    PROVE  ~Precedes(s, b, a) /\ a # b
<1>1. /\ DOMAIN s = 1..Len(s) /\ Len(s) \in Nat
      /\ \A i, j \in 1..Len(s) : s[i] = s[j] => i = j
  BY ElementIndex DEF IsInjective
<1> QED
  BY <1>1 DEF Precedes

\* Append adds what is preceded by all the rest, and no other pair.
LEMMA PrecedesAppend ==
    ASSUME NEW S, NEW s \in Seq(S), NEW x \in S, NEW a, NEW b
    PROVE  Precedes(Append(s, x), a, b) <=> Precedes(s, a, b) \/ (a \in ToSet(s) /\ b = x)
<1> DEFINE t == Append(s, x)
<1>1. /\ DOMAIN s = 1..Len(s) /\ Len(s) \in Nat
      /\ DOMAIN t = 1..Len(s) + 1
      /\ \A i \in 1..Len(s) : t[i] = s[i]
      /\ t[Len(s) + 1] = x
      /\ a \in ToSet(s) <=> \E i \in 1..Len(s) : s[i] = a
  BY ElementIndex
<1> HIDE DEF t
<1>2. Precedes(t, a, b) => Precedes(s, a, b) \/ (a \in ToSet(s) /\ b = x)
  <2>1. SUFFICES ASSUME NEW i \in 1..Len(s) + 1, NEW j \in 1..Len(s) + 1,
                        i < j, t[i] = a, t[j] = b
                 PROVE  Precedes(s, a, b) \/ (a \in ToSet(s) /\ b = x)
    BY <1>1 DEF Precedes
  <2>2. i \in 1..Len(s) /\ (j \in 1..Len(s) \/ j = Len(s) + 1)
    BY <2>1, <1>1
  <2> QED
    BY <2>1, <2>2, <1>1 DEF Precedes
<1>3. Precedes(s, a, b) => Precedes(t, a, b)
  BY <1>1 DEF Precedes
<1>4. a \in ToSet(s) /\ b = x => Precedes(t, a, b)
  <2>1. ASSUME NEW i \in 1..Len(s), s[i] = a
        PROVE  i \in 1..Len(s) + 1 /\ Len(s) + 1 \in 1..Len(s) + 1 /\ i < Len(s) + 1
    BY <1>1
  <2> QED
    BY <2>1, <1>1 DEF Precedes
<1> QED
  BY <1>2, <1>3, <1>4 DEF t

\* Short sequences are ordered.
LEMMA OrderedShort ==
    ASSUME NEW R
    PROVE  Ordered(<<>>, R) /\ \A x : Ordered(<<x>>, R)
  BY DEF Ordered

\* The order that a sequence has it has in any relation that covers its elements.
LEMMA OrderedWithin ==
    ASSUME NEW S, NEW s \in Seq(S), NEW R, NEW T, Ordered(s, R),
           \A x, y \in ToSet(s) : <<x, y>> \in R => <<x, y>> \in T
    PROVE  Ordered(s, T)
  BY ElementIndex DEF Ordered

\* Append keeps the order if the new element comes after all others.
LEMMA OrderedAppend ==
    ASSUME NEW S, NEW s \in Seq(S), NEW x \in S, NEW R, Ordered(s, R),
           \A y \in ToSet(s) : <<y, x>> \in R
    PROVE  Ordered(Append(s, x), R)
<1> DEFINE t == Append(s, x)
<1>1. /\ DOMAIN s = 1..Len(s) /\ Len(s) \in Nat
      /\ DOMAIN t = 1..Len(s) + 1
      /\ \A i \in 1..Len(s) : t[i] = s[i] /\ s[i] \in ToSet(s)
      /\ t[Len(s) + 1] = x
  BY ElementIndex
<1> HIDE DEF t
<1>2. ASSUME NEW i \in 1..Len(s) + 1, NEW j \in 1..Len(s) + 1, i < j
      PROVE  <<t[i], t[j]>> \in R
  <2>1. i \in 1..Len(s) /\ (j \in 1..Len(s) \/ j = Len(s) + 1)
    BY <1>2, <1>1
  <2> QED
    BY <2>1, <1>1, <1>2 DEF Ordered
<1> QED
  BY <1>1, <1>2 DEF Ordered, t

\* The first element comes before all others, which keep their order.
LEMMA OrderedTail ==
    ASSUME NEW S, NEW s \in Seq(S), s # <<>>, NEW R, Ordered(s, R)
    PROVE  /\ Ordered(Tail(s), R)
           /\ \A y \in ToSet(Tail(s)) : <<Head(s), y>> \in R
<1> DEFINE t == Tail(s)
<1>1. /\ t \in Seq(S) /\ Len(t) = Len(s) - 1 /\ Len(s) \in Nat
      /\ \A i \in 1..Len(s) - 1 : t[i] = s[i + 1]
      /\ Head(s) = s[1] /\ Len(s) > 0
      /\ DOMAIN t = 1..Len(s) - 1 /\ DOMAIN s = 1..Len(s)
  BY TailElements, ElementIndex
<1> HIDE DEF t
<1>2. ASSUME NEW i \in DOMAIN t, NEW j \in DOMAIN t, i < j
      PROVE  <<t[i], t[j]>> \in R
  <2>1. /\ i + 1 \in 1..Len(s) /\ j + 1 \in 1..Len(s) /\ i + 1 < j + 1
        /\ t[i] = s[i + 1] /\ t[j] = s[j + 1]
    BY <1>1, <1>2
  <2> QED
    BY <2>1, <1>1 DEF Ordered
<1>3. ASSUME NEW y \in ToSet(t)
      PROVE  <<Head(s), y>> \in R
  <2>1. PICK i \in 1..Len(t) : t[i] = y
    BY <1>1, <1>3, ElementIndex
  <2>2. i + 1 \in 1..Len(s) /\ 1 \in 1..Len(s) /\ 1 < i + 1 /\ y = s[i + 1]
    BY <2>1, <1>1
  <2> QED
    BY <2>2, <1>1 DEF Ordered
<1> QED
  BY <1>2, <1>3 DEF t, Ordered

\* What is left without the last element keeps its order, and all of it came before.
LEMMA OrderedFront ==
    ASSUME NEW S, NEW s \in Seq(S), s # <<>>, NEW R, Ordered(s, R)
    PROVE  /\ Ordered(SubSeq(s, 1, Len(s) - 1), R)
           /\ s[Len(s)] \in ToSet(s)
           /\ \A y \in ToSet(SubSeq(s, 1, Len(s) - 1)) : <<y, s[Len(s)]>> \in R
           /\ ToSet(s) = ToSet(SubSeq(s, 1, Len(s) - 1)) \cup {s[Len(s)]}
<1>1. /\ Len(s) \in Nat \ {0} /\ DOMAIN s = 1..Len(s)
      /\ Front(s) \in Seq(S) /\ Len(Front(s)) = Len(s) - 1
      /\ \A k \in 1..Len(s) - 1 : Front(s)[k] = s[k]
  <2>1. DOMAIN s = 1..Len(s)
    OBVIOUS
  <2> QED
    BY <2>1, FrontLast
<1> DEFINE t == SubSeq(s, 1, Len(s) - 1)
<1>2. /\ t \in Seq(S) /\ Len(t) = Len(s) - 1 /\ DOMAIN t = 1..Len(s) - 1
      /\ \A k \in 1..Len(s) - 1 : t[k] = s[k]
  <2>1. t = Front(s)
    BY DEF Front
  <2>2. /\ t \in Seq(S) /\ Len(t) = Len(s) - 1
        /\ \A k \in 1..Len(s) - 1 : t[k] = s[k]
    BY <1>1, <2>1
  <2> HIDE DEF t
  <2> QED
    BY <2>2, ElementIndex
<1> HIDE DEF t
<1>3. Ordered(t, R)
  BY <1>1, <1>2 DEF Ordered
<1>4. s[Len(s)] \in ToSet(s)
  BY <1>1, ElementIndex
<1>5. ASSUME NEW y \in ToSet(t)
      PROVE  <<y, s[Len(s)]>> \in R /\ y \in ToSet(s)
  <2>1. PICK i \in 1..Len(t) : t[i] = y
    BY <1>2, <1>5, ElementIndex
  <2>2. i \in 1..Len(s) /\ Len(s) \in 1..Len(s) /\ i < Len(s) /\ y = s[i]
    BY <2>1, <1>1, <1>2
  <2> QED
    BY <2>2, <1>1, ElementIndex DEF Ordered
<1>6. ASSUME NEW y \in ToSet(s)
      PROVE  y \in ToSet(t) \cup {s[Len(s)]}
  <2>1. PICK i \in 1..Len(s) : s[i] = y
    BY <1>6, ElementIndex
  <2>2. i \in 1..Len(t) \/ i = Len(s)
    <3>1. Len(s) \in Nat /\ Len(t) = Len(s) - 1
      BY <1>1, <1>2
    <3> QED
      BY <3>1
  <2> QED
    BY <2>1, <2>2, <1>2, ElementIndex
<1> QED
  BY <1>3, <1>4, <1>5, <1>6 DEF t

\* Taking out one element keeps the order of the others, which are all there.
LEMMA OrderedRemoveAt ==
    ASSUME NEW S, NEW s \in Seq(S), NEW i \in 1..Len(s), NEW R, Ordered(s, R)
    PROVE  /\ Ordered(RemoveAt(s, i), R)
           /\ \A y \in ToSet(RemoveAt(s, i)) : <<s[i], y>> \in R \/ <<y, s[i]>> \in R
           /\ ToSet(s) = ToSet(RemoveAt(s, i)) \cup {s[i]}
<1> DEFINE t == RemoveAt(s, i)
           old(k) == IF k < i THEN k ELSE k + 1
<1>1. /\ Len(s) \in Nat /\ DOMAIN s = 1..Len(s)
      /\ t \in Seq(S) /\ Len(t) = Len(s) - 1 /\ DOMAIN t = 1..Len(s) - 1
      /\ \A k \in 1..Len(s) - 1 : t[k] = s[old(k)]
  <2> DEFINE a == SubSeq(s, 1, i - 1)
             b == SubSeq(s, i + 1, Len(s))
  <2>1. /\ a \in Seq(S) /\ Len(a) = i - 1
        /\ \A k \in 1..Len(a) : a[k] = s[k]
    OBVIOUS
  <2>2. /\ b \in Seq(S) /\ Len(b) = Len(s) - i
        /\ \A k \in 1..Len(b) : b[k] = s[i + k]
    OBVIOUS
  <2>3. t = a \o b
    BY DEF RemoveAt
  <2> HIDE DEF a, b, t
  <2>4. /\ t \in Seq(S)
        /\ Len(t) = Len(a) + Len(b)
        /\ \A k \in 1..Len(a) + Len(b) :
              t[k] = IF k <= Len(a) THEN a[k] ELSE b[k - Len(a)]
    BY <2>1, <2>2, <2>3, ConcatProperties
  <2>5. Len(s) \in Nat /\ DOMAIN s = 1..Len(s)
    BY ElementIndex
  <2>6. Len(t) = Len(s) - 1 /\ DOMAIN t = 1..Len(s) - 1
    BY <2>1, <2>2, <2>4, <2>5, ElementIndex
  <2>7. ASSUME NEW k \in 1..Len(s) - 1
        PROVE  t[k] = s[old(k)]
    <3>1. CASE k < i
      <4>1. k \in 1..Len(a) /\ k \in 1..Len(a) + Len(b) /\ k <= Len(a)
        BY <3>1, <2>1, <2>2, <2>5
      <4> QED
        BY <4>1, <3>1, <2>1, <2>4
    <3>2. CASE ~(k < i)
      <4>1. /\ k - Len(a) \in 1..Len(b) /\ k \in 1..Len(a) + Len(b)
            /\ ~(k <= Len(a)) /\ i + (k - Len(a)) = k + 1
        BY <3>2, <2>1, <2>2, <2>5
      <4>2. t[k] = b[k - Len(a)] /\ b[k - Len(a)] = s[i + (k - Len(a))]
        BY <4>1, <2>2, <2>4
      <4> QED
        BY <4>1, <4>2, <3>2
    <3> QED
      BY <3>1, <3>2
  <2> QED
    BY <2>4, <2>5, <2>6, <2>7 DEF t
<1>2. /\ \A k \in 1..Len(s) - 1 : old(k) \in 1..Len(s) /\ (old(k) < i \/ i < old(k))
      /\ \A j, k \in 1..Len(s) - 1 : j < k => old(j) < old(k)
      /\ \A k \in 1..Len(s) : k # i => \E j \in 1..Len(s) - 1 : old(j) = k
  <2>1. \A k \in 1..Len(s) : k # i =>
            IF k < i THEN k \in 1..Len(s) - 1 /\ old(k) = k
            ELSE k - 1 \in 1..Len(s) - 1 /\ old(k - 1) = k
    BY <1>1
  <2>2. \A k \in 1..Len(s) : k # i => \E j \in 1..Len(s) - 1 : old(j) = k
    BY <2>1
  <2>3. Len(s) \in Nat
    BY <1>1
  <2>4. \A k \in 1..Len(s) - 1 : old(k) \in 1..Len(s) /\ (old(k) < i \/ i < old(k))
    BY <2>3
  <2>5. \A j, k \in 1..Len(s) - 1 : j < k => old(j) < old(k)
    BY <2>3
  <2> QED
    BY <2>2, <2>4, <2>5
<1> HIDE DEF t, old
<1>3. Ordered(t, R)
  <2>1. ASSUME NEW j \in 1..Len(s) - 1, NEW k \in 1..Len(s) - 1, j < k
        PROVE  <<t[j], t[k]>> \in R
    <3>1. old(j) \in 1..Len(s) /\ old(k) \in 1..Len(s) /\ old(j) < old(k)
      BY <2>1, <1>2
    <3>2. t[j] = s[old(j)] /\ t[k] = s[old(k)]
      BY <1>1
    <3> QED
      BY <3>1, <3>2, <1>1 DEF Ordered
  <2> QED
    BY <2>1, <1>1 DEF Ordered
<1>4. ASSUME NEW y \in ToSet(t)
      PROVE  (<<s[i], y>> \in R \/ <<y, s[i]>> \in R) /\ y \in ToSet(s)
  <2>1. PICK k \in 1..Len(s) - 1 : t[k] = y
    BY <1>1, <1>4, ElementIndex
  <2>2. old(k) \in 1..Len(s) /\ y = s[old(k)] /\ (old(k) < i \/ i < old(k))
    BY <2>1, <1>1, <1>2
  <2> QED
    BY <2>2, <1>1, ElementIndex DEF Ordered
<1>5. ASSUME NEW y \in ToSet(s), y # s[i]
      PROVE  y \in ToSet(t)
  <2>1. PICK k \in 1..Len(s) : s[k] = y /\ k # i
    BY <1>5, ElementIndex
  <2>2. PICK j \in 1..Len(s) - 1 : old(j) = k
    BY <2>1, <1>2
  <2>3. t[j] = y /\ j \in 1..Len(t)
    BY <2>1, <2>2, <1>1
  <2> QED
    BY <2>3, <1>1, ElementIndex
<1>6. s[i] \in ToSet(s)
  BY ElementIndex
<1> QED
  BY <1>3, <1>4, <1>5, <1>6 DEF t
=============================================================================
