--------------------------- MODULE SelectionProofs ---------------------------
(***************************************************************************)
(* Induction over numbers and over sequences for sets, and with it what    *)
(* Selected is; and lemmas about two sequences, one after the other.  Cat  *)
(* is their concatenation under a name that the provers do not take apart. *)
(***************************************************************************)
EXTENDS Selection, SequenceTheorems, WellFoundedInduction, TLAPS

Less == {pair \in Nat \X Nat : pair[1] < pair[2]}

\* A set of numbers that is not empty has a least element.
LEMMA LeastElement ==
    ASSUME NEW T, T \subseteq Nat, T # {}
    PROVE  \E x \in T : \A y \in T : x <= y
<1>1. IsWellFoundedOn(Less, Nat)
    BY NatLessThanWellFounded, Zenon DEF OpToRel, Less
<1>2. PICK x \in T : \A y \in T : ~ (<<y, x>> \in Less)
    BY <1>1, WFMin
<1>3. ASSUME NEW y \in T
      PROVE  x <= y
    <2>1. <<y, x>> \in Nat \X Nat /\ <<y, x>> \notin Less
        BY <1>2
    <2>2. ~ (y < x)
        BY <2>1, Z3 DEF Less
    <2> QED
        BY <2>1, <2>2
<1> QED
    BY <1>3

\* Induction over the numbers, for a set of them instead of a predicate.
LEMMA SetInduction ==
    ASSUME NEW T, 0 \in T, \A n \in T \cap Nat : n + 1 \in T
    PROVE  Nat \subseteq T
<1> DEFINE D == Nat \ T
<1>1. SUFFICES ASSUME D # {} PROVE FALSE
    OBVIOUS
<1>2. PICK x \in D : \A y \in D : x <= y
    <2> D \subseteq Nat
        OBVIOUS
    <2> HIDE DEF D
    <2> QED
        BY <1>1, LeastElement
<1>3. x - 1 \in Nat /\ (x - 1) + 1 = x /\ ~ (x <= x - 1)
    <2> x # 0
        OBVIOUS
    <2> QED
        OBVIOUS
<1>4. x - 1 \in T
    BY <1>2, <1>3
<1> QED
    BY <1>3, <1>4

Selects(f, s, K) ==
    f = [i \in 0 .. Len(s) |->
            IF i = 0 THEN <<>>
            ELSE IF s[i] \in K THEN Append(f[i - 1], s[i]) ELSE f[i - 1]]

\* There is a function that selects, so that the definition by CHOOSE finds one.
LEMMA SelectionExists ==
    ASSUME NEW S, NEW K, NEW s \in Seq(S)
    PROVE  Selects(SelectedUpTo(s, K), s, K)
<1> DEFINE T == {n \in Nat : \A t \in Seq(S) : Len(t) = n => \E f : Selects(f, t, K)}
<1>1. 0 \in T
    <2> SUFFICES ASSUME NEW t \in Seq(S), Len(t) = 0
                 PROVE  \E f : Selects(f, t, K)
        OBVIOUS
    <2>1. Selects([i \in 0 .. 0 |-> <<>>], t, K)
        BY DEF Selects
    <2> QED
        BY <2>1
<1>2. ASSUME NEW n \in T \cap Nat
      PROVE  n + 1 \in T
    <2> SUFFICES ASSUME NEW t \in Seq(S), Len(t) = n + 1
                 PROVE  \E f : Selects(f, t, K)
        OBVIOUS
    <2> DEFINE u == SubSeq(t, 1, n)
    <2>1. u \in Seq(S) /\ Len(u) = n /\ \A i \in 1 .. n : u[i] = t[i]
        OBVIOUS
    <2>2. PICK f : Selects(f, u, K)
        BY <2>1
    <2> HIDE DEF u
    <2> DEFINE g == [i \in 0 .. n + 1 |->
                        IF i <= n THEN f[i]
                        ELSE IF t[n + 1] \in K THEN Append(f[n], t[n + 1]) ELSE f[n]]
    <2>3. Selects(g, t, K)
        <3>1. ASSUME NEW i \in 0 .. n + 1
              PROVE  g[i] = IF i = 0 THEN <<>>
                            ELSE IF t[i] \in K THEN Append(g[i - 1], t[i]) ELSE g[i - 1]
            <4>1. CASE i = 0
                BY <4>1, <2>1, <2>2 DEF Selects
            <4>2. CASE i \in 1 .. n
                <5>1. i \in 0 .. Len(u) /\ i # 0 /\ i - 1 \in 0 .. n
                    BY <4>2, <2>1
                <5>2. f[i] = IF u[i] \in K THEN Append(f[i - 1], u[i]) ELSE f[i - 1]
                    BY <5>1, <2>2 DEF Selects
                <5> QED
                    BY <4>2, <5>1, <5>2, <2>1
            <4>3. CASE i = n + 1
                BY <4>3
            <4> QED
                BY <4>1, <4>2, <4>3
        <3> QED
            BY <3>1 DEF Selects
    <2> QED
        BY <2>3
<1>3. Len(s) \in T
    <2> HIDE DEF T
    <2> QED
        BY <1>1, <1>2, SetInduction
<1>4. \E f : Selects(f, s, K)
    BY <1>3
<1> QED
    BY <1>4, Zenon DEF SelectedUpTo, Selects

\* Nothing selected of nothing.
LEMMA SelectedOfNone ==
    ASSUME NEW K
    PROVE  Selected(<<>>, K) = <<>>
<1>1. <<>> \in Seq({})
    OBVIOUS
<1>2. Selects(SelectedUpTo(<<>>, K), <<>>, K)
    BY <1>1, SelectionExists
<1> QED
    BY <1>2 DEF Selects, Selected

\* One more element is selected if it is one of the set, and is the last then.
LEMMA SelectedAppend ==
    ASSUME NEW S, NEW K, NEW s \in Seq(S), NEW x \in S
    PROVE  Selected(Append(s, x), K) =
               IF x \in K THEN Append(Selected(s, K), x) ELSE Selected(s, K)
<1> DEFINE t == Append(s, x)
           f == SelectedUpTo(s, K)
           g == SelectedUpTo(t, K)
           T == {n \in Nat : n <= Len(s) => f[n] = g[n]}
<1>1. t \in Seq(S) /\ Len(t) = Len(s) + 1 /\ t[Len(t)] = x
         /\ \A i \in 1 .. Len(s) : t[i] = s[i]
    OBVIOUS
<1>2. Selects(f, s, K) /\ Selects(g, t, K)
    BY <1>1, SelectionExists
<1> HIDE DEF f, g, t
<1>3. 0 \in T
    BY <1>1, <1>2 DEF Selects
<1>4. ASSUME NEW n \in T \cap Nat
      PROVE  n + 1 \in T
    <2> SUFFICES ASSUME n + 1 <= Len(s)
                 PROVE  f[n + 1] = g[n + 1]
        OBVIOUS
    <2>1. n + 1 \in 0 .. Len(s) /\ n + 1 \in 0 .. Len(t) /\ (n + 1) - 1 = n /\ n + 1 # 0
        BY <1>1
    <2>2. f[n] = g[n] /\ s[n + 1] = t[n + 1]
        BY <1>1, <2>1
    <2>3. f[n + 1] = IF s[n + 1] \in K THEN Append(f[n], s[n + 1]) ELSE f[n]
        BY <1>2, <2>1 DEF Selects
    <2>4. g[n + 1] = IF t[n + 1] \in K THEN Append(g[n], t[n + 1]) ELSE g[n]
        BY <1>2, <2>1 DEF Selects
    <2> QED
        BY <2>2, <2>3, <2>4
<1>5. Len(s) \in T
    <2> HIDE DEF T
    <2> QED
        BY <1>3, <1>4, SetInduction
<1>6. g[Len(t)] = IF x \in K THEN Append(g[Len(s)], x) ELSE g[Len(s)]
    <2>1. Len(t) \in 0 .. Len(t) /\ Len(t) - 1 = Len(s) /\ Len(t) # 0
        BY <1>1
    <2> QED
        BY <1>1, <1>2, <2>1 DEF Selects
<1> QED
    BY <1>5, <1>6 DEF Selected, f, g, t

\* Induction over sequences, for a set of them.
LEMMA SequenceInduction ==
    ASSUME NEW S, NEW T, <<>> \in T,
           \A s \in T \cap Seq(S), x \in S : Append(s, x) \in T
    PROVE  Seq(S) \subseteq T
<1> DEFINE L == {n \in Nat : \A s \in Seq(S) : Len(s) = n => s \in T}
<1>1. 0 \in L
    <2>1. \A s \in Seq(S) : Len(s) = 0 => s = <<>>
        OBVIOUS
    <2> QED
        BY <2>1
<1>2. ASSUME NEW n \in L \cap Nat
      PROVE  n + 1 \in L
    <2> SUFFICES ASSUME NEW s \in Seq(S), Len(s) = n + 1
                 PROVE  s \in T
        OBVIOUS
    <2> DEFINE t == SubSeq(s, 1, n)
    <2>1. t \in Seq(S) /\ Len(t) = n /\ s[n + 1] \in S
        OBVIOUS
    <2>2. s = Append(t, s[n + 1])
        OBVIOUS
    <2>3. t \in T
        BY <2>1
    <2> HIDE DEF t
    <2> QED
        BY <2>1, <2>2, <2>3
<1>3. Nat \subseteq L
    <2> HIDE DEF L
    <2> QED
        BY <1>1, <1>2, SetInduction
<1> QED
    BY <1>3

\* What is selected are elements of the set, and of what the sequence is made of.
LEMMA SelectedType ==
    ASSUME NEW S, NEW K, NEW s \in Seq(S)
    PROVE  Selected(s, K) \in Seq(S \cap K)
<1> DEFINE T == {t \in Seq(S) : Selected(t, K) \in Seq(S \cap K)}
<1>1. <<>> \in T
    <2>1. <<>> \in Seq(S) /\ <<>> \in Seq(S \cap K)
        OBVIOUS
    <2> QED
        BY <2>1, SelectedOfNone
<1>2. ASSUME NEW t \in T \cap Seq(S), NEW x \in S
      PROVE  Append(t, x) \in T
    <2>1. Selected(Append(t, x), K) =
            IF x \in K THEN Append(Selected(t, K), x) ELSE Selected(t, K)
        BY SelectedAppend
    <2>2. Selected(t, K) \in Seq(S \cap K)
        OBVIOUS
    <2>3. x \in K => Append(Selected(t, K), x) \in Seq(S \cap K)
        BY <2>2
    <2>4. Append(t, x) \in Seq(S)
        OBVIOUS
    <2> QED
        BY <2>1, <2>2, <2>3, <2>4
<1> HIDE DEF T
<1>3. s \in T
    BY <1>1, <1>2, SequenceInduction
<1> QED
    BY <1>3 DEF T

\* An element more at the end of the second of two sequences.
LEMMA AppendToConcat ==
    ASSUME NEW S, NEW s \in Seq(S), NEW t \in Seq(S), NEW x \in S
    PROVE  s \o Append(t, x) = Append(s \o t, x)
OBVIOUS

\* What is selected of two sequences is selected of each.
LEMMA SelectedConcat ==
    ASSUME NEW S, NEW K, NEW s \in Seq(S), NEW t \in Seq(S)
    PROVE  Selected(s \o t, K) = Selected(s, K) \o Selected(t, K)
<1> DEFINE T == {u \in Seq(S) : Selected(s \o u, K) = Selected(s, K) \o Selected(u, K)}
<1>1. <<>> \in T
    <2>1. <<>> \in Seq(S) /\ s \o <<>> = s
        OBVIOUS
    <2>2. Selected(s, K) \in Seq(S \cap K)
        BY SelectedType
    <2>3. Selected(s, K) \o <<>> = Selected(s, K)
        BY <2>2
    <2>4. Selected(<<>>, K) = <<>>
        BY SelectedOfNone
    <2> QED
        BY <2>1, <2>3, <2>4
<1>2. ASSUME NEW u \in T \cap Seq(S), NEW x \in S
      PROVE  Append(u, x) \in T
    <2> DEFINE v == s \o u
               a == Selected(s, K)
               b == Selected(u, K)
    <2>1. u \in Seq(S) /\ v \in Seq(S) /\ Append(u, x) \in Seq(S)
        OBVIOUS
    <2>2. s \o Append(u, x) = Append(v, x)
        BY <2>1, AppendToConcat
    <2>3. Selected(v, K) = a \o b
        OBVIOUS
    <2> HIDE DEF T, v
    <2>4. Selected(Append(v, x), K) = IF x \in K THEN Append(Selected(v, K), x) ELSE Selected(v, K)
        BY <2>1, SelectedAppend
    <2>5. Selected(Append(u, x), K) = IF x \in K THEN Append(b, x) ELSE b
        BY <2>1, SelectedAppend
    <2>6. a \in Seq(S \cap K) /\ b \in Seq(S \cap K)
        BY <2>1, SelectedType
    <2> HIDE DEF a, b
    <2>7. x \in K => a \o Append(b, x) = Append(a \o b, x)
        BY <2>6, AppendToConcat
    <2>8. Selected(s \o Append(u, x), K) = a \o Selected(Append(u, x), K)
        BY <2>2, <2>3, <2>4, <2>5, <2>7
    <2> QED
        BY <2>1, <2>8 DEF T, a
<1> HIDE DEF T
<1>3. t \in T
    BY <1>1, <1>2, SequenceInduction
<1> QED
    BY <1>3 DEF T

Cat(s, t) == s \o t

\* Two sequences, one after the other, are a sequence.
LEMMA CatType ==
    \A S : \A s, t \in Seq(S) : Cat(s, t) \in Seq(S)
BY DEF Cat

\* However they are grouped.
LEMMA CatAssoc ==
    \A S : \A s, t, u \in Seq(S) : Cat(Cat(s, t), u) = Cat(s, Cat(t, u))
<1>1. SUFFICES ASSUME NEW S, NEW s \in Seq(S), NEW t \in Seq(S), NEW u \in Seq(S)
      PROVE (s \o t) \o u = s \o (t \o u)
  BY DEF Cat
<1> QED BY ConcatAssociative

\* The first of two sequences has the head.
LEMMA FirstOfCat ==
    \A S : \A s, t \in Seq(S) :
        s # <<>> => Cat(s, t) # <<>> /\ Head(Cat(s, t)) = Head(s) /\ Tail(Cat(s, t)) = Cat(Tail(s), t)
<1> SUFFICES ASSUME NEW S, NEW s \in Seq(S), NEW t \in Seq(S), s # <<>>
             PROVE  s \o t # <<>> /\ Head(s \o t) = Head(s) /\ Tail(s \o t) = Tail(s) \o t
    BY DEF Cat
<1>1. Len(s) \in Nat /\ Len(s) > 0 /\ Len(t) \in Nat
    OBVIOUS
<1>2. s \o t \in Seq(S) /\ s \o t # <<>> /\ Head(s \o t) = Head(s)
    BY <1>1
<1>3. Tail(s \o t) = Tail(s) \o t
    <2> DEFINE u == Tail(s \o t)
               v == Tail(s) \o t
    <2>1. /\ Tail(s) \in Seq(S) /\ Len(Tail(s)) = Len(s) - 1
          /\ \A i \in 1 .. Len(Tail(s)) : Tail(s)[i] = s[i + 1]
        BY HeadTailProperties
    <2>2. /\ s \o t \in Seq(S) /\ Len(s \o t) = Len(s) + Len(t)
          /\ \A i \in 1 .. Len(s) + Len(t) : (s \o t)[i] = IF i <= Len(s) THEN s[i] ELSE t[i - Len(s)]
        BY ConcatProperties
    <2>3. /\ u \in Seq(S) /\ Len(u) = Len(s) + Len(t) - 1
          /\ \A i \in 1 .. Len(u) : u[i] = (s \o t)[i + 1]
        BY <1>2, <2>2, HeadTailProperties
    <2>4. /\ v \in Seq(S) /\ Len(v) = Len(s) - 1 + Len(t)
          /\ \A i \in 1 .. Len(v) : v[i] = IF i <= Len(s) - 1 THEN s[i + 1] ELSE t[i - (Len(s) - 1)]
        BY <1>1, <2>1, ConcatProperties
    <2> HIDE DEF u, v
    <2>5. \A i \in 1 .. Len(u) : u[i] = v[i]
        BY <1>1, <2>2, <2>3, <2>4
    <2>6. Len(u) = Len(v)
        BY <1>1, <2>3, <2>4
    <2>7. u = v
        BY <2>3, <2>4, <2>5, <2>6, SeqEqual
    <2> QED
        BY <2>7 DEF u, v
<1> QED
    BY <1>2, <1>3

Starts(s, t) == Len(s) <= Len(t) /\ SubSeq(s, 1, Len(s)) = SubSeq(t, 1, Len(s))

\* It is the beginning of both.
LEMMA PrefixOfCat ==
    \A S : \A s, t \in Seq(S) : Starts(s, Cat(s, t))
<1> SUFFICES ASSUME NEW S, NEW s \in Seq(S), NEW t \in Seq(S)
             PROVE  Len(s) <= Len(s \o t) /\ SubSeq(s, 1, Len(s)) = SubSeq(s \o t, 1, Len(s))
    BY DEF Cat, Starts
<1>1. s \o t \in Seq(S) /\ Len(s \o t) = Len(s) + Len(t) /\ Len(s) \in Nat /\ Len(t) \in Nat
    OBVIOUS
<1>2. CASE s = <<>>
    BY <1>1, <1>2, SubSeqEmpty
<1>3. CASE s # <<>>
    <2>1. 1 \in 1 .. Len(s) /\ Len(s) \in 1 .. Len(s)
        BY <1>3, <1>1
    <2> QED
        BY <1>1, <2>1, SubSeqOfConcat1
<1> QED
    BY <1>1, <1>2, <1>3

\* An element more at the end.
LEMMA CatAppend ==
    \A S : \A s, t \in Seq(S), x \in S : Cat(s, Append(t, x)) = Append(Cat(s, t), x)
BY DEF Cat

\* Nothing before, nothing after.
LEMMA CatNothing ==
    \A S : \A s \in Seq(S) : Cat(s, <<>>) = s /\ Cat(<<>>, s) = s
BY DEF Cat

\* reading the head from the right and appending to the left
LEMMA CatMoves ==
    \A S : \A s, t \in Seq(S) :
        t # <<>> => Cat(Append(s, Head(t)), Tail(t)) = Cat(s, t)
<1> SUFFICES ASSUME NEW S, NEW s \in Seq(S), NEW t \in Seq(S), t # <<>>
             PROVE  Cat(Append(s, Head(t)), Tail(t)) = Cat(s, t)
    OBVIOUS
<1> DEFINE h == <<Head(t)>>
           r == Tail(t)
<1>1. Head(t) \in S /\ h \in Seq(S) /\ r \in Seq(S)
    OBVIOUS
<1>2. t = Cat(h, r)
    BY DEF Cat
<1>3. Append(s, Head(t)) = Cat(s, h)
    BY AppendIsConcat DEF Cat
<1> HIDE DEF h, r
<1>4. Cat(Cat(s, h), r) = Cat(s, Cat(h, r))
    BY <1>1, CatAssoc
<1> QED
    BY <1>2, <1>3, <1>4 DEF r

\* SelectedConcat, for Cat.
LEMMA SelectedCat ==
    \A S, K : \A s, t \in Seq(S) : Selected(Cat(s, t), K) = Cat(Selected(s, K), Selected(t, K))
BY SelectedConcat DEF Cat

\* A sequence of one element.
LEMMA SelectedOne ==
    \A S, K : \A x \in S : Selected(<<x>>, K) = IF x \in K THEN <<x>> ELSE <<>>
<1> SUFFICES ASSUME NEW S, NEW K, NEW x \in S
             PROVE  Selected(<<x>>, K) = IF x \in K THEN <<x>> ELSE <<>>
    OBVIOUS
<1> DEFINE none == <<>>
<1>1. none \in Seq(S) /\ Append(none, x) = <<x>>
    OBVIOUS
<1>2. Selected(none, K) = none
    BY SelectedOfNone
<1> HIDE DEF none
<1>3. \A s \in Seq(S) :
        Selected(Append(s, x), K) = IF x \in K THEN Append(Selected(s, K), x) ELSE Selected(s, K)
    BY SelectedAppend
<1>4. Selected(Append(none, x), K) = IF x \in K THEN Append(Selected(none, K), x) ELSE Selected(none, K)
    BY <1>1, <1>3, Zenon
<1>5. Selected(<<x>>, K) = IF x \in K THEN <<x>> ELSE none
    BY <1>1, <1>2, <1>4, Zenon
<1> QED
    BY <1>5 DEF none

\* A sequence falls into what is before a place and what is after it.
LEMMA SplitAt ==
    \A S : \A s \in Seq(S) : \A k \in 1 .. Len(s) :
        s = Cat(SubSeq(s, 1, k), SubSeq(s, k + 1, Len(s)))
<1> SUFFICES ASSUME NEW S, NEW s \in Seq(S), NEW k \in 1 .. Len(s)
             PROVE  s = SubSeq(s, 1, k) \o SubSeq(s, k + 1, Len(s))
    BY DEF Cat
<1>1. Len(s) \in Nat /\ 1 \in 1 .. Len(s) + 1 /\ k \in 1 - 1 .. Len(s) /\ Len(s) \in k .. Len(s)
    OBVIOUS
<1>2. SubSeq(s, 1, k) \o SubSeq(s, k + 1, Len(s)) = SubSeq(s, 1, Len(s))
    BY <1>1, ConcatAdjacentSubSeq
<1> QED
    BY <1>2, SubSeqFull

\* A head and a tail are all of a sequence.
LEMMA HeadAndTail ==
    \A S : \A s \in Seq(S) : s # <<>> =>
        /\ Head(s) \in S /\ Tail(s) \in Seq(S) /\ <<Head(s)>> \in Seq(S) /\ s = Cat(<<Head(s)>>, Tail(s))
BY DEF Cat

\* f tells, of each place of what is selected, the place it was taken from.
Takes(f, s, K) ==
    /\ f \in [1 .. Len(Selected(s, K)) -> 1 .. Len(s)]
    /\ \A i, j \in 1 .. Len(Selected(s, K)) : i < j => f[i] < f[j]
    /\ \A i \in 1 .. Len(Selected(s, K)) : Selected(s, K)[i] = s[f[i]] /\ s[f[i]] \in K
    /\ \A k \in 1 .. Len(s) : s[k] \in K => \E i \in 1 .. Len(Selected(s, K)) : f[i] = k

\* What is selected is in the order of the sequence, and all there is of the set.
LEMMA SelectedTakes ==
    ASSUME NEW S, NEW K, NEW s \in Seq(S)
    PROVE  \E f : Takes(f, s, K)
<1> DEFINE T == {t \in Seq(S) : \E f : Takes(f, t, K)}
<1>1. <<>> \in T
    <2> DEFINE none == <<>>
    <2>1. none \in Seq(S) /\ Len(none) = 0
        OBVIOUS
    <2>2. Selected(none, K) = none
        BY SelectedOfNone
    <2> DEFINE f == [i \in 1 .. 0 |-> 1]
    <2>3. f \in [1 .. 0 -> 1 .. 0]
        OBVIOUS
    <2> HIDE DEF none, f
    <2>4. Takes(f, none, K)
        BY <2>1, <2>2, <2>3 DEF Takes
    <2> QED
        BY <2>1, <2>4 DEF none
<1>2. ASSUME NEW t \in T \cap Seq(S), NEW x \in S
      PROVE  Append(t, x) \in T
    <2> DEFINE a == Selected(t, K)
               u == Append(t, x)
               b == Selected(u, K)
               n == Len(a)
    <2>1. t \in Seq(S) /\ u \in Seq(S) /\ Len(u) = Len(t) + 1 /\ u[Len(u)] = x
             /\ \A i \in 1 .. Len(t) : u[i] = t[i]
        OBVIOUS
    <2>2. b = IF x \in K THEN Append(a, x) ELSE a
        BY SelectedAppend
    <2>a. a \in Seq(S \cap K)
        BY <2>1, SelectedType
    <2>3. a \in Seq(S \cap K) /\ n \in Nat /\ Len(t) \in Nat
        <3> HIDE DEF a
        <3> QED
            BY <2>a, <2>1
    <2>4. PICK f : Takes(f, t, K)
        OBVIOUS
    <2>5. /\ f \in [1 .. n -> 1 .. Len(t)]
          /\ \A i, j \in 1 .. n : i < j => f[i] < f[j]
          /\ \A i \in 1 .. n : a[i] = t[f[i]] /\ t[f[i]] \in K
          /\ \A k \in 1 .. Len(t) : t[k] \in K => \E i \in 1 .. n : f[i] = k
        BY <2>4 DEF Takes
    <2> HIDE DEF u, b, n, a
    <2>6. CASE x \notin K
        <3>1. b = a
            BY <2>2, <2>6
        <3>2. Len(b) = n /\ f \in [1 .. n -> 1 .. Len(u)]
            BY <2>1, <2>3, <2>5, <3>1 DEF n
        <3>3. \A i \in 1 .. n : b[i] = u[f[i]] /\ u[f[i]] \in K
            <4> SUFFICES ASSUME NEW i \in 1 .. n
                         PROVE  b[i] = u[f[i]] /\ u[f[i]] \in K
                OBVIOUS
            <4>1. f[i] \in 1 .. Len(t)
                BY <2>5
            <4> QED
                BY <2>1, <2>5, <3>1, <4>1
        <3>4. \A k \in 1 .. Len(u) : u[k] \in K => \E i \in 1 .. n : f[i] = k
            <4> SUFFICES ASSUME NEW k \in 1 .. Len(u), u[k] \in K
                         PROVE  \E i \in 1 .. n : f[i] = k
                OBVIOUS
            <4>1. k \in 1 .. Len(t) /\ t[k] \in K
                BY <2>1, <2>3, <2>6
            <4> QED
                BY <2>5, <4>1
        <3>5. Takes(f, u, K)
            BY <2>5, <3>2, <3>3, <3>4 DEF Takes, b
        <3> QED
            BY <2>1, <3>5 DEF u
    <2>7. CASE x \in K
        <3> DEFINE g == [i \in 1 .. n + 1 |-> IF i <= n THEN f[i] ELSE Len(t) + 1]
        <3>1. Len(b) = n + 1 /\ b[n + 1] = x /\ \A i \in 1 .. n : b[i] = a[i]
            BY <2>2, <2>3, <2>7 DEF n
        <3>2. g \in [1 .. n + 1 -> 1 .. Len(u)]
            BY <2>1, <2>3, <2>5
        <3>3. \A i, j \in 1 .. n + 1 : i < j => g[i] < g[j]
            BY <2>1, <2>3, <2>5
        <3>4. \A i \in 1 .. n + 1 : b[i] = u[g[i]] /\ u[g[i]] \in K
            <4> SUFFICES ASSUME NEW i \in 1 .. n + 1
                         PROVE  b[i] = u[g[i]] /\ u[g[i]] \in K
                OBVIOUS
            <4>1. CASE i = n + 1
                BY <2>1, <2>3, <2>7, <3>1, <4>1
            <4>2. CASE i \in 1 .. n
                <5>1. f[i] \in 1 .. Len(t) /\ g[i] = f[i]
                    BY <2>3, <2>5, <4>2
                <5> QED
                    BY <2>1, <2>5, <3>1, <4>2, <5>1
            <4> QED
                BY <2>3, <4>1, <4>2
        <3>5. \A k \in 1 .. Len(u) : u[k] \in K => \E i \in 1 .. n + 1 : g[i] = k
            <4> SUFFICES ASSUME NEW k \in 1 .. Len(u), u[k] \in K
                         PROVE  \E i \in 1 .. n + 1 : g[i] = k
                OBVIOUS
            <4>1. CASE k = Len(u)
                <5>1. n + 1 \in 1 .. n + 1 /\ g[n + 1] = k
                    BY <2>1, <2>3, <4>1
                <5> QED
                    BY <5>1
            <4>2. CASE k \in 1 .. Len(t)
                <5>1. PICK i \in 1 .. n : f[i] = k
                    BY <2>1, <2>5, <4>2
                <5>2. i \in 1 .. n + 1 /\ g[i] = k
                    BY <2>3, <5>1
                <5> QED
                    BY <5>2
            <4> QED
                BY <2>1, <2>3, <4>1, <4>2
        <3> HIDE DEF g
        <3>6. Takes(g, u, K)
            BY <3>1, <3>2, <3>3, <3>4, <3>5 DEF Takes, b
        <3> QED
            BY <2>1, <3>6 DEF u
    <2> QED
        BY <2>6, <2>7
<1> HIDE DEF T
<1>3. s \in T
    BY <1>1, <1>2, SequenceInduction
<1> QED
    BY <1>3 DEF T

\* Where the elements of two sequences, one after the other, come from.
LEMMA ConcatIs ==
    ASSUME NEW S, NEW s \in Seq(S), NEW t \in Seq(S)
    PROVE  /\ s \o t \in Seq(S) /\ Len(s) \in Nat /\ Len(t) \in Nat /\ Len(s \o t) = Len(s) + Len(t)
           /\ \A i \in 1 .. Len(s) : (s \o t)[i] = s[i]
           /\ \A j \in 1 .. Len(t) : (s \o t)[Len(s) + j] = t[j]
           /\ \A i \in 1 .. Len(s \o t) : i \in 1 .. Len(s) \/ \E j \in 1 .. Len(t) : i = Len(s) + j
<1>1. Len(s) \in Nat /\ Len(t) \in Nat /\ s \o t \in Seq(S) /\ Len(s \o t) = Len(s) + Len(t)
    BY ConcatProperties
<1>2. \A i \in 1 .. Len(s) + Len(t) : (s \o t)[i] = IF i <= Len(s) THEN s[i] ELSE t[i - Len(s)]
    BY ConcatProperties
<1>3. \A i \in 1 .. Len(s) : (s \o t)[i] = s[i]
    BY <1>1, <1>2
<1>4. ASSUME NEW j \in 1 .. Len(t)
      PROVE  (s \o t)[Len(s) + j] = t[j]
    <2>1. Len(s) + j \in 1 .. Len(s) + Len(t) /\ ~ (Len(s) + j <= Len(s)) /\ Len(s) + j - Len(s) = j
        BY <1>1
    <2> QED
        BY <1>2, <2>1
<1>5. ASSUME NEW i \in 1 .. Len(s \o t), i \notin 1 .. Len(s)
      PROVE  \E j \in 1 .. Len(t) : i = Len(s) + j
    <2>1. i - Len(s) \in 1 .. Len(t) /\ i = Len(s) + (i - Len(s))
        BY <1>1, <1>5
    <2> QED
        BY <2>1
<1> QED
    BY <1>1, <1>3, <1>4, <1>5
==============================================================================
