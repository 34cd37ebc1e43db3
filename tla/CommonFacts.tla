---------------------------- MODULE CommonFacts ----------------------------
(***************************************************************************)
(* What several proofs need of sequences of numbers, of induction and of   *)
(* arithmetic.  The prover's own concatenation is opened as little as      *)
(* possible: Then stands for it, and the proofs follow what happens to     *)
(* frames and packets on their way with these lemmas alone.                *)
(***************************************************************************)
EXTENDS Integers, Sequences, SequenceTheorems, WellFoundedInduction, TLAPS

\* Concatenation, its definition out of the provers' sight.
Then(s, t) == s \o t

\* Concatenation is associative.
LEMMA ThenAssociative ==
  ASSUME NEW s \in Seq(Nat), NEW t \in Seq(Nat), NEW u \in Seq(Nat)
  PROVE  Then(Then(s, t), u) = Then(s, Then(t, u))
BY ConcatAssociative, SMTT(20) DEF Then

\* Concatenating nothing changes nothing.
LEMMA ThenEmpty ==
  ASSUME NEW s \in Seq(Nat)
  PROVE  Then(s, << >>) = s /\ Then(<< >>, s) = s
BY ConcatEmptySeq DEF Then

\* Two sequences of naturals, one after the other.
LEMMA ThenProperties ==
  ASSUME NEW s \in Seq(Nat), NEW t \in Seq(Nat)
  PROVE  /\ Then(s, t) \in Seq(Nat)
         /\ Len(Then(s, t)) = Len(s) + Len(t)
         /\ \A i \in 1..Len(s) : Then(s, t)[i] = s[i]
         /\ \A i \in 1..Len(t) : Then(s, t)[Len(s) + i] = t[i]
<1>1. /\ Then(s, t) \in Seq(Nat)
      /\ Len(Then(s, t)) = Len(s) + Len(t)
      /\ \A i \in 1 .. Len(s) + Len(t) :
           Then(s, t)[i] = IF i <= Len(s) THEN s[i] ELSE t[i - Len(s)]
  BY ConcatProperties DEF Then
<1>2. Len(s) \in Nat /\ Len(t) \in Nat
  OBVIOUS
<1>3. ASSUME NEW i \in 1..Len(t) PROVE Then(s, t)[Len(s) + i] = t[i]
  <2>1. /\ Len(s) + i \in 1 .. Len(s) + Len(t)
        /\ ~ (Len(s) + i <= Len(s))
        /\ (Len(s) + i) - Len(s) = i
    BY <1>2
  <2>2. QED
    BY <1>1, <2>1
<1>4. ASSUME NEW i \in 1..Len(s) PROVE Then(s, t)[i] = s[i]
  BY <1>1, <1>2
<1>5. QED
  BY <1>1, <1>3, <1>4

\* Appending an element is concatenating it.
LEMMA AppendThen ==
  ASSUME NEW s \in Seq(Nat), NEW x \in Nat
  PROVE  Append(s, x) = Then(s, <<x>>)
BY AppendIsConcat DEF Then

\* A sequence is its head and its tail.
LEMMA HeadThenTail ==
  ASSUME NEW s \in Seq(Nat), s # << >>
  PROVE  /\ Head(s) \in Nat
         /\ Tail(s) \in Seq(Nat)
         /\ s = Then(<<Head(s)>>, Tail(s))
<1>1. /\ Head(s) = s[1] /\ s[1] \in Nat
      /\ Tail(s) \in Seq(Nat)
      /\ Len(Tail(s)) = Len(s) - 1
      /\ \A i \in 1..Len(Tail(s)) : Tail(s)[i] = s[i + 1]
  BY HeadTailProperties
<1> DEFINE t == Tail(s)
           h == <<Head(s)>>
<1>2. h \in Seq(Nat) /\ Len(h) = 1 /\ h[1] = s[1]
  BY <1>1
<1> HIDE DEF t, h
<1>3. /\ Then(h, t) \in Seq(Nat)
      /\ Len(Then(h, t)) = Len(h) + Len(t)
      /\ \A i \in 1..Len(h) : Then(h, t)[i] = h[i]
      /\ \A i \in 1..Len(t) : Then(h, t)[Len(h) + i] = t[i]
  BY <1>1, <1>2, ThenProperties DEF t
<1>4. Len(s) \in Nat
  OBVIOUS
<1>5. Len(Then(h, t)) = Len(s)
  BY <1>1, <1>2, <1>3, <1>4 DEF t
<1>6. ASSUME NEW i \in 1..Len(s) PROVE Then(h, t)[i] = s[i]
  <2>1. CASE i = 1
    BY <1>2, <1>3, <2>1
  <2>2. CASE i # 1
    <3>1. i - 1 \in 1..Len(t) /\ 1 + (i - 1) = i /\ (i - 1) + 1 = i
      BY <1>1, <1>4, <2>2 DEF t
    <3>2. Then(h, t)[1 + (i - 1)] = t[i - 1] /\ t[i - 1] = s[(i - 1) + 1]
      BY <1>1, <1>2, <1>3, <3>1 DEF t
    <3>3. QED
      BY <3>1, <3>2
  <2>3. QED
    BY <2>1, <2>2
<1>7. s = Then(h, t)
  BY <1>3, <1>5, <1>6, SeqEqual
<1>8. QED
  BY <1>1, <1>7 DEF t, h

\* A sequence is its first n elements and the others.
LEMMA SplitAt ==
  ASSUME NEW s \in Seq(Nat), NEW n \in 0..Len(s)
  PROVE  /\ SubSeq(s, 1, n) \in Seq(Nat)
         /\ Len(SubSeq(s, 1, n)) = n
         /\ SubSeq(s, n + 1, Len(s)) \in Seq(Nat)
         /\ Len(SubSeq(s, n + 1, Len(s))) = Len(s) - n
         /\ Then(SubSeq(s, 1, n), SubSeq(s, n + 1, Len(s))) = s
<1>1. /\ 1 \in 1..Len(s) + 1 /\ n \in 1 - 1..Len(s) /\ Len(s) \in n..Len(s)
      /\ Len(s) \in Nat /\ n \in Int /\ n + 1 \in Int
  OBVIOUS
<1>2. SubSeq(s, 1, n) \o SubSeq(s, n + 1, Len(s)) = SubSeq(s, 1, Len(s))
  BY <1>1, ConcatAdjacentSubSeq
<1>3. SubSeq(s, 1, Len(s)) = s
  BY SubSeqFull
<1>4. \A i \in 1..Len(s) : s[i] \in Nat
  OBVIOUS
<1>5. \A i \in 1..n : s[i] \in Nat
  BY <1>4
<1>6. \A i \in (n + 1)..Len(s) : s[i] \in Nat
  BY <1>4
<1>7. /\ SubSeq(s, 1, n) \in Seq(Nat)
      /\ Len(SubSeq(s, 1, n)) = IF 1 <= n THEN n - 1 + 1 ELSE 0
  BY <1>1, <1>5, SubSeqProperties
<1>8. /\ SubSeq(s, n + 1, Len(s)) \in Seq(Nat)
      /\ Len(SubSeq(s, n + 1, Len(s))) =
           IF n + 1 <= Len(s) THEN Len(s) - (n + 1) + 1 ELSE 0
  BY <1>1, <1>6, SubSeqProperties
<1>9. Len(SubSeq(s, 1, n)) = n
  BY <1>7
<1>10. Len(SubSeq(s, n + 1, Len(s))) = Len(s) - n
  BY <1>1, <1>8
<1>11. Then(SubSeq(s, 1, n), SubSeq(s, n + 1, Len(s))) = s
  BY <1>2, <1>3, Zenon DEF Then
<1>12. QED
  BY <1>7, <1>8, <1>9, <1>10, <1>11

\* Two sequences concatenated are taken apart again.
LEMMA ThenParts ==
  ASSUME NEW s \in Seq(Nat), NEW t \in Seq(Nat)
  PROVE  /\ SubSeq(Then(s, t), 1, Len(s)) = s
         /\ SubSeq(Then(s, t), Len(s) + 1, Len(Then(s, t))) = t
<1> DEFINE u == Then(s, t)
           n == Len(s)
           m == Len(t)
<1>1. /\ u \in Seq(Nat) /\ Len(u) = n + m /\ n \in Nat /\ m \in Nat
      /\ \A i \in 1..n : u[i] = s[i]
      /\ \A i \in 1..m : u[n + i] = t[i]
  <2>1. n \in Nat /\ m \in Nat
    OBVIOUS
  <2>2. QED
    BY <2>1, ThenProperties, Zenon
<1>2. \A i \in 1..Len(u) : u[i] \in Nat
  BY <1>1, ElementOfSeq
<1> DEFINE a == SubSeq(u, 1, n)
           b == SubSeq(u, n + 1, Len(u))
<1>3. a = s
  <2>1. \A i \in 1..n : u[i] \in Nat
    BY <1>1, <1>2
  <2>2. n \in Int /\ 1 \in Int
    BY <1>1
  <2>3. /\ a \in Seq(Nat)
        /\ Len(a) = IF 1 <= n THEN n - 1 + 1 ELSE 0
        /\ \A i \in 1 .. n - 1 + 1 : a[i] = u[1 + i - 1]
    BY <2>1, <2>2, SubSeqProperties
  <2> HIDE DEF u, a, n
  <2>4. Len(a) = n
    BY <1>1, <2>3
  <2>5. ASSUME NEW i \in 1..n PROVE a[i] = s[i]
    <3>1. i \in 1 .. n - 1 + 1 /\ 1 + i - 1 = i
      BY <1>1
    <3>2. a[i] = u[i]
      BY <2>3, <3>1
    <3>3. QED
      BY <1>1, <3>2
  <2>6. QED
    BY <2>3, <2>4, <2>5, SeqEqual DEF n
<1>4. b = t
  <2>1. \A i \in (n + 1)..Len(u) : u[i] \in Nat
    BY <1>1, <1>2
  <2>2. n + 1 \in Int /\ Len(u) \in Int
    BY <1>1
  <2>3. /\ b \in Seq(Nat)
        /\ Len(b) = IF n + 1 <= Len(u) THEN Len(u) - (n + 1) + 1 ELSE 0
        /\ \A i \in 1 .. Len(u) - (n + 1) + 1 : b[i] = u[n + 1 + i - 1]
    BY <2>1, <2>2, SubSeqProperties
  <2> HIDE DEF u, b, n, m
  <2>4. Len(b) = m
    BY <1>1, <2>3
  <2>5. ASSUME NEW i \in 1..m PROVE b[i] = t[i]
    <3>1. i \in 1 .. Len(u) - (n + 1) + 1 /\ n + 1 + i - 1 = n + i
      BY <1>1
    <3>2. b[i] = u[n + i]
      BY <2>3, <3>1
    <3>3. QED
      BY <1>1, <3>2
  <2>6. QED
    BY <2>3, <2>4, <2>5, SeqEqual DEF m
<1>5. QED
  BY <1>3, <1>4 DEF a, b, u, n

\* w without some run of its elements is s and then u.
Leaves(w, s, u) ==
  \E n \in 0..Len(w) : \E m \in n..Len(w) :
    SubSeq(w, 1, n) = s /\ SubSeq(w, m + 1, Len(w)) = u

\* What is left of three sequences without the one in the middle.
LEMMA WithoutMiddle ==
  ASSUME NEW s \in Seq(Nat), NEW t \in Seq(Nat), NEW u \in Seq(Nat)
  PROVE  Leaves(Then(s, Then(t, u)), s, u)
<1> DEFINE w == Then(s, Then(t, u))
<1>1. Then(t, u) \in Seq(Nat) /\ Then(s, t) \in Seq(Nat)
      /\ Len(Then(t, u)) = Len(t) + Len(u) /\ Len(Then(s, t)) = Len(s) + Len(t)
  BY ThenProperties, SMTT(30)
<1>2. w = Then(Then(s, t), u)
  BY ThenAssociative
<1>3. Len(w) = Len(s) + (Len(t) + Len(u))
  <2>1. Len(w) = Len(s) + Len(Then(t, u))
    BY <1>1, ThenProperties
  <2>2. QED
    BY <1>1, <2>1
<1>4. Len(s) \in Nat /\ Len(t) \in Nat /\ Len(u) \in Nat
  OBVIOUS
<1>5. SubSeq(w, 1, Len(s)) = s
  BY <1>1, ThenParts
<1>6. SubSeq(w, Len(Then(s, t)) + 1, Len(w)) = u
  <2> DEFINE v == Then(s, t)
  <2>1. v \in Seq(Nat) /\ w = Then(v, u)
    BY <1>1, <1>2
  <2> HIDE DEF v, w
  <2>2. SubSeq(w, Len(v) + 1, Len(w)) = u
    BY <2>1, ThenParts
  <2>3. QED
    BY <2>2 DEF v
<1> HIDE DEF w
<1>7. Len(s) \in 0..Len(w) /\ Len(s) + Len(t) \in Len(s)..Len(w)
  BY <1>3, <1>4
<1>8. SubSeq(w, Len(s) + Len(t) + 1, Len(w)) = u
  BY <1>1, <1>6
<1>9. Leaves(w, s, u)
  BY <1>5, <1>7, <1>8 DEF Leaves
<1>10. QED
  BY <1>9 DEF w

\* An element appended last was appended to the last part.
LEMMA AppendToLast ==
  ASSUME NEW s \in Seq(Nat), NEW t \in Seq(Nat), NEW x \in Nat
  PROVE  Then(s, Append(t, x)) = Append(Then(s, t), x)
<1>1. <<x>> \in Seq(Nat) /\ Then(s, t) \in Seq(Nat)
  BY ThenProperties
<1>2. Append(t, x) = Then(t, <<x>>) /\ Append(Then(s, t), x) = Then(Then(s, t), <<x>>)
  BY <1>1, AppendThen, Zenon
<1>3. Then(Then(s, t), <<x>>) = Then(s, Then(t, <<x>>))
  BY <1>1, ThenAssociative
<1>4. QED
  BY <1>2, <1>3

\* An element that moves from one part to the part before it.
LEMMA HandedOn ==
  ASSUME NEW s \in Seq(Nat), NEW t \in Seq(Nat), t # << >>
  PROVE  Then(Append(s, Head(t)), Tail(t)) = Then(s, t)
<1>1. Head(t) \in Nat /\ Tail(t) \in Seq(Nat) /\ t = Then(<<Head(t)>>, Tail(t))
  BY HeadThenTail
<1>2. <<Head(t)>> \in Seq(Nat)
  BY <1>1
<1>3. Append(s, Head(t)) = Then(s, <<Head(t)>>)
  BY <1>1, AppendThen
<1>4. Then(Then(s, <<Head(t)>>), Tail(t)) = Then(s, Then(<<Head(t)>>, Tail(t)))
  BY <1>1, <1>2, ThenAssociative
<1>5. QED
  BY <1>1, <1>3, <1>4

\* What is left of a sequence when its last element is taken.
LEMMA WithoutLast ==
  ASSUME NEW S, NEW s \in Seq(S), s # << >>
  PROVE  /\ SubSeq(s, 1, Len(s) - 1) \in Seq(S)
         /\ Len(SubSeq(s, 1, Len(s) - 1)) = Len(s) - 1
         /\ \A i \in 1..(Len(s) - 1) : SubSeq(s, 1, Len(s) - 1)[i] = s[i]
<1>1. Len(s) \in Nat \ {0} /\ \A i \in 1..Len(s) : s[i] \in S
  OBVIOUS
<1>2. \A i \in 1..(Len(s) - 1) : s[i] \in S
  BY <1>1
<1> DEFINE m == Len(s) - 1
           t == SubSeq(s, 1, m)
<1>3. m \in Nat /\ m - 1 + 1 = m /\ \A i \in 1..m : 1 + i - 1 = i
  BY <1>1
<1>4. /\ t \in Seq(S)
      /\ Len(t) = IF 1 <= m THEN m - 1 + 1 ELSE 0
      /\ \A i \in 1..(m - 1 + 1) : t[i] = s[1 + i - 1]
  <2> HIDE DEF m
  <2> QED
    BY <1>2, <1>3, SubSeqProperties DEF m
<1> HIDE DEF m, t
<1> QED
  BY <1>3, <1>4 DEF m, t

\* Induction over the naturals, for a set of them.
LEMMA SetInduction ==
  ASSUME NEW S, 0 \in S, \A n \in Nat : n \in S => n + 1 \in S
  PROVE  \A n \in Nat : n \in S
<1> DEFINE R == {p \in Nat \X Nat : p[1] < p[2]}
           T == Nat \ S
<1>1. IsWellFoundedOn(R, Nat)
  BY NatLessThanWellFounded DEF OpToRel
<1>2. SUFFICES ASSUME T # {} PROVE FALSE
  OBVIOUS
<1>3. PICK x \in T : \A y \in T : ~ (<<y, x>> \in R)
  <2> HIDE DEF R
  <2> QED BY <1>1, <1>2, WFMin
<1>4. x \in Nat \ {0} /\ x - 1 \in Nat
  OBVIOUS
<1>5. <<x - 1, x>> \in R
  BY <1>4
<1>6. x - 1 \notin T
  BY <1>3, <1>5
<1> QED
  BY <1>4, <1>6

-----------------------------------------------------------------------------
\* Division with remainder.
LEMMA DivisionRemainder ==
  ASSUME NEW a \in Nat, NEW n \in Nat \ {0}
  PROVE  /\ a \div n \in Nat /\ a % n \in Nat
         /\ a = n * (a \div n) + (a % n) /\ a % n < n
  BY SMT

\* A product of natural numbers grows with its factors.
LEMMA ProductGrows ==
  ASSUME NEW a \in Nat, NEW b \in Nat, NEW n \in Nat, a <= b
  PROVE  /\ a * n \in Nat /\ a * n <= b * n
         /\ n * a <= n * b
<1>1. PICK d \in Nat : b = a + d
  BY b - a \in Nat
<1>2. b * n = a * n + d * n /\ n * b = n * a + n * d
  BY <1>1
<1>3. a * n \in Nat /\ d * n \in Nat /\ n * a \in Nat /\ n * d \in Nat
  BY <1>1
<1> QED
  BY <1>2, <1>3
=============================================================================
