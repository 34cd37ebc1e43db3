------------------------- MODULE Conversion_proofs -------------------------
(***************************************************************************)
(* A conversion, for any number of workers, frames, sources and tracks:    *)
(* the decoder leases, the order in which frames are computed and written, *)
(* and the audio beside them.  Its last part needs the facts on audio      *)
(* positions, for every position, sample rate and track, that come first.  *)
(***************************************************************************)
EXTENDS ConversionProps, CommonFacts, FiniteSetTheorems, TLAPS

-----------------------------------------------------------------------------
(* Audio positions: their rescaling, the timeline of a track, its crop.    *)

\* A quotient is below every number whose product is not.
LEMMA QuotientBelow ==
  ASSUME NEW a \in Nat, NEW n \in Nat \ {0}, NEW b \in Nat, a < n * b + n
  PROVE  a \div n <= b
<1> DEFINE q == a \div n
<1>1. q \in Nat /\ n * q <= a
  BY DivisionRemainder
<1> HIDE DEF q
<1>2. ASSUME q >= b + 1 PROVE FALSE
  <2>1. n * (b + 1) <= n * q
    BY <1>1, <1>2, ProductGrows
  <2>2. n * (b + 1) = n * b + n /\ n * b \in Nat /\ n * q \in Nat
    BY <1>1
  <2> QED
    BY <1>1, <2>1, <2>2
<1> QED
  BY <1>1, <1>2 DEF q

\* The products that the code does not check stay within 64 bits, whatever
\* the position, for all rates up to one whose product with 10^9 leaves room
\* for the rounding; that holds of every positive int.
\* (samples_to_ns_nearest, ns_to_samples_nearest.)
THEOREM UncheckedProductsFit ==
  ASSUME NEW maxRate \in Nat, NEW rate \in 1..maxRate, NEW position \in Nat,
         maxRate * NanosPerSecond + maxRate + NanosPerSecond <= MaxInt
  PROVE  /\ Fits((position % rate) * NanosPerSecond + rate \div 2)
         /\ Fits((position % NanosPerSecond) * rate + NanosPerSecond \div 2)
<1> DEFINE N == NanosPerSecond
           m == position % rate
           k == position % N
<1>1. N \in Nat \ {0} /\ MaxInt \in Nat /\ rate \in Nat \ {0}
  BY NanosAssumption, MaxIntAssumption
<1>2. m \in Nat /\ m < rate /\ k \in Nat /\ k < N
  BY <1>1, DivisionRemainder
<1>3. /\ rate \div 2 \in Nat /\ rate \div 2 <= maxRate
      /\ N \div 2 \in Nat /\ N \div 2 <= N
  BY <1>1
<1>4. maxRate * N + maxRate + N <= MaxInt
  OBVIOUS
<1> HIDE DEF m, k, N
<1>5. m * N <= maxRate * N /\ m * N \in Nat
  BY <1>1, <1>2, ProductGrows
<1>6. k * rate <= N * rate /\ k * rate \in Nat
  BY <1>1, <1>2, ProductGrows
<1>7. N * rate <= N * maxRate
  BY <1>1, ProductGrows
<1>8. N * maxRate = maxRate * N /\ N * rate \in Nat /\ maxRate * N \in Nat
  BY <1>1
<1>9. m * N + rate \div 2 <= MaxInt
  BY <1>1, <1>3, <1>4, <1>5, <1>8
<1>10. k * rate + N \div 2 <= MaxInt
  BY <1>1, <1>3, <1>4, <1>6, <1>7, <1>8
<1> QED
  BY <1>9, <1>10 DEF Fits, m, k, N

\* What fits before the end, counted in samples downwards, does not reach
\* past the end when it is counted back in nanoseconds, to the nearest.
\* (ns_to_samples_floor in the crop, samples_to_ns_nearest in the audio end.)
THEOREM TrimmedEndsInside ==
  ASSUME NEW ns \in Nat, NEW rate \in Nat \ {0}
  PROVE  /\ NsToSamplesFloor(ns, rate) \in Nat
         /\ SamplesToNs(NsToSamplesFloor(ns, rate), rate) <= ns
<1> DEFINE N == NanosPerSecond
           s == NsToSamplesFloor(ns, rate)
           q == s \div rate
           m == s % rate
           half == rate \div 2
<1>1. N \in Nat \ {0}
  BY NanosAssumption
<1>2. s \in Nat /\ s * N <= ns * rate
  <2> DEFINE w == ns \div N
             r == ns % N
             f == (r * rate) \div N
  <2>1. w \in Nat /\ r \in Nat /\ ns = N * w + r
    BY <1>1, DivisionRemainder
  <2>2. r * rate \in Nat
    BY <2>1
  <2>3. f \in Nat /\ N * f <= r * rate
    BY <1>1, <2>2, DivisionRemainder
  <2>4. s = w * rate + f
    BY DEF NsToSamplesFloor
  <2> HIDE DEF w, r, f, s, N
  <2>5. w * rate \in Nat /\ w * rate * N \in Nat /\ f * N \in Nat
    BY <1>1, <2>1, <2>3
  <2>6. s * N = w * rate * N + f * N
    BY <1>1, <2>1, <2>3, <2>4, <2>5
  <2>7. ns * rate = w * rate * N + r * rate
    BY <1>1, <2>1
  <2>8. N * f = f * N
    BY <1>1, <2>3
  <2> QED
    BY <2>2, <2>3, <2>4, <2>5, <2>6, <2>7, <2>8
<1>3. q \in Nat /\ m \in Nat /\ s = rate * q + m /\ m < rate
  BY <1>2, DivisionRemainder
<1>4. half \in Nat /\ half < rate
  BY SMT
<1>5. SamplesToNs(s, rate) = q * N + (m * N + half) \div rate
  BY DEF SamplesToNs
<1> HIDE DEF N, s, q, m, half
<1>6. m * N \in Nat /\ q * N \in Nat /\ rate * (q * N) \in Nat
  BY <1>1, <1>3
<1>7. s * N = rate * (q * N) + m * N
  BY <1>1, <1>3, <1>6
<1>8. rate * (q * N) + m * N <= rate * ns
  BY <1>2, <1>7
<1>9. q * N <= ns
  <2>1. ASSUME q * N >= ns + 1 PROVE FALSE
    <3>1. rate * (ns + 1) <= rate * (q * N)
      BY <1>6, <2>1, ProductGrows
    <3>2. rate * (ns + 1) = rate * ns + rate
      OBVIOUS
    <3> QED
      BY <1>6, <1>8, <3>1, <3>2
  <2> QED
    BY <1>6, <2>1
<1>10. PICK b \in Nat : ns = q * N + b
  BY <1>6, <1>9, ns - q * N \in Nat
<1>11. rate * ns = rate * (q * N) + rate * b /\ rate * b \in Nat
  BY <1>6, <1>10
<1>12. m * N + half < rate * b + rate
  BY <1>4, <1>6, <1>8, <1>11
<1>13. (m * N + half) \div rate <= b
  BY <1>4, <1>6, <1>12, QuotientBelow
<1>14. (m * N + half) \div rate \in Nat
  BY <1>4, <1>6, DivisionRemainder
<1> QED
  BY <1>2, <1>5, <1>6, <1>10, <1>13, <1>14 DEF s

-----------------------------------------------------------------------------
(* The three conversions are one: a position rescaled, with a rounding      *)
(* term.                                                                    *)

Rescaled(a, n, m, h) == (a \div n) * m + ((a % n) * m + h) \div n

\* Rescaling in two parts, so that no product leaves 64 bits, gives the
\* quotient of the whole.
LEMMA RescaledBounds ==
  ASSUME NEW a \in Nat, NEW n \in Nat \ {0}, NEW m \in Nat, NEW h \in Nat
  PROVE  /\ Rescaled(a, n, m, h) \in Nat
         /\ n * Rescaled(a, n, m, h) <= a * m + h
         /\ a * m + h < n * Rescaled(a, n, m, h) + n
<1> DEFINE w == a \div n
           k == a % n
           b == k * m + h
           f == b \div n
           g == b % n
           x == Rescaled(a, n, m, h)
<1>1. w \in Nat /\ k \in Nat /\ a = n * w + k
  BY DivisionRemainder
<1>2. k * m \in Nat /\ b \in Nat
  BY <1>1
<1>3. f \in Nat /\ g \in Nat /\ b = n * f + g /\ g < n
  BY <1>2, DivisionRemainder
<1>4. x = w * m + f
  BY DEF Rescaled
<1>5. b = k * m + h
  OBVIOUS
<1> HIDE DEF w, k, b, f, g, x
<1>6. w * m \in Nat /\ n * (w * m) \in Nat /\ n * f \in Nat /\ x \in Nat
  BY <1>1, <1>3, <1>4
<1>7. a * m = n * (w * m) + k * m
  BY <1>1, <1>2, <1>6
<1>8. n * x = n * (w * m) + n * f
  BY <1>3, <1>4, <1>6
<1>9. n * x \in Nat /\ a * m + h = n * x + g
  BY <1>2, <1>3, <1>5, <1>6, <1>7, <1>8
<1>10. QED
  BY <1>3, <1>6, <1>9 DEF x

\* samples_to_ns_nearest rounds to the nearest.
LEMMA SamplesToNsBounds ==
  ASSUME NEW s \in Nat, NEW rate \in Nat \ {0}
  PROVE  /\ SamplesToNs(s, rate) \in Nat
         /\ rate * SamplesToNs(s, rate) <= s * NanosPerSecond + rate \div 2
         /\ s * NanosPerSecond + rate \div 2 < rate * SamplesToNs(s, rate) + rate
<1>1. SamplesToNs(s, rate) = Rescaled(s, rate, NanosPerSecond, rate \div 2)
  BY DEF SamplesToNs, Rescaled
<1>2. rate \div 2 \in Nat /\ NanosPerSecond \in Nat
  BY NanosAssumption
<1>3. QED
  BY <1>1, <1>2, RescaledBounds

\* So does ns_to_samples_nearest.
LEMMA NearestBounds ==
  ASSUME NEW ns \in Nat, NEW rate \in Nat \ {0}
  PROVE  /\ NsToSamplesNearest(ns, rate) \in Nat
         /\ NanosPerSecond * NsToSamplesNearest(ns, rate)
              <= ns * rate + NanosPerSecond \div 2
         /\ ns * rate + NanosPerSecond \div 2
              < NanosPerSecond * NsToSamplesNearest(ns, rate) + NanosPerSecond
<1>1. NsToSamplesNearest(ns, rate) = Rescaled(ns, NanosPerSecond, rate, NanosPerSecond \div 2)
  BY DEF NsToSamplesNearest, Rescaled
<1>2. NanosPerSecond \div 2 \in Nat /\ NanosPerSecond \in Nat \ {0}
  BY NanosAssumption
<1>3. QED
  BY <1>1, <1>2, RescaledBounds

\* ns_to_samples_floor rounds down.
LEMMA FloorBounds ==
  ASSUME NEW ns \in Nat, NEW rate \in Nat \ {0}
  PROVE  /\ NsToSamplesFloor(ns, rate) \in Nat
         /\ NanosPerSecond * NsToSamplesFloor(ns, rate) <= ns * rate
         /\ ns * rate < NanosPerSecond * NsToSamplesFloor(ns, rate) + NanosPerSecond
<1> DEFINE k == ns % NanosPerSecond
<1>1. NanosPerSecond \in Nat \ {0} /\ 0 \in Nat
  BY NanosAssumption
<1>2. k * rate \in Nat
  <2>1. k \in Nat
    BY <1>1, DivisionRemainder
  <2> HIDE DEF k
  <2>2. QED
    BY <2>1
<1>3. k * rate + 0 = k * rate
  BY <1>2
<1>4. NsToSamplesFloor(ns, rate) = Rescaled(ns, NanosPerSecond, rate, 0)
  BY <1>3 DEF NsToSamplesFloor, Rescaled
<1>5. ns * rate \in Nat /\ ns * rate + 0 = ns * rate
  OBVIOUS
<1>6. QED
  BY <1>1, <1>4, <1>5, RescaledBounds

\* More samples take as long or longer.
LEMMA SamplesToNsGrows ==
  ASSUME NEW s \in Nat, NEW t \in Nat, s <= t, NEW rate \in Nat \ {0}
  PROVE  SamplesToNs(s, rate) <= SamplesToNs(t, rate)
<1> DEFINE x == SamplesToNs(s, rate)
           y == SamplesToNs(t, rate)
           N == NanosPerSecond
           h == rate \div 2
<1>1. N \in Nat /\ h \in Nat
  BY NanosAssumption
<1>2. /\ x \in Nat /\ rate * x <= s * N + h
      /\ y \in Nat /\ t * N + h < rate * y + rate
  BY SamplesToNsBounds
<1> HIDE DEF x, y, N, h
<1>3. s * N <= t * N /\ s * N \in Nat /\ t * N \in Nat
  BY <1>1, ProductGrows
<1>4. ASSUME y + 1 <= x PROVE FALSE
  <2>1. rate * (y + 1) <= rate * x
    BY <1>2, <1>4, ProductGrows
  <2>2. rate * (y + 1) = rate * y + rate /\ rate * y \in Nat /\ rate * x \in Nat
    BY <1>2
  <2>3. QED
    BY <1>1, <1>2, <1>3, <2>1, <2>2
<1>5. QED
  BY <1>2, <1>4 DEF x, y

\* A sample is no shorter than a nanosecond.
LEMMA SamplesAreLong ==
  ASSUME NEW s \in Nat, NEW rate \in 1..NanosPerSecond
  PROVE  s <= SamplesToNs(s, rate)
<1> DEFINE x == SamplesToNs(s, rate)
           N == NanosPerSecond
           h == rate \div 2
<1>1. N \in Nat /\ h \in Nat /\ rate \in Nat \ {0} /\ rate <= N
  BY NanosAssumption
<1>2. x \in Nat /\ s * N + h < rate * x + rate
  BY <1>1, SamplesToNsBounds
<1> HIDE DEF x, N, h
<1>3. s * rate <= s * N /\ s * N \in Nat
  BY <1>1, ProductGrows
<1>4. ASSUME x + 1 <= s PROVE FALSE
  <2>1. rate * (x + 1) <= rate * s
    BY <1>1, <1>2, <1>4, ProductGrows
  <2>2. rate * (x + 1) = rate * x + rate /\ rate * x \in Nat /\ rate * s = s * rate
    BY <1>1, <1>2
  <2>3. QED
    BY <1>1, <1>2, <1>3, <2>1, <2>2
<1>5. QED
  BY <1>2, <1>4 DEF x

\* No time has more samples than nanoseconds.
LEMMA NearestIsShort ==
  ASSUME NEW ns \in Nat, NEW rate \in 1..NanosPerSecond
  PROVE  NsToSamplesNearest(ns, rate) <= ns
<1> DEFINE z == NsToSamplesNearest(ns, rate)
           N == NanosPerSecond
           h == N \div 2
<1>1. N \in Nat \ {0} /\ rate \in Nat \ {0} /\ rate <= N
  BY NanosAssumption
<1>2. z \in Nat /\ N * z <= ns * rate + h
  BY <1>1, NearestBounds
<1>3. h \in Nat /\ h < N
  BY <1>1
<1> HIDE DEF z, N, h
<1>4. ns * rate <= ns * N /\ ns * rate \in Nat
  BY <1>1, ProductGrows
<1>5. ASSUME ns + 1 <= z PROVE FALSE
  <2>1. N * (ns + 1) <= N * z
    BY <1>1, <1>2, <1>5, ProductGrows
  <2>2. N * (ns + 1) = N * ns + N /\ N * ns = ns * N /\ ns * N \in Nat /\ N * z \in Nat
    BY <1>1, <1>2
  <2>3. QED
    BY <1>1, <1>2, <1>3, <1>4, <2>1, <2>2
<1>6. QED
  BY <1>2, <1>5 DEF z

\* No samples take no time.
LEMMA NoSamples ==
  ASSUME NEW rate \in Nat \ {0}
  PROVE  SamplesToNs(0, rate) = 0
<1> DEFINE x == SamplesToNs(0, rate)
           h == rate \div 2
<1>1. h \in Nat /\ h < rate
  OBVIOUS
<1>2. x \in Nat /\ rate * x <= 0 * NanosPerSecond + h
  BY SamplesToNsBounds
<1>3. 0 * NanosPerSecond = 0
  BY NanosAssumption
<1> HIDE DEF x, h
<1>4. ASSUME 1 <= x PROVE FALSE
  <2>1. rate * 1 <= rate * x
    BY <1>2, <1>4, ProductGrows
  <2>2. rate * 1 = rate /\ rate * x \in Nat
    BY <1>2
  <2>3. QED
    BY <1>1, <1>2, <1>3, <2>1, <2>2
<1>5. QED
  BY <1>2, <1>4 DEF x

-----------------------------------------------------------------------------
(* cumulative_samples.                                                      *)

\* f is the function Cumulative defines, on the first m chunks.
SumUpTo(c, m, f) ==
  f = [i \in 0..m |-> IF i = 0 THEN 0 ELSE f[i - 1] + c[i].samples]

\* The function and its recursion equations.
LEMMA SumUpToIs ==
  ASSUME NEW c, NEW m \in Nat, NEW f
  PROVE  SumUpTo(c, m, f) <=>
           /\ f = [i \in 0..m |-> f[i]]
           /\ f[0] = 0
           /\ \A i \in 1..m : f[i] = f[i - 1] + c[i].samples
<1> DEFINE F(i) == IF i = 0 THEN 0 ELSE f[i - 1] + c[i].samples
<1>1. ASSUME SumUpTo(c, m, f)
      PROVE  /\ f = [i \in 0..m |-> f[i]]
             /\ f[0] = 0
             /\ \A i \in 1..m : f[i] = f[i - 1] + c[i].samples
  <2>1. f = [i \in 0..m |-> F(i)]
    BY <1>1 DEF SumUpTo
  <2> HIDE DEF F
  <2>2. f = [i \in 0..m |-> f[i]]
    BY <2>1
  <2>3. \A i \in 0..m : f[i] = F(i)
    BY <2>1
  <2>4. f[0] = 0
    <3>1. f[0] = F(0)
      BY <2>3
    <3>2. QED
      BY <3>1 DEF F
  <2>5. ASSUME NEW i \in 1..m PROVE f[i] = f[i - 1] + c[i].samples
    <3>1. i \in 0..m /\ i # 0
      OBVIOUS
    <3>2. QED
      BY <2>3, <3>1 DEF F
  <2>6. QED
    BY <2>2, <2>4, <2>5
<1>2. ASSUME f = [i \in 0..m |-> f[i]], f[0] = 0,
             \A i \in 1..m : f[i] = f[i - 1] + c[i].samples
      PROVE  SumUpTo(c, m, f)
  <2>1. ASSUME NEW i \in 0..m PROVE f[i] = F(i)
    <3>1. CASE i = 0
      BY <1>2, <3>1
    <3>2. CASE i \in 1..m
      BY <1>2, <3>2
    <3>3. QED
      BY <3>1, <3>2
  <2> HIDE DEF F
  <2>2. [i \in 0..m |-> f[i]] = [i \in 0..m |-> F(i)]
    BY <2>1
  <2>3. f = [i \in 0..m |-> F(i)]
    BY <1>2, <2>2
  <2>4. QED
    BY <2>3 DEF F, SumUpTo
<1>3. QED
  BY <1>1, <1>2

\* There is such a function, however many chunks.
LEMMA SumExists ==
  ASSUME NEW c
  PROVE  \A m \in Nat : \E f : SumUpTo(c, m, f)
<1> DEFINE S == {m \in Nat : \E f : SumUpTo(c, m, f)}
<1>1. 0 \in S
  <2>1. SumUpTo(c, 0, [i \in 0..0 |-> 0])
    BY DEF SumUpTo
  <2>2. QED
    BY <2>1
<1>2. ASSUME NEW m \in Nat, m \in S PROVE m + 1 \in S
  <2>1. PICK f : SumUpTo(c, m, f)
    BY <1>2
  <2>2. f[0] = 0 /\ \A i \in 1..m : f[i] = f[i - 1] + c[i].samples
    BY <2>1, SumUpToIs
  <2> DEFINE g == [i \in 0..(m + 1) |-> IF i = m + 1 THEN f[m] + c[m + 1].samples ELSE f[i]]
  <2>3. g[0] = 0 /\ \A i \in 0..m : g[i] = f[i]
    BY <2>2
  <2>4. g[m + 1] = f[m] + c[m + 1].samples
    OBVIOUS
  <2>5. g = [i \in 0..(m + 1) |-> g[i]]
    OBVIOUS
  <2> HIDE DEF g
  <2>6. ASSUME NEW i \in 1..(m + 1) PROVE g[i] = g[i - 1] + c[i].samples
    <3>1. CASE i = m + 1
      <4>1. i - 1 = m /\ g[m] = f[m]
        BY <3>1, <2>3
      <4>2. QED
        BY <3>1, <4>1, <2>4
    <3>2. CASE i \in 1..m
      <4>1. i - 1 \in 0..m /\ i \in 0..m
        BY <3>2
      <4>2. QED
        BY <3>2, <4>1, <2>2, <2>3
    <3>3. QED
      BY <3>1, <3>2
  <2>7. SumUpTo(c, m + 1, g)
    <3>1. m + 1 \in Nat
      OBVIOUS
    <3>2. QED
      BY <2>3, <2>5, <2>6, <3>1, SumUpToIs
  <2>8. QED
    BY <2>7
<1> HIDE DEF S
<1>3. \A m \in Nat : m \in S
  BY <1>1, <1>2, SetInduction
<1>4. QED
  BY <1>3 DEF S

\* The sums that Cumulative holds.
LEMMA CumulativeIs ==
  ASSUME NEW c, Len(c) \in Nat
  PROVE  /\ Cumulative(c)[0] = 0
         /\ \A i \in 1..Len(c) : Cumulative(c)[i] = Cumulative(c)[i - 1] + c[i].samples
<1>1. SumUpTo(c, Len(c), CHOOSE f : SumUpTo(c, Len(c), f))
  BY SumExists
<1>2. Cumulative(c) = CHOOSE f : SumUpTo(c, Len(c), f)
  BY DEF Cumulative, SumUpTo
<1>3. SumUpTo(c, Len(c), Cumulative(c))
  BY <1>1, <1>2
<1>4. QED
  BY <1>3, SumUpToIs

Chunks == [timestamp : Int, samples : Nat]

\* Sums of samples are natural numbers and grow.
LEMMA CumulativeGrows ==
  ASSUME NEW c \in Seq(Chunks)
  PROVE  /\ \A i \in 0..Len(c) : Cumulative(c)[i] \in Nat
         /\ \A j \in 0..Len(c) : \A i \in 0..j : Cumulative(c)[i] <= Cumulative(c)[j]
<1> DEFINE sum == Cumulative(c)
           S == {j \in Nat : j <= Len(c) => /\ \A i \in 0..j : sum[i] \in Nat
                                            /\ \A i \in 0..j : sum[i] <= sum[j]}
<1>0. Len(c) \in Nat
  OBVIOUS
<1>1. sum[0] = 0 /\ \A i \in 1..Len(c) : sum[i] = sum[i - 1] + c[i].samples
  BY <1>0, CumulativeIs
<1> HIDE DEF sum
<1>2. 0 \in S
  BY <1>1
<1>3. ASSUME NEW j \in Nat, j \in S PROVE j + 1 \in S
  <2> SUFFICES ASSUME j + 1 <= Len(c)
               PROVE  /\ \A i \in 0..(j + 1) : sum[i] \in Nat
                      /\ \A i \in 0..(j + 1) : sum[i] <= sum[j + 1]
    OBVIOUS
  <2>1. j + 1 \in 1..Len(c) /\ (j + 1) - 1 = j
    BY <1>0
  <2>2. sum[j + 1] = sum[j] + c[j + 1].samples
    BY <1>1, <2>1
  <2>3. c[j + 1].samples \in Nat
    <3>1. c[j + 1] \in Chunks
      BY <2>1, ElementOfSeq
    <3>2. QED
      BY <3>1 DEF Chunks
  <2>4. sum[j] \in Nat /\ \A i \in 0..j : sum[i] <= sum[j]
    BY <1>0, <1>3, <2>1
  <2>5. sum[j + 1] \in Nat /\ sum[j] <= sum[j + 1]
    BY <2>2, <2>3, <2>4
  <2>6. \A i \in 0..j : sum[i] \in Nat
    BY <1>0, <1>3, <2>1
  <2>7. ASSUME NEW i \in 0..(j + 1) PROVE sum[i] <= sum[j + 1]
    <3>1. CASE i = j + 1
      BY <2>5, <3>1
    <3>2. CASE i \in 0..j
      BY <2>4, <2>5, <2>6, <3>2
    <3>3. QED
      BY <3>1, <3>2
  <2>8. \A i \in 0..(j + 1) : i = j + 1 \/ i \in 0..j
    OBVIOUS
  <2>9. QED
    BY <2>5, <2>6, <2>7, <2>8
<1> HIDE DEF S
<1>4. \A j \in Nat : j \in S
  BY <1>2, <1>3, SetInduction
<1>5. QED
  BY <1>0, <1>4 DEF S, sum

\* Tracks that agree on the samples of their first n chunks agree on the sums.
LEMMA CumulativeAgrees ==
  ASSUME NEW c, NEW d, NEW n \in Nat, Len(c) \in Nat, Len(d) \in Nat,
         n <= Len(c), n <= Len(d),
         \A i \in 1..n : c[i].samples = d[i].samples
  PROVE  \A i \in 0..n : Cumulative(c)[i] = Cumulative(d)[i]
<1> DEFINE S == {j \in Nat : j <= n => Cumulative(c)[j] = Cumulative(d)[j]}
<1>1. 0 \in S
  BY CumulativeIs
<1>2. ASSUME NEW j \in Nat, j \in S PROVE j + 1 \in S
  <2> SUFFICES ASSUME j + 1 <= n PROVE Cumulative(c)[j + 1] = Cumulative(d)[j + 1]
    OBVIOUS
  <2>1. j + 1 \in 1..Len(c) /\ j + 1 \in 1..Len(d) /\ j + 1 \in 1..n /\ (j + 1) - 1 = j
    OBVIOUS
  <2>2. /\ Cumulative(c)[j + 1] = Cumulative(c)[j] + c[j + 1].samples
        /\ Cumulative(d)[j + 1] = Cumulative(d)[j] + d[j + 1].samples
    BY <2>1, CumulativeIs
  <2>3. QED
    BY <1>2, <2>1, <2>2
<1> HIDE DEF S
<1>3. \A j \in Nat : j \in S
  BY <1>1, <1>2, SetInduction
<1>4. QED
  BY <1>3 DEF S

-----------------------------------------------------------------------------
(* The crop.                                                                *)

\* What remove_if has kept after chunk x.
KeptAfter(x, limit, kept) ==
  IF x.timestamp < limit THEN Append(kept, x) ELSE kept

\* f is the function Earlier recurs on, up to m.
KeptUpTo(c, limit, m, f) ==
  f = [i \in 0..m |-> IF i = 0 THEN << >> ELSE KeptAfter(c[i], limit, f[i - 1])]

\* Its recursion equations ...
LEMMA KeptEquations ==
  ASSUME NEW c, NEW limit, NEW m \in Nat, NEW f, KeptUpTo(c, limit, m, f)
  PROVE  /\ f[0] = << >>
         /\ \A i \in 1..m : f[i] = KeptAfter(c[i], limit, f[i - 1])
<1> DEFINE F(i) == IF i = 0 THEN << >> ELSE KeptAfter(c[i], limit, f[i - 1])
<1>1. f = [i \in 0..m |-> F(i)]
  BY DEF KeptUpTo
<1> HIDE DEF F
<1>2. \A i \in 0..m : f[i] = F(i)
  BY <1>1
<1>3. QED
  BY <1>2 DEF F

\* ... which no other function satisfies.
LEMMA KeptByEquations ==
  ASSUME NEW c, NEW limit, NEW m \in Nat, NEW f,
         f = [i \in 0..m |-> f[i]], f[0] = << >>,
         \A i \in 1..m : f[i] = KeptAfter(c[i], limit, f[i - 1])
  PROVE  KeptUpTo(c, limit, m, f)
<1> DEFINE F(i) == IF i = 0 THEN << >> ELSE KeptAfter(c[i], limit, f[i - 1])
<1>1. ASSUME NEW i \in 0..m PROVE f[i] = F(i)
  <2>1. CASE i = 0
    BY <2>1
  <2>2. CASE i \in 1..m
    BY <2>2
  <2>3. QED
    BY <2>1, <2>2
<1> HIDE DEF F
<1>2. [i \in 0..m |-> f[i]] = [i \in 0..m |-> F(i)]
  BY <1>1
<1>3. f = [i \in 0..m |-> F(i)]
  BY <1>2
<1>4. QED
  BY <1>3 DEF F, KeptUpTo

\* There is such a function, however many chunks.
LEMMA KeptExists ==
  ASSUME NEW c, NEW limit
  PROVE  \A m \in Nat : \E f : KeptUpTo(c, limit, m, f)
<1> DEFINE S == {m \in Nat : \E f : KeptUpTo(c, limit, m, f)}
<1>1. 0 \in S
  <2>1. KeptUpTo(c, limit, 0, [i \in 0..0 |-> << >>])
    BY DEF KeptUpTo
  <2>2. QED
    BY <2>1
<1>2. ASSUME NEW m \in Nat, m \in S PROVE m + 1 \in S
  <2>1. PICK f : KeptUpTo(c, limit, m, f)
    BY <1>2
  <2>2. f[0] = << >> /\ \A i \in 1..m : f[i] = KeptAfter(c[i], limit, f[i - 1])
    <3>1. \A i \in 1..m : f[i] = KeptAfter(c[i], limit, f[i - 1])
      <4> HIDE DEF S
      <4>1. QED
        BY <2>1, KeptEquations
    <3>2. f[0] = << >>
      BY <2>1, KeptEquations
    <3>3. QED
      BY <3>1, <3>2
  <2> DEFINE g == [i \in 0..(m + 1) |-> IF i = m + 1 THEN KeptAfter(c[m + 1], limit, f[m]) ELSE f[i]]
  <2>3. g[0] = << >> /\ \A i \in 0..m : g[i] = f[i]
    BY <2>2
  <2>4. g[m + 1] = KeptAfter(c[m + 1], limit, f[m])
    OBVIOUS
  <2>5. g = [i \in 0..(m + 1) |-> g[i]]
    OBVIOUS
  <2> HIDE DEF g
  <2>6. ASSUME NEW i \in 1..(m + 1) PROVE g[i] = KeptAfter(c[i], limit, g[i - 1])
    <3>1. CASE i = m + 1
      <4>1. i - 1 = m /\ g[m] = f[m]
        BY <3>1, <2>3
      <4>2. QED
        BY <3>1, <4>1, <2>4
    <3>2. CASE i \in 1..m
      <4>1. i - 1 \in 0..m /\ i \in 0..m
        BY <3>2
      <4>2. QED
        BY <3>2, <4>1, <2>2, <2>3
    <3>3. QED
      BY <3>1, <3>2
  <2>7. KeptUpTo(c, limit, m + 1, g)
    <3>1. m + 1 \in Nat
      OBVIOUS
    <3>2. QED
      BY <2>3, <2>5, <2>6, <3>1, KeptByEquations
  <2>8. QED
    BY <2>7
<1> HIDE DEF S
<1>3. \A m \in Nat : m \in S
  BY <1>1, <1>2, SetInduction
<1>4. QED
  BY <1>3 DEF S

\* Earlier(c, limit) is the last value of that function.
LEMMA EarlierIs ==
  ASSUME NEW c, NEW limit, Len(c) \in Nat
  PROVE  \E f : /\ Earlier(c, limit) = f[Len(c)]
                /\ f[0] = << >>
                /\ \A i \in 1..Len(c) : f[i] = KeptAfter(c[i], limit, f[i - 1])
<1> DEFINE f == CHOOSE f : KeptUpTo(c, limit, Len(c), f)
<1>1. KeptUpTo(c, limit, Len(c), f)
  BY KeptExists
<1>2. Earlier(c, limit) = f[Len(c)]
  BY DEF Earlier, KeptUpTo, KeptAfter
<1> HIDE DEF f
<1>3. QED
  BY <1>1, <1>2, KeptEquations

Sorted(c) == \A i, j \in 1..Len(c) : i <= j => c[i].timestamp <= c[j].timestamp

\* Of chunks in the order of time, remove_if keeps the first ones.
LEMMA EarlierIsPrefix ==
  ASSUME NEW c \in Seq(Chunks), NEW limit \in Int, Sorted(c)
  PROVE  /\ Earlier(c, limit) \in Seq(Chunks)
         /\ Len(Earlier(c, limit)) <= Len(c)
         /\ \A i \in 1..Len(Earlier(c, limit)) :
              /\ Earlier(c, limit)[i] = c[i]
              /\ c[i].timestamp < limit
<1>0. Len(c) \in Nat /\ \A i \in 1..Len(c) : c[i] \in Chunks /\ c[i].timestamp \in Int
  <2>1. Len(c) \in Nat
    BY LenProperties
  <2>2. ASSUME NEW i \in 1..Len(c) PROVE c[i] \in Chunks
    BY ElementOfSeq
  <2>3. \A x \in Chunks : x.timestamp \in Int
    BY DEF Chunks
  <2>4. QED
    BY <2>1, <2>2, <2>3
<1>1. PICK f : /\ Earlier(c, limit) = f[Len(c)]
               /\ f[0] = << >>
               /\ \A i \in 1..Len(c) : f[i] = KeptAfter(c[i], limit, f[i - 1])
  BY <1>0, EarlierIs
<1> DEFINE P(j) == /\ f[j] \in Seq(Chunks)
                   /\ Len(f[j]) <= j
                   /\ \A i \in 1..Len(f[j]) : f[j][i] = c[i] /\ c[i].timestamp < limit
                   /\ Len(f[j]) < j => c[Len(f[j]) + 1].timestamp >= limit
           S == {j \in Nat : j <= Len(c) => P(j)}
<1>2. 0 \in S
  <2>1. f[0] \in Seq(Chunks) /\ Len(f[0]) = 0
    BY <1>1, EmptySeq
  <2>2. QED
    BY <2>1
<1>3. ASSUME NEW j \in Nat, j \in S PROVE j + 1 \in S
  <2> SUFFICES ASSUME j + 1 <= Len(c) PROVE P(j + 1)
    OBVIOUS
  <2> DEFINE k == f[j]
             n == Len(k)
             x == c[j + 1]
  <2>1. j + 1 \in 1..Len(c) /\ (j + 1) - 1 = j /\ j <= Len(c)
    BY <1>0
  <2>2. f[j + 1] = KeptAfter(c[j + 1], limit, k)
    BY <1>1, <2>1
  <2>3. P(j)
    BY <1>3, <2>1
  <2>4. /\ k \in Seq(Chunks) /\ n \in Nat /\ n <= j /\ x \in Chunks /\ x.timestamp \in Int
        /\ \A i \in 1..n : k[i] = c[i] /\ c[i].timestamp < limit
        /\ n < j => c[n + 1].timestamp >= limit
    BY <1>0, <2>1, <2>3
  <2>5. n < j => x.timestamp >= limit
    <3>1. n < j => n + 1 \in 1..Len(c) /\ n + 1 <= j + 1
      BY <2>1, <2>4
    <3>2. n < j => c[n + 1].timestamp <= x.timestamp /\ c[n + 1].timestamp \in Int
      BY <1>0, <2>1, <3>1 DEF Sorted
    <3>3. QED
      BY <2>4, <3>2
  <2> HIDE DEF k, x
  <2>6. CASE x.timestamp < limit
    <3>1. n = j /\ f[j + 1] = Append(k, x)
      BY <2>2, <2>4, <2>5, <2>6 DEF KeptAfter, x
    <3>2. /\ Append(k, x) \in Seq(Chunks) /\ Len(Append(k, x)) = n + 1
          /\ \A i \in 1..n : Append(k, x)[i] = k[i]
          /\ Append(k, x)[n + 1] = x
      BY <2>4, AppendProperties
    <3>3. QED
      BY <2>4, <2>6, <3>1, <3>2 DEF x
  <2>7. CASE ~ (x.timestamp < limit)
    <3>1. f[j + 1] = k
      BY <2>2, <2>7 DEF KeptAfter, x
    <3>2. n < j + 1 => c[n + 1].timestamp >= limit
      BY <2>4, <2>7 DEF x
    <3>3. QED
      BY <2>4, <3>1, <3>2
  <2>8. QED
    BY <2>6, <2>7
<1> HIDE DEF S
<1>4. \A j \in Nat : j \in S
  BY <1>2, <1>3, SetInduction
<1>5. P(Len(c))
  BY <1>0, <1>4 DEF S
<1>6. QED
  BY <1>0, <1>1, <1>5

-----------------------------------------------------------------------------
(* Tracks on their timeline.                                                *)

Timed == [timestamp : Nat, samples : Nat]

\* A sequence of timed chunks, chunk by chunk.
LEMMA TimedChunks ==
  ASSUME NEW c \in Seq(Timed)
  PROVE  /\ c \in Seq(Chunks)
         /\ Len(c) \in Nat
         /\ \A i \in 1..Len(c) : /\ c[i] \in Timed
                                 /\ c[i].timestamp \in Nat
                                 /\ c[i].samples \in Nat
<1>1. Len(c) \in Nat
  BY LenProperties
<1>2. \A i \in 1..Len(c) : c[i] \in Timed
  BY ElementOfSeq
<1>3. \A x \in Timed : x \in Chunks /\ x.timestamp \in Nat /\ x.samples \in Nat
  BY DEF Timed, Chunks
<1>4. c \in [1..Len(c) -> Chunks]
  <2>1. c \in [1..Len(c) -> Timed]
    BY LenProperties
  <2>2. QED
    BY <2>1, <1>3
<1>5. c \in Seq(Chunks)
  BY <1>1, <1>4, SeqDef
<1>6. QED
  BY <1>1, <1>2, <1>3, <1>5

\* The chunks of a timeline are in the order of time.
LEMMA TimelineSorted ==
  ASSUME NEW c \in Seq(Timed), NEW rate \in Nat \ {0}, OnTimeline(c, rate)
  PROVE  Sorted(c)
<1> SUFFICES ASSUME NEW i \in 1..Len(c), NEW j \in 1..Len(c), i <= j
             PROVE  c[i].timestamp <= c[j].timestamp
  BY DEF Sorted
<1> DEFINE sum == Cumulative(c)
<1>1. c \in Seq(Chunks) /\ Len(c) \in Nat /\ c[1].timestamp \in Nat
  BY TimedChunks
<1>2. i - 1 \in 0..(j - 1) /\ j - 1 \in 0..Len(c) /\ i - 1 \in 0..Len(c)
  BY <1>1
<1>3. sum[i - 1] \in Nat /\ sum[j - 1] \in Nat /\ sum[i - 1] <= sum[j - 1]
  BY <1>1, <1>2, CumulativeGrows
<1>4. /\ c[i].timestamp = c[1].timestamp + SamplesToNs(sum[i - 1], rate)
      /\ c[j].timestamp = c[1].timestamp + SamplesToNs(sum[j - 1], rate)
  BY DEF OnTimeline
<1> HIDE DEF sum
<1>5. SamplesToNs(sum[i - 1], rate) <= SamplesToNs(sum[j - 1], rate)
  BY <1>3, SamplesToNsGrows
<1>6. SamplesToNs(sum[i - 1], rate) \in Nat /\ SamplesToNs(sum[j - 1], rate) \in Nat
  BY <1>3, SamplesToNsBounds
<1>7. QED
  BY <1>1, <1>4, <1>5, <1>6

\* The first chunks of a timeline are one, whatever the length of the last.
LEMMA CutOnTimeline ==
  ASSUME NEW c \in Seq(Timed), NEW d \in Seq(Timed), NEW rate \in Nat \ {0},
         OnTimeline(c, rate), Len(d) <= Len(c),
         \A i \in 1..Len(d) : d[i].timestamp = c[i].timestamp /\ d[i].samples > 0,
         \A i \in 1..(Len(d) - 1) : d[i].samples = c[i].samples
  PROVE  OnTimeline(d, rate)
<1> SUFFICES ASSUME NEW i \in 1..Len(d)
             PROVE  d[i].timestamp = d[1].timestamp
                                       + SamplesToNs(Cumulative(d)[i - 1], rate)
  BY DEF OnTimeline
<1>1. Len(c) \in Nat /\ Len(d) \in Nat
  BY TimedChunks
<1>2. /\ Len(d) - 1 \in Nat /\ Len(d) - 1 <= Len(c) /\ Len(d) - 1 <= Len(d)
      /\ i - 1 \in 0..(Len(d) - 1) /\ 1 \in 1..Len(d) /\ i \in 1..Len(c)
      /\ \A k \in 1..(Len(d) - 1) : d[k].samples = c[k].samples
  BY <1>1
<1> DEFINE n == Len(d) - 1
<1>3. \A k \in 0..n : Cumulative(d)[k] = Cumulative(c)[k]
  <2>1. n \in Nat /\ n <= Len(c) /\ n <= Len(d) /\ \A k \in 1..n : d[k].samples = c[k].samples
    BY <1>2
  <2> HIDE DEF n
  <2>2. QED
    BY <1>1, <2>1, CumulativeAgrees
<1>4. Cumulative(d)[i - 1] = Cumulative(c)[i - 1]
  BY <1>2, <1>3
<1>5. c[i].timestamp = c[1].timestamp + SamplesToNs(Cumulative(c)[i - 1], rate)
  BY <1>2 DEF OnTimeline
<1>6. d[i].timestamp = c[i].timestamp /\ d[1].timestamp = c[1].timestamp
  BY <1>2
<1>7. QED
  BY <1>4, <1>5, <1>6

\* analyze_and_normalize_audio puts every track that it accepts on a timeline.
LEMMA NormalizedIs ==
  ASSUME NEW track, track.chunks \in Seq(Chunks), track.rate \in Nat \ {0},
         Normalizable(track)
  PROVE  /\ Normalized(track) \in Seq(Timed)
         /\ OnTimeline(Normalized(track), track.rate)
<1> DEFINE c == track.chunks
           rate == track.rate
           n == Len(c)
           sum == Cumulative(c)
           start(i) == c[1].timestamp + SamplesToNs(sum[i - 1], rate)
           chunk(i) == [c[i] EXCEPT !.timestamp = start(i)]
           d == Normalized(track)
<1>1. n \in Nat /\ \A i \in 1..n : c[i] \in Chunks
  <2>1. n \in Nat
    BY LenProperties
  <2>2. QED
    BY <2>1, ElementOfSeq
<1>2. \A i \in 1..n : c[i].timestamp >= 0 /\ c[i].samples > 0
  <2>1. n # 0 => c # << >>
    OBVIOUS
  <2>2. DOMAIN c = 1..n
    BY LenProperties
  <2>3. QED
    BY <1>1, <2>1, <2>2 DEF Normalizable
<1>3. d = [i \in 1..n |-> chunk(i)]
  BY DEF Normalized
<1>4. \A i \in 0..n : sum[i] \in Nat
  BY <1>1, CumulativeGrows
<1>5. c \in Seq(Chunks) /\ rate \in Nat \ {0}
  OBVIOUS
<1>6. ASSUME NEW i \in 1..n
      PROVE  /\ start(i) \in Nat /\ chunk(i) \in Timed
             /\ chunk(i).timestamp = start(i) /\ chunk(i).samples = c[i].samples
  <2>1. i - 1 \in 0..n /\ 1 \in 1..n
    BY <1>1
  <2>2. SamplesToNs(sum[i - 1], rate) \in Nat
    <3>1. sum[i - 1] \in Nat
      BY <1>4, <2>1
    <3> HIDE DEF sum, rate
    <3>2. QED
      BY <1>5, <3>1, SamplesToNsBounds
  <2>3. c[1].timestamp \in Nat
    BY <1>1, <1>2, <2>1 DEF Chunks
  <2>4. start(i) \in Nat
    BY <2>2, <2>3
  <2>5. c[i] \in Chunks
    BY <1>1
  <2> HIDE DEF start, c
  <2>6. QED
    BY <2>4, <2>5 DEF Chunks, Timed
<1> HIDE DEF c, rate, n, sum, d, start, chunk
<1>7. d \in Seq(Timed) /\ Len(d) = n /\ \A i \in 1..n : d[i] = chunk(i)
  <2>1. \A i \in 1..n : d[i] = chunk(i)
    BY <1>3
  <2>2. d \in [1..n -> Timed]
    BY <1>3, <1>6
  <2>3. d \in Seq(Timed)
    BY <1>1, <2>2, SeqDef
  <2>4. Len(d) = n
    BY <1>1, <2>2, <2>3, LenProperties
  <2>5. QED
    BY <2>1, <2>3, <2>4
<1>8. \A i \in 0..n : Cumulative(d)[i] = sum[i]
  <2>1. \A i \in 1..n : d[i].samples = c[i].samples
    BY <1>6, <1>7
  <2>2. Len(c) \in Nat /\ Len(d) \in Nat /\ n <= Len(c) /\ n <= Len(d)
    BY <1>1, <1>7 DEF n
  <2>3. QED
    BY <1>1, <2>1, <2>2, CumulativeAgrees DEF sum
<1>9. ASSUME NEW i \in 1..n
      PROVE  /\ d[i].samples > 0
             /\ d[i].timestamp = d[1].timestamp + SamplesToNs(Cumulative(d)[i - 1], rate)
  <2>1. 1 \in 1..n /\ i - 1 \in 0..n /\ 1 - 1 = 0
    BY <1>1
  <2>2. d[i].samples > 0
    BY <1>2, <1>6, <1>7
  <2>3. d[1].timestamp = c[1].timestamp
    <3>1. sum[1 - 1] = 0
      BY <1>1, <2>1, CumulativeIs DEF n, sum
    <3>2. SamplesToNs(sum[1 - 1], rate) = 0
      BY <1>5, <3>1, NoSamples
    <3>3. start(1) = c[1].timestamp
      <4>1. c[1].timestamp \in Int
        BY <1>1, <2>1 DEF Chunks
      <4>2. QED
        BY <3>2, <4>1 DEF start
    <3>4. QED
      BY <1>6, <1>7, <2>1, <3>3
  <2>4. d[i].timestamp = start(i)
    BY <1>6, <1>7
  <2>5. Cumulative(d)[i - 1] = sum[i - 1]
    BY <1>8, <2>1
  <2>6. QED
    BY <2>2, <2>3, <2>4, <2>5 DEF start
<1>10. OnTimeline(d, rate)
  BY <1>7, <1>9 DEF OnTimeline
<1>11. QED
  BY <1>7, <1>10 DEF d, rate

\* A chunk followed by another that begins before the limit ends before it.
LEMMA FollowedFits ==
  ASSUME NEW c \in Seq(Timed), NEW rate \in Nat \ {0}, OnTimeline(c, rate),
         NEW limit \in Nat, NEW i \in 1..Len(c), i + 1 <= Len(c),
         c[i + 1].timestamp < limit
  PROVE  c[i].samples <= NsToSamplesFloor(limit - c[i].timestamp, rate)
<1> DEFINE N == NanosPerSecond
           h == rate \div 2
           x == Cumulative(c)[i - 1]
           s == c[i].samples
           X == SamplesToNs(x, rate)
           Y == SamplesToNs(x + s, rate)
           ns == limit - c[i].timestamp
           z == NsToSamplesFloor(ns, rate)
<1>1. /\ c \in Seq(Chunks) /\ Len(c) \in Nat /\ s \in Nat
      /\ c[1].timestamp \in Nat /\ N \in Nat \ {0} /\ h \in Nat
  <2>1. N \in Nat \ {0} /\ h \in Nat
    BY NanosAssumption
  <2>2. QED
    BY <2>1, TimedChunks
<1>2. i - 1 \in 0..Len(c) /\ i + 1 \in 1..Len(c) /\ (i + 1) - 1 = i /\ i \in Int
  BY <1>1
<1>3. x \in Nat /\ Cumulative(c)[i] = x + s
  BY <1>1, <1>2, CumulativeIs, CumulativeGrows
<1>4. /\ c[i].timestamp = c[1].timestamp + X
      /\ c[i + 1].timestamp = c[1].timestamp + Y
  BY <1>2, <1>3 DEF OnTimeline
<1> HIDE DEF x, s
<1>5. /\ X \in Nat /\ rate * X <= x * N + h
      /\ Y \in Nat /\ (x + s) * N + h < rate * Y + rate
  <2>1. x + s \in Nat
    BY <1>1, <1>3
  <2>2. X \in Nat /\ rate * X <= x * N + h
    BY <1>3, SamplesToNsBounds
  <2>3. Y \in Nat /\ (x + s) * N + h < rate * Y + rate
    BY <2>1, SamplesToNsBounds
  <2>4. QED
    BY <2>2, <2>3
<1> HIDE DEF X, Y, h
<1>6. ns \in Nat /\ Y - X + 1 <= ns
  <2> DEFINE first == c[1].timestamp
             next == c[i + 1].timestamp
             this == c[i].timestamp
  <2>1. first \in Nat /\ this = first + X /\ next = first + Y /\ next < limit
    BY <1>1, <1>4
  <2> HIDE DEF first, next, this
  <2>2. limit - this \in Int /\ limit - this >= Y - X + 1
    BY <1>5, <2>1
  <2>3. this <= next
    <3>1. c[i].timestamp <= c[i + 1].timestamp
      <4>1. Sorted(c)
        BY TimelineSorted
      <4>2. i \in 1..Len(c) /\ i + 1 \in 1..Len(c) /\ i <= i + 1
        BY <1>2
      <4>3. QED
        BY <4>1, <4>2 DEF Sorted
    <3>2. QED
      BY <3>1 DEF this, next
  <2>4. limit - this \in Nat
    BY <1>5, <2>1, <2>3
  <2>5. QED
    BY <2>2, <2>4 DEF this
<1> HIDE DEF ns
<1>7. z \in Nat /\ ns * rate < N * z + N
  BY <1>6, FloorBounds
<1> HIDE DEF z, N
<1>8. s * N < rate * ns
  <2> DEFINE e == ns - (Y - X + 1)
  <2>1. e \in Nat /\ ns + X = Y + 1 + e
    BY <1>5, <1>6
  <2> HIDE DEF e
  <2>2. /\ rate * (ns + X) = rate * ns + rate * X
        /\ rate * (Y + 1 + e) = rate * Y + rate + rate * e
        /\ (x + s) * N = x * N + s * N
        /\ rate * e \in Nat /\ rate * Y \in Nat /\ rate * X \in Nat
        /\ rate * ns \in Nat /\ x * N \in Nat /\ s * N \in Nat
    BY <1>1, <1>3, <1>5, <1>6, <2>1
  <2> DEFINE rX == rate * X
             rY == rate * Y
             rn == rate * ns
             re == rate * e
             xN == x * N
             sN == s * N
  <2>3. /\ rn + rX = rY + rate + re
        /\ xN + sN + h < rY + rate /\ rX <= xN + h
        /\ re \in Nat /\ rY \in Nat /\ rX \in Nat /\ rn \in Nat /\ xN \in Nat /\ sN \in Nat
    <3>1. rate * (ns + X) = rate * (Y + 1 + e)
      BY <2>1
    <3>2. rn + rX = rY + rate + re
      BY <2>2, <3>1
    <3>3. xN + sN + h < rY + rate
      BY <1>5, <2>2
    <3>4. QED
      BY <1>5, <2>2, <3>2, <3>3
  <2> HIDE DEF rX, rY, rn, re, xN, sN
  <2>4. sN < rn
    BY <1>1, <2>3
  <2>5. QED
    BY <2>4 DEF sN, rn
<1>9. ASSUME z + 1 <= s PROVE FALSE
  <2>1. N * (z + 1) <= N * s
    BY <1>1, <1>7, <1>9, ProductGrows
  <2>2. N * (z + 1) = N * z + N /\ N * s = s * N /\ rate * ns = ns * rate
        /\ N * z \in Nat /\ s * N \in Nat /\ ns * rate \in Nat
    BY <1>1, <1>6, <1>7
  <2> DEFINE Nz == N * z
             sN == s * N
             nr == ns * rate
  <2>3. Nz + N <= sN /\ sN < nr /\ nr < Nz + N
    BY <1>7, <1>8, <2>1, <2>2
  <2>4. Nz \in Nat /\ sN \in Nat /\ nr \in Nat
    BY <2>2
  <2> HIDE DEF Nz, sN, nr
  <2>5. QED
    BY <1>1, <2>3, <2>4
<1>10. QED
  BY <1>1, <1>7, <1>9 DEF s, z, ns

\* The crop of a timeline: d is on it, begins no chunk at the limit or later,
\* and its last chunk fits before it.
Cut(d, limit, rate) ==
  /\ d \in Seq(Timed)
  /\ OnTimeline(d, rate)
  /\ \A i \in 1..Len(d) :
       /\ d[i].timestamp < limit
       /\ i = Len(d) => d[i].samples <= NsToSamplesFloor(limit - d[i].timestamp, rate)

\* The crop at the end of the selected frames.
LEMMA CroppedIs ==
  ASSUME NEW c \in Seq(Timed), NEW rate \in Nat \ {0}, OnTimeline(c, rate),
         NEW limit \in Nat
  PROVE  Cut(Cropped(c, limit, rate), limit, rate)
<1> DEFINE k == Earlier(c, limit)
           n == Len(k)
           available == NsToSamplesFloor(limit - k[n].timestamp, rate)
<1>1. c \in Seq(Chunks) /\ Len(c) \in Nat /\ \A i \in 1..Len(c) : c[i] \in Timed
  BY TimedChunks
<1>2. Sorted(c)
  BY TimelineSorted
<1>3. /\ k \in Seq(Chunks) /\ n <= Len(c)
      /\ \A i \in 1..n : k[i] = c[i] /\ c[i].timestamp < limit
  <2>1. limit \in Int
    OBVIOUS
  <2>2. QED
    BY <1>1, <1>2, <2>1, EarlierIsPrefix
<1> HIDE DEF k
<1>4. n \in Nat /\ \A i \in 1..n : k[i] \in Timed /\ i \in 1..Len(c)
  <2>1. n \in Nat
    BY <1>3, LenProperties
  <2>2. QED
    BY <1>1, <1>3, <2>1
<1>5. k \in Seq(Timed)
  <2>1. k \in [1..n -> Timed]
    BY <1>3, <1>4, LenProperties
  <2>2. QED
    BY <1>4, <2>1, SeqDef
<1>6. \A i \in 1..n : k[i].samples > 0 /\ k[i].timestamp \in Nat /\ k[i].samples \in Nat
  <2>1. \A i \in 1..n : k[i].samples > 0
    BY <1>3, <1>4 DEF OnTimeline
  <2>2. QED
    BY <1>5, <2>1, TimedChunks
<1>7. OnTimeline(k, rate)
  <2>1. \A i \in 1..n : k[i].timestamp = c[i].timestamp /\ k[i].samples > 0
    BY <1>3, <1>6
  <2>2. \A i \in 1..(n - 1) : k[i].samples = c[i].samples
    <3>1. \A i \in 1..(n - 1) : i \in 1..n
      BY <1>4
    <3>2. QED
      BY <1>3, <3>1
  <2>3. QED
    BY <1>3, <1>5, <2>1, <2>2, CutOnTimeline
<1>8. CASE k = << >>
  <2>1. Cropped(c, limit, rate) = << >>
    BY <1>8 DEF Cropped, k
  <2>2. << >> \in Seq(Timed) /\ Len(<< >>) = 0
    BY EmptySeq
  <2>3. \A i \in 1..Len(<< >>) : FALSE
    BY <2>2
  <2>4. QED
    BY <2>1, <2>2, <2>3 DEF Cut, OnTimeline
<1>9. CASE k # << >>
  <2>1. n \in 1..n
    <3>1. n # 0
      BY <1>3, <1>9, EmptySeq
    <3>2. QED
      BY <1>4, <3>1
  <2>2. Cropped(c, limit, rate) = Trimmed(k, limit, rate)
    BY <1>9 DEF Cropped, k
  <2> DEFINE left == limit - k[n].timestamp
  <2>3. left \in Nat /\ available \in Nat
    <3>1. k[n].timestamp < limit /\ k[n].timestamp \in Nat
      BY <1>3, <1>6, <2>1
    <3>2. left \in Nat
      BY <3>1
    <3> HIDE DEF left
    <3>3. NsToSamplesFloor(left, rate) \in Nat
      BY <3>2, FloorBounds
    <3>4. QED
      BY <3>2, <3>3 DEF left
  <2> HIDE DEF available, left
  <2>4. CASE available = 0
    <3> DEFINE d == SubSeq(k, 1, n - 1)
    <3>1. Trimmed(k, limit, rate) = d
      BY <2>4 DEF Trimmed, available
    <3>2. d \in Seq(Timed) /\ Len(d) = n - 1 /\ \A i \in 1..(n - 1) : d[i] = k[i]
      BY <1>5, <1>9, WithoutLast
    <3> HIDE DEF d
    <3>3. \A i \in 1..(n - 1) : i \in 1..n /\ i + 1 \in 1..n /\ i + 1 <= n
      BY <1>4
    <3>4. OnTimeline(d, rate)
      <4>1. Len(d) <= n /\ \A i \in 1..(Len(d) - 1) : i \in 1..(n - 1)
        BY <1>4, <3>2
      <4>2. \A i \in 1..Len(d) : d[i].timestamp = k[i].timestamp /\ d[i].samples > 0
        BY <1>6, <3>2, <3>3
      <4>3. \A i \in 1..(Len(d) - 1) : d[i].samples = k[i].samples
        BY <3>2, <4>1
      <4>4. QED
        BY <1>5, <1>7, <3>2, <4>1, <4>2, <4>3, CutOnTimeline
    <3>5. ASSUME NEW i \in 1..Len(d)
          PROVE  /\ d[i].timestamp < limit
                 /\ d[i].samples <= NsToSamplesFloor(limit - d[i].timestamp, rate)
      <4>1. i \in 1..(n - 1) /\ d[i] = k[i]
        BY <3>2
      <4>2. k[i].timestamp < limit /\ k[i + 1].timestamp < limit
        BY <1>3, <3>3, <4>1
      <4>3. k[i].samples <= NsToSamplesFloor(limit - k[i].timestamp, rate)
        BY <1>5, <1>7, <3>3, <4>1, <4>2, FollowedFits
      <4>4. QED
        BY <4>1, <4>2, <4>3
    <3>6. Cut(d, limit, rate)
      BY <3>2, <3>4, <3>5 DEF Cut
    <3>7. QED
      BY <2>2, <3>1, <3>6
  <2>5. CASE available # 0 /\ available < k[n].samples
    <3> DEFINE d == [k EXCEPT ![n].samples = available]
    <3>1. Trimmed(k, limit, rate) = d
      BY <2>5 DEF Trimmed, available
    <3>2. k \in [1..n -> Timed]
      BY <1>5, LenProperties
    <3>3. /\ d \in [1..n -> Timed]
          /\ \A i \in 1..n : /\ d[i].timestamp = k[i].timestamp
                             /\ d[i].samples = IF i = n THEN available ELSE k[i].samples
      BY <2>1, <2>3, <3>2 DEF Timed
    <3> HIDE DEF d
    <3>4. d \in Seq(Timed)
      BY <1>4, <3>3, SeqDef
    <3>5. Len(d) = n
      BY <1>4, <3>3, <3>4, LenProperties
    <3>6. OnTimeline(d, rate)
      <4>1. \A i \in 1..(n - 1) : i \in 1..n /\ i # n
        BY <1>4
      <4>2. ASSUME NEW i \in 1..Len(d)
            PROVE  d[i].timestamp = k[i].timestamp /\ d[i].samples > 0
        <5>1. i \in 1..n
          BY <3>5
        <5>2. k[i].samples > 0 /\ available > 0
          BY <1>6, <2>3, <2>5, <5>1
        <5>3. d[i].samples = available \/ d[i].samples = k[i].samples
          BY <3>3, <5>1
        <5>4. QED
          BY <3>3, <5>1, <5>2, <5>3
      <4>3. \A i \in 1..(Len(d) - 1) : d[i].samples = k[i].samples
        BY <3>3, <3>5, <4>1
      <4>4. Len(d) <= n
        BY <1>4, <3>5
      <4>5. QED
        BY <1>5, <1>7, <3>4, <4>2, <4>3, <4>4, CutOnTimeline
    <3>7. ASSUME NEW i \in 1..Len(d)
          PROVE  /\ d[i].timestamp < limit
                 /\ i = Len(d) => d[i].samples <= NsToSamplesFloor(limit - d[i].timestamp, rate)
      <4>1. i \in 1..n /\ d[i].timestamp = k[i].timestamp /\ k[i].timestamp < limit
        BY <1>3, <3>3, <3>5
      <4>2. ASSUME i = n
            PROVE  d[i].samples <= NsToSamplesFloor(limit - d[i].timestamp, rate)
        <5>1. d[i].samples = available
          BY <2>1, <3>3, <4>2
        <5>2. NsToSamplesFloor(limit - d[i].timestamp, rate) = available
          BY <4>1, <4>2 DEF available
        <5>3. QED
          BY <2>3, <5>1, <5>2
      <4>3. QED
        BY <3>5, <4>1, <4>2
    <3>8. Cut(d, limit, rate)
      BY <3>4, <3>6, <3>7 DEF Cut
    <3>9. QED
      BY <2>2, <3>1, <3>8
  <2>6. CASE available # 0 /\ ~ (available < k[n].samples)
    <3>1. Trimmed(k, limit, rate) = k
      BY <2>6 DEF Trimmed, available
    <3>2. k[n].samples <= NsToSamplesFloor(limit - k[n].timestamp, rate)
      BY <1>6, <2>1, <2>3, <2>6 DEF available
    <3>3. \A i \in 1..n : k[i].timestamp < limit
      BY <1>3
    <3>4. Cut(k, limit, rate)
      BY <1>5, <1>7, <3>2, <3>3 DEF Cut
    <3>5. QED
      BY <2>2, <3>1, <3>4
  <2>7. QED
    BY <2>4, <2>5, <2>6
<1>10. QED
  BY <1>8, <1>9

\* Although its place on the timeline is rounded to nanoseconds and the start
\* of its clock to samples, a chunk is written within one sample of its place.
LEMMA PtsIsNear ==
  ASSUME NEW lead \in Nat, NEW before \in Nat, NEW rate \in 1..NanosPerSecond
  PROVE  (NsToSamplesNearest(lead, rate) + before) * NanosPerSecond
           - (lead + SamplesToNs(before, rate)) * rate
           \in (- NanosPerSecond)..NanosPerSecond
<1> DEFINE N == NanosPerSecond
           z == NsToSamplesNearest(lead, rate)
           x == SamplesToNs(before, rate)
           g == N \div 2
           h == rate \div 2
<1>1. N \in Nat \ {0} /\ rate \in Nat \ {0} /\ rate <= N
  BY NanosAssumption
<1>2. g \in Nat /\ h \in Nat /\ N <= 2 * g + 1 /\ 2 * g <= N /\ rate <= 2 * h + 1 /\ 2 * h <= rate
  BY <1>1
<1>3. z \in Nat /\ N * z <= lead * rate + g /\ lead * rate + g < N * z + N
  BY <1>1, NearestBounds
<1>4. x \in Nat /\ rate * x <= before * N + h /\ before * N + h < rate * x + rate
  BY <1>1, SamplesToNsBounds
<1> HIDE DEF N, z, x, g, h
<1> DEFINE Nz == N * z
           lr == lead * rate
           rx == rate * x
           bN == before * N
<1>5. Nz \in Nat /\ lr \in Nat /\ rx \in Nat /\ bN \in Nat
  BY <1>1, <1>3, <1>4
<1>6. (z + before) * N = Nz + bN /\ (lead + x) * rate = lr + rx
  BY <1>1, <1>3, <1>4
<1>7. Nz <= lr + g /\ lr + g < Nz + N /\ rx <= bN + h /\ bN + h < rx + rate
  BY <1>3, <1>4
<1> HIDE DEF Nz, lr, rx, bN
<1>8. (Nz + bN) - (lr + rx) \in (- N)..N
  BY <1>1, <1>2, <1>5, <1>7
<1>9. QED
  BY <1>6, <1>8 DEF N, z, x

\* What fits before the limit ends within one sample of it.
LEMMA EndIsNear ==
  ASSUME NEW lead \in Nat, NEW before \in Nat, NEW rate \in 1..NanosPerSecond,
         NEW rest \in Nat, NEW s \in Nat, s <= NsToSamplesFloor(rest, rate)
  PROVE  (NsToSamplesNearest(lead, rate) + before + s) * NanosPerSecond
           <= (lead + SamplesToNs(before, rate) + rest) * rate + NanosPerSecond
<1> DEFINE N == NanosPerSecond
           p == NsToSamplesNearest(lead, rate) + before
           t == lead + SamplesToNs(before, rate)
           f == NsToSamplesFloor(rest, rate)
<1>1. N \in Nat \ {0} /\ rate \in Nat \ {0}
  BY NanosAssumption
<1>2. p \in Nat /\ t \in Nat
  <2>1. NsToSamplesNearest(lead, rate) \in Nat
    BY <1>1, NearestBounds
  <2>2. SamplesToNs(before, rate) \in Nat
    BY <1>1, SamplesToNsBounds
  <2>3. QED
    BY <2>1, <2>2
<1>3. p * N - t * rate \in (- N)..N
  BY PtsIsNear
<1>4. f \in Nat /\ N * f <= rest * rate /\ s <= f
  BY <1>1, FloorBounds
<1> HIDE DEF N, p, t, f
<1>5. s * N <= f * N
  BY <1>1, <1>4, ProductGrows
<1> DEFINE pN == p * N
           sN == s * N
           fN == f * N
           tr == t * rate
           rr == rest * rate
<1>6. pN \in Nat /\ sN \in Nat /\ tr \in Nat /\ rr \in Nat /\ fN \in Nat
  BY <1>1, <1>2, <1>4
<1>7. (p + s) * N = pN + sN /\ (t + rest) * rate = tr + rr /\ N * f = fN
  BY <1>1, <1>2, <1>4
<1>8. pN <= tr + N /\ sN <= fN /\ fN <= rr
  BY <1>1, <1>3, <1>4, <1>5, <1>6, <1>7
<1> HIDE DEF pN, sN, fN, tr, rr
<1>9. pN + sN <= tr + rr + N
  BY <1>1, <1>6, <1>8
<1>10. QED
  BY <1>7, <1>9 DEF N, p, t

-----------------------------------------------------------------------------
(* The decoder leases.                                                     *)

\* The threads opening a decoder, outside the mutex.
Opening == {u \in Workers : lease[u] = "open"}
Leasing == {u \in Workers : lease[u] = "leased"}

Positions == 1..Len(idle_decoders)

LeaseType ==
  /\ opened \in Nat
  /\ idle_decoders \in Seq(1..opened)
  /\ lease \in [Workers -> {"none", "open", "leased", "loaded", "failed"}]
  /\ decoder \in [Workers -> 0..opened]

\* Exactly the leasing threads have a decoder.
LeasesHold == \A u \in Workers : decoder[u] # 0 <=> lease[u] = "leased"

HeldOnce ==
  \A u, v \in Workers : decoder[u] = decoder[v] => u = v \/ decoder[u] = 0

IdleOnce ==
  \A i, j \in Positions : idle_decoders[i] = idle_decoders[j] => i = j

IdleNotHeld == \A i \in Positions, u \in Workers : idle_decoders[i] # decoder[u]

NoneLost ==
  \A d \in 1..opened :
    \/ \E i \in Positions : idle_decoders[i] = d
    \/ \E u \in Workers : decoder[u] = d

\* A decoder is opened only by a thread that found all of them leased: each
\* of those being opened still has a thread that leases none.
RoomToOpen == opened + Cardinality(Opening) <= Cardinality(Workers)

LeaseInv ==
  /\ LeaseType
  /\ LeasesHold
  /\ HeldOnce
  /\ IdleOnce
  /\ IdleNotHeld
  /\ NoneLost
  /\ RoomToOpen

-----------------------------------------------------------------------------

\* Sets of threads are finite, and their sizes natural numbers.
LEMMA ThreadSets ==
  ASSUME NEW S \in SUBSET Workers
  PROVE  IsFiniteSet(S) /\ Cardinality(S) \in Nat
BY FramesAssumption, FS_Subset, FS_CardinalityType

\* The reader has one decoder, idle, and there is a thread for it.
LEMMA LeaseInit == Init => LeaseInv
<1> SUFFICES ASSUME Init PROVE LeaseInv
  OBVIOUS
<1> USE FramesAssumption DEF Init, DecoderInit
<1>1. LeaseType /\ LeasesHold /\ HeldOnce /\ IdleOnce /\ IdleNotHeld /\ NoneLost
  BY DEF LeaseType, LeasesHold, HeldOnce, IdleOnce, IdleNotHeld, NoneLost, Positions
<1>2. Opening = {}
  BY DEF Opening
<1>3. Cardinality(Opening) = 0
  BY <1>2, FS_EmptySet
<1>4. RoomToOpen
  BY <1>3 DEF RoomToOpen
<1> QED
  BY <1>1, <1>4 DEF LeaseInv

\* A thread takes the idle decoder that was returned last.
LEMMA TakeKeeps ==
  ASSUME LeaseInv, NEW u \in Workers, lease[u] = "none", TakeIdle(u), opened' = opened
  PROVE  LeaseInv'
<1> USE DEF LeaseInv, TakeIdle
<1> DEFINE n == Len(idle_decoders)
           d == idle_decoders[n]
<1>1. n \in Nat \ {0} /\ d \in 1..opened
  BY DEF LeaseType
<1>2. /\ idle_decoders' \in Seq(1..opened)
      /\ Len(idle_decoders') = n - 1
      /\ \A i \in 1..(n - 1) : idle_decoders'[i] = idle_decoders[i]
  <2>1. idle_decoders \in Seq(1..opened) /\ idle_decoders # << >>
    BY DEF LeaseType
  <2>2. idle_decoders' = SubSeq(idle_decoders, 1, Len(idle_decoders) - 1)
    OBVIOUS
  <2> QED
    BY <2>1, <2>2, WithoutLast
<1>3. \A v \in Workers : decoder'[v] = IF v = u THEN d ELSE decoder[v]
  BY DEF LeaseType
<1>4. LeaseType'
  BY <1>1, <1>2 DEF LeaseType
<1>5. LeasesHold'
  BY <1>1 DEF LeaseType, LeasesHold
<1>6. HeldOnce'
  BY <1>1, <1>3 DEF HeldOnce, IdleNotHeld, Positions
<1>7. IdleOnce'
  BY <1>1, <1>2 DEF IdleOnce, Positions
<1>8. IdleNotHeld'
  BY <1>1, <1>2, <1>3 DEF IdleNotHeld, IdleOnce, Positions
<1>9. NoneLost'
  <2> SUFFICES ASSUME NEW e \in 1..opened,
                      ~ \E v \in Workers : decoder'[v] = e
               PROVE  \E i \in 1..(n - 1) : idle_decoders'[i] = e
    BY <1>2 DEF NoneLost, Positions
  <2>1. ~ \E v \in Workers : decoder[v] = e
    <3> SUFFICES ASSUME NEW v \in Workers, decoder[v] = e PROVE FALSE
      OBVIOUS
    <3>1. v = u
      BY <1>3
    <3>2. decoder[u] = 0
      BY DEF LeasesHold
    <3> QED
      BY <3>1, <3>2
  <2>2. PICK i \in 1..n : idle_decoders[i] = e
    BY <2>1 DEF NoneLost, Positions
  <2>3. e # d
    BY <1>3
  <2> QED
    BY <1>1, <1>2, <2>2, <2>3
<1>10. RoomToOpen'
  <2>1. Opening' = Opening
    BY DEF Opening, LeaseType
  <2> QED
    BY <2>1 DEF RoomToOpen
<1> QED
  BY <1>4, <1>5, <1>6, <1>7, <1>8, <1>9, <1>10

\* A thread that finds no decoder idle goes on to open one.  Every decoder is
\* then leased by a thread that opens none, so the threads outnumber them.
LEMMA OpenerHasRoom ==
  ASSUME LeaseInv, NEW u \in Workers, lease[u] = "none", idle_decoders = << >>,
         lease' = [lease EXCEPT ![u] = "open"], UNCHANGED <<opened, idle_decoders, decoder>>
  PROVE  LeaseInv'
<1> USE DEF LeaseInv
<1>1. LeaseType' /\ LeasesHold'
  BY DEF LeaseType, LeasesHold
<1>2. HeldOnce' /\ IdleOnce' /\ IdleNotHeld' /\ NoneLost'
  BY DEF HeldOnce, IdleOnce, IdleNotHeld, NoneLost, Positions
<1>3. RoomToOpen'
  <2> DEFINE held == [v \in Leasing |-> decoder[v]]
  <2>1. held \in Surjection(Leasing, 1..opened)
    <3>1. \A v \in Leasing : decoder[v] \in 1..opened
      BY DEF Leasing, LeaseType, LeasesHold
    <3>2. ASSUME NEW d \in 1..opened PROVE \E v \in Leasing : held[v] = d
      <4>1. PICK v \in Workers : decoder[v] = d
        BY DEF NoneLost, Positions
      <4>2. v \in Leasing
        BY <4>1 DEF Leasing, LeasesHold
      <4> QED
        BY <4>1, <4>2
    <3> QED
      BY <3>1, <3>2 DEF Surjection
  <2>2. Cardinality(1..opened) <= Cardinality(Leasing)
    <3> HIDE DEF held
    <3> QED
      BY <2>1, ThreadSets, FS_Surjection DEF Leasing
  <2>3. Cardinality(1..opened) = opened
    BY FS_Interval DEF LeaseType
  <2>4. Opening' \cap Leasing = {} /\ Opening' \cup Leasing \subseteq Workers
    BY DEF Opening, Leasing, LeaseType
  <2>5. /\ Cardinality(Opening' \cup Leasing)
             = Cardinality(Opening') + Cardinality(Leasing)
        /\ Cardinality(Opening' \cup Leasing) <= Cardinality(Workers)
    <3>1. IsFiniteSet(Opening') /\ IsFiniteSet(Leasing)
      BY <2>4, ThreadSets
    <3>2. Cardinality(Opening') \in Nat /\ Cardinality(Leasing) \in Nat
      BY <2>4, ThreadSets
    <3>3. Cardinality(Opening' \cup Leasing)
            = Cardinality(Opening') + Cardinality(Leasing) - Cardinality({})
      BY <2>4, <3>1, FS_Union
    <3>4. Cardinality(Opening' \cup Leasing) <= Cardinality(Workers)
      BY <2>4, FramesAssumption, FS_Subset
    <3> QED
      BY <3>2, <3>3, <3>4, FS_EmptySet
  <2>6. /\ Cardinality(Opening') \in Nat /\ Cardinality(Leasing) \in Nat
        /\ Cardinality(Workers) \in Nat
    BY <2>4, ThreadSets
  <2> QED
    BY <2>2, <2>3, <2>5, <2>6 DEF RoomToOpen, LeaseType
<1> QED
  BY <1>1, <1>2, <1>3

\* DecoderLease's constructor, under the mutex.
LEMMA LeaseKeeps ==
  ASSUME LeaseInv, NEW u \in Workers, Lease(u)
  PROVE  LeaseInv'
<1>1. CASE TakeIdle(u)
  BY <1>1, TakeKeeps DEF Lease
<1>2. CASE ~TakeIdle(u)
  BY <1>2, OpenerHasRoom DEF Lease
<1> QED
  BY <1>1, <1>2

\* The rest of the constructor, without the mutex.
LEMMA OpenKeeps ==
  ASSUME LeaseInv, NEW u \in Workers, OpenDecoder(u)
  PROVE  LeaseInv'
<1> USE DEF LeaseInv, OpenDecoder
<1>1. /\ Opening' = Opening \ {u} /\ u \in Opening
      /\ IsFiniteSet(Opening) /\ Cardinality(Opening) \in Nat
  BY ThreadSets DEF Opening, LeaseType
<1>2. Cardinality(Opening') = Cardinality(Opening) - 1 /\ Cardinality(Workers) \in Nat
  BY <1>1, FS_RemoveElement, ThreadSets
<1>3. CASE lease' = [lease EXCEPT ![u] = "leased"]
  <2>1. opened' = opened + 1 /\ decoder' = [decoder EXCEPT ![u] = opened + 1]
    BY <1>3 DEF LeaseType
  <2>2. LeaseType'
    BY <1>3, <2>1 DEF LeaseType
  <2>3. LeasesHold'
    BY <1>3, <2>1 DEF LeasesHold, LeaseType
  <2>4. HeldOnce'
    BY <2>1 DEF HeldOnce, LeaseType
  <2>5. IdleOnce'
    BY DEF IdleOnce, Positions
  <2>6. IdleNotHeld'
    BY <2>1 DEF IdleNotHeld, Positions, LeaseType
  <2>7. NoneLost'
    <3>1. decoder[u] = 0
      BY DEF LeasesHold
    <3>2. \A v \in Workers : decoder'[v] = IF v = u THEN opened + 1 ELSE decoder[v]
      BY <2>1 DEF LeaseType
    <3> SUFFICES ASSUME NEW e \in 1..(opened + 1),
                        ~ \E v \in Workers : decoder'[v] = e
                 PROVE  \E i \in Positions : idle_decoders[i] = e
      BY <2>1 DEF NoneLost, Positions
    <3>3. e \in 1..opened
      BY <3>2 DEF LeaseType
    <3>4. ~ \E v \in Workers : decoder[v] = e
      BY <3>1, <3>2, <3>3
    <3> QED
      BY <3>3, <3>4 DEF NoneLost
  <2>8. RoomToOpen'
    BY <1>1, <1>2, <2>1 DEF RoomToOpen, LeaseType
  <2> QED
    BY <2>2, <2>3, <2>4, <2>5, <2>6, <2>7, <2>8
<1>4. CASE lease' = [lease EXCEPT ![u] = "failed"]
  <2>1. UNCHANGED <<opened, idle_decoders, decoder>>
    BY <1>4 DEF LeaseType
  <2>2. LeaseType' /\ LeasesHold'
    BY <1>4, <2>1 DEF LeaseType, LeasesHold
  <2>3. HeldOnce' /\ IdleOnce' /\ IdleNotHeld' /\ NoneLost'
    BY <2>1 DEF HeldOnce, IdleOnce, IdleNotHeld, NoneLost, Positions
  <2>4. RoomToOpen'
    BY <1>1, <1>2, <2>1 DEF RoomToOpen, LeaseType
  <2> QED
    BY <2>2, <2>3, <2>4
<1> QED
  BY <1>3, <1>4

\* DecoderLease's destructor puts the decoder at the end of the idle ones.
LEMMA ReturnKeeps ==
  ASSUME LeaseInv, NEW u \in Workers, ReturnDecoder(u)
  PROVE  LeaseInv'
<1> USE DEF LeaseInv, ReturnDecoder
<1> DEFINE n == Len(idle_decoders)
           d == decoder[u]
<1>1. n \in Nat /\ d \in 1..opened
  BY DEF LeaseType, LeasesHold
<1>2. /\ idle_decoders' \in Seq(1..opened)
      /\ Len(idle_decoders') = n + 1
      /\ \A i \in 1..(n + 1) :
           idle_decoders'[i] = IF i = n + 1 THEN d ELSE idle_decoders[i]
  <2>1. idle_decoders \in Seq(1..opened) /\ d \in 1..opened
    BY <1>1 DEF LeaseType
  <2>2. idle_decoders' = Append(idle_decoders, d)
    OBVIOUS
  <2> HIDE DEF d
  <2> QED
    BY ONLY <2>1, <2>2
<1>3. \A v \in Workers : decoder'[v] = IF v = u THEN 0 ELSE decoder[v]
  BY DEF LeaseType
<1>4. LeaseType'
  BY <1>2 DEF LeaseType
<1>5. LeasesHold'
  BY DEF LeaseType, LeasesHold
<1>6. HeldOnce'
  BY <1>3 DEF HeldOnce
<1>7. IdleOnce'
  BY <1>1, <1>2 DEF IdleOnce, IdleNotHeld, Positions
<1>8. IdleNotHeld'
  <2> SUFFICES ASSUME NEW i \in 1..(n + 1), NEW v \in Workers
               PROVE  idle_decoders'[i] # decoder'[v]
    BY <1>2 DEF IdleNotHeld, Positions
  <2>1. idle_decoders'[i] \in 1..opened
    <3>1. i # n + 1 => idle_decoders[i] \in 1..opened
      BY <1>1 DEF LeaseType
    <3> QED
      BY <1>1, <1>2, <3>1
  <2>2. v # u => idle_decoders'[i] # decoder[v]
    BY <1>1, <1>2 DEF IdleNotHeld, HeldOnce, Positions
  <2> QED
    BY <1>3, <2>1, <2>2
<1>9. NoneLost'
  <2> SUFFICES ASSUME NEW e \in 1..opened
               PROVE  \/ \E i \in 1..(n + 1) : idle_decoders'[i] = e
                      \/ \E v \in Workers : decoder'[v] = e
    BY <1>2 DEF NoneLost, Positions
  <2>1. CASE \E i \in 1..n : idle_decoders[i] = e
    BY <1>1, <1>2, <2>1
  <2>2. CASE \E v \in Workers : decoder[v] = e
    BY <1>1, <1>2, <1>3, <2>2
  <2> QED
    BY <2>1, <2>2 DEF NoneLost, Positions
<1>10. RoomToOpen'
  <2>1. Opening' = Opening
    BY DEF Opening, LeaseType
  <2> QED
    BY <2>1 DEF RoomToOpen
<1> QED
  BY <1>4, <1>5, <1>6, <1>7, <1>8, <1>9, <1>10

\* A frame that has been used changes no lease, nor does anything else.
LEMMA RestKeeps ==
  ASSUME LeaseInv, \/ \E u \in Workers : EndLoad(u)
                   \/ UNCHANGED decoderVars
  PROVE  LeaseInv'
<1> USE DEF LeaseInv, EndLoad, decoderVars
<1>1. UNCHANGED <<opened, idle_decoders, decoder>>
  OBVIOUS
<1>2. LeaseType' /\ LeasesHold'
  BY DEF LeaseType, LeasesHold
<1>3. HeldOnce' /\ IdleOnce' /\ IdleNotHeld' /\ NoneLost'
  BY <1>1 DEF HeldOnce, IdleOnce, IdleNotHeld, NoneLost, Positions
<1>4. Opening' = Opening
  BY DEF Opening, LeaseType
<1>5. RoomToOpen'
  BY <1>1, <1>4 DEF RoomToOpen
<1> QED
  BY <1>2, <1>3, <1>5

\* Only the workers lease, one step at a time.
LEMMA LeaseNext == LeaseInv /\ [Next]_vars => LeaseInv'
<1> SUFFICES ASSUME LeaseInv, [Next]_vars PROVE LeaseInv'
  OBVIOUS
<1>1. CASE Main \/ Terminated \/ UNCHANGED vars
  BY <1>1, RestKeeps DEF Main, Terminated, vars
<1>2. ASSUME NEW w \in Workers, Worker(w) PROVE LeaseInv'
  <2>1. CASE UNCHANGED decoderVars
    BY <2>1, RestKeeps
  <2>2. CASE LoadFrame(w)
    BY <2>2, LeaseKeeps, OpenKeeps, ReturnKeeps DEF LoadFrame
  <2>3. CASE EndTask(w)
    BY <2>3, RestKeeps DEF EndTask
  <2> QED
    BY <1>2, <2>1, <2>2, <2>3 DEF Worker
<1> QED
  BY <1>1, <1>2 DEF Next

\* What is known of the leases is what the property says of them.
LEMMA LeasesExclusive == LeaseInv => DecodersExclusive
<1> SUFFICES ASSUME LeaseInv PROVE DecodersExclusive
  OBVIOUS
<1> USE DEF LeaseInv
<1>1. DOMAIN idle_decoders = Positions /\ DOMAIN decoder = Workers
  BY DEF LeaseType, Positions
<1>2. Range(idle_decoders) \cap Range(decoder) = {}
  BY <1>1 DEF IdleNotHeld, Range
<1>3. 1..opened \subseteq Range(idle_decoders) \cup Range(decoder)
  BY <1>1 DEF NoneLost, Range
<1>4. opened <= ParallelFrames
  <2>1. Opening \in SUBSET Workers
    BY DEF Opening
  <2>2. Cardinality(Opening) \in Nat
    BY <2>1, ThreadSets
  <2> QED
    BY <2>2, FramesAssumption DEF RoomToOpen, LeaseType
<1>5. HeldOnce /\ IdleOnce
  OBVIOUS
<1> QED
  BY <1>1, <1>2, <1>3, <1>4, <1>5 DEF DecodersExclusive, HeldOnce, IdleOnce

\* However many frames are loaded at once, no two threads share a decoder,
\* none is lost, and no more are opened than threads load frames.
\* (McrawReader::DecoderLease.)
THEOREM LeasesAreExclusive == Spec => []DecodersExclusive
<1>1. Spec => []LeaseInv
  BY LeaseInit, LeaseNext, PTL DEF Spec
<1> QED
  BY <1>1, LeasesExclusive, PTL

-----------------------------------------------------------------------------
(* Frames in source order.                                                 *)

Callers == {"none", "loop", "sleep", "run", "account", "exited"}

PoolType ==
  /\ accepting \in BOOLEAN
  /\ tasks \in Seq(Tasks)
  /\ worker \in [Workers -> Callers]
  /\ running \in [Workers -> {<< >>} \union {<<t>> : t \in Tasks}]
  /\ stop \in [Workers -> BOOLEAN]
  /\ future \in [Tasks -> FutureStates]
  /\ tasks_started \in Nat /\ tasks_completed \in Nat /\ tasks_cancelled \in Nat

MainType ==
  /\ main \in Places
  /\ submitted \in 0..NumFrames
  /\ pending \in Seq(Tasks)
  /\ frames_completed \in 0..NumFrames
  /\ consumed \in 0..NumFrames
  /\ reported \in Seq(Nat)
  /\ error \in Failures

\* What the proofs of the order of the frames carry along.
Ordered ==
  /\ PoolType
  /\ MainType
  /\ PendingInOrder
  /\ TasksInOrder
  /\ RunningTask
  /\ FailureInOrder

\* The conjuncts of PendingInOrder and TasksInOrder while the scope lasts.
Queued ==
  /\ accepting /\ error = NoError
  /\ Taken + Len(pending) = submitted /\ Len(pending) <= ParallelFrames
  /\ \A i \in 1..Len(pending) : pending[i] = Taken + i
  /\ InFlight = (Taken + 1)..submitted

Reached ==
  /\ main = "audio" => consumed = Taken
  /\ main \in {"prepare", "construct"} => submitted = 0
  /\ main = "telemetry" => frames_completed = NumFrames

QueueHas ==
  \A i \in 1..Len(tasks) : /\ tasks[i] = submitted - Len(tasks) + i
                           /\ future[tasks[i]] = "pending"

WorkersHave ==
  \A w \in Workers : worker[w] = "run" =>
    /\ future[running[w][1]] = "pending"
    /\ running[w][1] <= submitted - Len(tasks)

RunOnce ==
  \A v, w \in Workers :
    worker[v] = "run" /\ worker[w] = "run" /\ running[v] = running[w] => v = w

\* The order of the frames, in these parts.
LEMMA OrderParts ==
  /\ PendingInOrder <=> (Going => Queued /\ Reached)
  /\ TasksInOrder <=> (Going => QueueHas /\ WorkersHave /\ RunOnce)
BY DEF PendingInOrder, TasksInOrder, Queued, Reached, QueueHas, WorkersHave, RunOnce

\* The same after a step.
LEMMA OrderPartsNext ==
  /\ PendingInOrder' <=> (Going' => Queued' /\ Reached')
  /\ TasksInOrder' <=> (Going' => QueueHas' /\ WorkersHave' /\ RunOnce')
BY OrderParts, PTL

\* No frame has been submitted.
LEMMA OrderInit == Init => Ordered
<1> SUFFICES ASSUME Init PROVE Ordered
  OBVIOUS
<1> USE FramesAssumption DEF Init, PoolInit
<1>1. PoolType
  BY DEF PoolType, Callers, FutureStates
<1>2. MainType
  BY DEF MainType, Places, Failures, NoError
<1>3. Queued /\ Reached
  <2>1. Taken = 0 /\ Len(pending) = 0
    BY DEF Taken
  <2>2. InFlight = {}
    BY DEF InFlight
  <2>3. QED
    BY <2>1, <2>2 DEF Queued, Reached
<1>4. QueueHas /\ WorkersHave /\ RunOnce /\ RunningTask
  BY DEF QueueHas, WorkersHave, RunOnce, RunningTask
<1>5. FailureInOrder
  BY DEF FailureInOrder, NoError
<1>6. QED
  BY <1>1, <1>2, <1>3, <1>4, <1>5, OrderParts DEF Ordered

\* Steps of the main thread that neither touch the pool nor consume a future.
LEMMA QuietOrder ==
  ASSUME Ordered, UNCHANGED poolVars,
         UNCHANGED <<submitted, pending, frames_completed, consumed, reported, error>>,
         \/ main = "prepare" /\ main' = "construct"
         \/ main = "loop" /\ main' = "loop"
         \/ main = "audio" /\ main' = "audio"
         \/ AllConsumed /\ main' = "telemetry"
  PROVE  Ordered'
<1>0. UNCHANGED <<accepting, tasks, worker, running, stop, future,
                  tasks_started, tasks_completed, tasks_cancelled>>
  BY DEF poolVars, poolCounters
<1>1. PoolType' /\ MainType'
  BY <1>0 DEF Ordered, PoolType, MainType, Places
<1>2. Going /\ Going' /\ Taken' = Taken
  BY DEF AllConsumed, Going, Taken
<1>3. Queued /\ Reached /\ QueueHas /\ WorkersHave /\ RunOnce
  BY <1>2, OrderParts DEF Ordered
<1>4. Queued'
  <2>1. InFlight' = InFlight
    BY <1>0 DEF InFlight
  <2>2. QED
    BY <1>0, <1>2, <1>3, <2>1 DEF Queued
<1>5. Reached'
  <2>1. AllConsumed => frames_completed = NumFrames
    BY <1>3 DEF AllConsumed, Queued, Taken, Ordered, MainType
  <2>2. QED
    BY <1>2, <1>3, <2>1 DEF Reached
<1>6. QueueHas' /\ WorkersHave' /\ RunOnce' /\ RunningTask'
  BY <1>0, <1>3 DEF QueueHas, WorkersHave, RunOnce, RunningTask, Ordered
<1>7. FailureInOrder'
  BY DEF FailureInOrder, Ordered
<1>8. QED
  BY <1>1, <1>4, <1>5, <1>6, <1>7, OrderPartsNext DEF Ordered

\* An exception that does not come from the frames.
LEMMA ThrowOrder ==
  ASSUME Ordered, NEW what, NEW i, <<what, i>> \in Failures,
         what \in {"task", "video"} => frames_completed = i - 1,
         Throw(what, i), UNCHANGED <<accepting, tasks, worker, running, stop, poolCounters>>,
         UNCHANGED <<submitted, frames_completed, consumed, reported>>,
         future' \in [Tasks -> FutureStates]
  PROVE  Ordered'
<1> USE DEF Throw
<1>1. PoolType'
  BY DEF Ordered, PoolType, poolCounters
<1>2. MainType'
  <2>1. pending' \in Seq(Tasks) /\ main' \in Places
    BY DEF Places
  <2>2. QED
    BY <2>1 DEF Ordered, MainType
<1>3. ~Going'
  BY DEF Going
<1>4. RunningTask'
  BY DEF Ordered, RunningTask
<1>5. FailureInOrder'
  BY DEF FailureInOrder
<1>6. QED
  BY <1>1, <1>2, <1>3, <1>4, <1>5, OrderPartsNext DEF Ordered

\* A frame is submitted.
LEMMA SubmitOrder ==
  ASSUME Ordered, SubmitFrame
  PROVE  Ordered'
<1> DEFINE t == submitted + 1
<1> USE DEF SubmitFrame, PushTask
<1>1. /\ main = "loop" /\ main' = "loop" /\ Going /\ Going' /\ Taken' = Taken
      /\ Len(pending) < ParallelFrames /\ t \in Tasks /\ submitted' = t
      /\ t \in 0..NumFrames /\ Taken \in Nat /\ submitted \in Nat
  BY FramesAssumption DEF Going, Taken, KeepSubmitting, Ordered, MainType
<1>2. Queued /\ QueueHas /\ WorkersHave /\ RunOnce
  BY <1>1, OrderParts DEF Ordered
<1>3. /\ pending \in Seq(Tasks) /\ tasks \in Seq(Tasks)
      /\ Len(pending) \in Nat /\ Len(tasks) \in Nat
  BY DEF Ordered, PoolType, MainType
<1>4. /\ pending' \in Seq(Tasks) /\ Len(pending') = Len(pending) + 1
      /\ \A i \in 1..Len(pending) : pending'[i] = pending[i]
      /\ pending'[Len(pending) + 1] = t
  BY <1>1, <1>3, AppendProperties
<1>5. /\ tasks' \in Seq(Tasks) /\ Len(tasks') = Len(tasks) + 1
      /\ \A i \in 1..Len(tasks) : tasks'[i] = tasks[i]
      /\ tasks'[Len(tasks) + 1] = t
  BY <1>1, <1>3, AppendProperties
<1> HIDE DEF t
<1>6. future' = [future EXCEPT ![t] = "pending"] /\ future \in [Tasks -> FutureStates]
  BY DEF t, Ordered, PoolType
<1>7. PoolType'
  <2>1. worker' \in [Workers -> Callers]
    BY DEF Ordered, PoolType, Callers
  <2>2. future' \in [Tasks -> FutureStates]
    BY <1>6 DEF FutureStates
  <2>3. QED
    BY <1>5, <2>1, <2>2 DEF Ordered, PoolType, poolCounters
<1>8. MainType'
  BY <1>1, <1>4 DEF Ordered, MainType
<1>9. Queued'
  <2>0. Taken + Len(pending) = submitted
    BY <1>2 DEF Queued
  <2>1. Taken' + Len(pending') = submitted' /\ Len(pending') <= ParallelFrames
    <3>1. Taken' = Taken /\ submitted' = submitted + 1 /\ Len(pending') = Len(pending) + 1
      BY <1>1, <1>4 DEF t
    <3>2. ParallelFrames \in Nat /\ Taken \in Nat /\ Len(pending) < ParallelFrames
      BY <1>1, FramesAssumption
    <3>3. QED
      BY <1>3, <2>0, <3>1, <3>2
  <2>2. ASSUME NEW i \in 1..Len(pending') PROVE pending'[i] = Taken' + i
    <3>1. CASE i \in 1..Len(pending)
      BY <1>1, <1>2, <1>4, <3>1 DEF Queued
    <3>2. CASE i = Len(pending) + 1
      <4>1. pending'[i] = submitted + 1 /\ Taken' = Taken /\ Taken \in Nat
        BY <1>1, <1>4, <3>2 DEF t
      <4>2. QED
        BY <1>3, <2>0, <3>2, <4>1
    <3>3. QED
      BY <1>3, <1>4, <3>1, <3>2
  <2>3. InFlight' = InFlight \union {t}
    BY <1>1, <1>6 DEF InFlight
  <2>4. InFlight' = (Taken' + 1)..submitted'
    <3>1. Taken + 1 <= t
      BY <1>1, <1>2, <1>3 DEF Queued, t
    <3>2. (Taken + 1)..t = ((Taken + 1)..submitted) \union {t}
      BY <1>1, <3>1 DEF t
    <3>3. QED
      BY <1>1, <1>2, <2>3, <3>2 DEF Queued
  <2>5. accepting' /\ error' = NoError
    BY <1>2 DEF Queued
  <2>6. QED
    BY <2>1, <2>2, <2>4, <2>5 DEF Queued
<1>10. Reached'
  BY <1>1 DEF Reached
<1>11. QueueHas'
  <2> SUFFICES ASSUME NEW i \in 1..Len(tasks')
               PROVE  /\ tasks'[i] = submitted' - Len(tasks') + i
                      /\ future'[tasks'[i]] = "pending"
    BY DEF QueueHas
  <2>1. CASE i \in 1..Len(tasks)
    <3>1. tasks'[i] = tasks[i] /\ tasks[i] \in Tasks /\ future[tasks[i]] = "pending"
      BY <1>2, <1>3, <1>5, <2>1 DEF QueueHas
    <3>2. future'[tasks[i]] = "pending"
      BY <1>6, <3>1
    <3>3. tasks[i] = submitted - Len(tasks) + i
      BY <1>2, <2>1 DEF QueueHas
    <3>4. QED
      BY <1>1, <1>3, <1>5, <3>1, <3>2, <3>3 DEF t
  <2>2. CASE i = Len(tasks) + 1
    BY <1>1, <1>3, <1>5, <1>6, <2>2 DEF t
  <2>3. QED
    BY <1>3, <1>5, <2>1, <2>2
<1>12. \A w \in Workers : worker'[w] = "run" => worker[w] = "run"
  BY DEF Ordered, PoolType
<1>13. WorkersHave'
  <2> SUFFICES ASSUME NEW w \in Workers, worker'[w] = "run"
               PROVE  /\ future'[running'[w][1]] = "pending"
                      /\ running'[w][1] <= submitted' - Len(tasks')
    BY DEF WorkersHave
  <2>1. /\ running' = running /\ future[running[w][1]] = "pending"
        /\ running[w][1] <= submitted - Len(tasks)
    BY <1>2, <1>12 DEF WorkersHave
  <2>2. running[w][1] \in Tasks
    BY <1>12 DEF Ordered, PoolType, RunningTask
  <2>3. future'[running[w][1]] = "pending"
    BY <1>6, <2>1, <2>2
  <2>4. submitted' - Len(tasks') = submitted - Len(tasks)
    BY <1>1, <1>3, <1>5 DEF t
  <2>5. QED
    BY <2>1, <2>3, <2>4
<1>14. RunOnce' /\ RunningTask'
  BY <1>2, <1>12 DEF RunOnce, RunningTask, Ordered
<1>15. FailureInOrder'
  BY DEF FailureInOrder, Ordered
<1>16. QED
  BY <1>7, <1>8, <1>9, <1>10, <1>11, <1>13, <1>14, <1>15, OrderPartsNext DEF Ordered

\* The oldest future, the caller about to fetch its result.
LEMMA FrontIs ==
  ASSUME Ordered, main = "loop", pending # << >>
  PROVE  /\ Going /\ Taken = frames_completed /\ Taken \in Nat
         /\ Queued /\ QueueHas /\ WorkersHave /\ RunOnce
         /\ Head(pending) = Taken + 1 /\ Head(pending) \in Tasks
         /\ Len(pending) \in Nat \ {0} /\ Taken + 1 <= submitted
<1>1. Going /\ Taken = frames_completed /\ Taken \in Nat
  BY DEF Going, Taken, Ordered, MainType
<1>2. Queued /\ QueueHas /\ WorkersHave /\ RunOnce
  BY <1>1, OrderParts DEF Ordered
<1>3. pending \in Seq(Tasks) /\ submitted \in Nat
  BY DEF Ordered, MainType
<1>4. Len(pending) \in Nat \ {0} /\ Head(pending) = pending[1] /\ pending[1] \in Tasks
  BY <1>3
<1>5. Taken + Len(pending) = submitted /\ pending[1] = Taken + 1
  BY <1>2, <1>4 DEF Queued
<1>6. QED
  BY <1>1, <1>2, <1>3, <1>4, <1>5

\* The result of the oldest frame is fetched, whatever else is finished.
LEMMA ConsumeOrder ==
  ASSUME Ordered, Consume
  PROVE  Ordered'
<1> DEFINE t == Head(pending)
<1> USE DEF Consume
<1>1. /\ Going /\ Taken = frames_completed /\ Taken \in Nat
      /\ Queued /\ QueueHas /\ WorkersHave /\ RunOnce
      /\ t = Taken + 1 /\ t \in Tasks
      /\ Len(pending) \in Nat \ {0} /\ Taken + 1 <= submitted
  BY FrontIs
<1>2. /\ Going' /\ Taken' = Taken + 1 /\ main' = "audio" /\ consumed' = t
      /\ submitted' = submitted /\ submitted \in Nat /\ frames_completed' = frames_completed
      /\ future[t] = "ready" /\ future' = [future EXCEPT ![t] = "consumed"]
      /\ future \in [Tasks -> FutureStates]
  BY <1>1 DEF Going, Taken, Ordered, MainType, PoolType
<1>3. pending \in Seq(Tasks) /\ pending # << >>
  BY DEF Ordered, MainType
<1>4. /\ pending' \in Seq(Tasks) /\ Len(pending') = Len(pending) - 1
      /\ \A i \in 1..Len(pending') : pending'[i] = pending[i + 1]
  BY <1>3, HeadTailProperties
<1> HIDE DEF t
<1>5. PoolType'
  <2>1. future' \in [Tasks -> FutureStates]
    BY <1>2 DEF FutureStates
  <2>2. QED
    BY <2>1 DEF Ordered, PoolType, poolCounters
<1>6. MainType'
  <2>1. t \in 0..NumFrames
    BY <1>1, FramesAssumption
  <2>2. main' \in Places
    BY <1>2 DEF Places
  <2>3. QED
    BY <1>2, <1>4, <2>1, <2>2 DEF Ordered, MainType
<1>7. Queued'
  <2>1. Taken + Len(pending) = submitted /\ Len(pending) <= ParallelFrames
        /\ \A i \in 1..Len(pending) : pending[i] = Taken + i
    BY <1>1 DEF Queued
  <2>2. Taken' + Len(pending') = submitted' /\ Len(pending') <= ParallelFrames
    <3>1. ParallelFrames \in Nat /\ Taken \in Nat /\ Len(pending) \in Nat
      BY <1>1, FramesAssumption
    <3>2. Taken' = Taken + 1 /\ Len(pending') = Len(pending) - 1 /\ submitted' = submitted
      BY <1>2, <1>4
    <3>3. QED
      BY <2>1, <3>1, <3>2
  <2>3. ASSUME NEW i \in 1..Len(pending') PROVE pending'[i] = Taken' + i
    <3>1. i + 1 \in 1..Len(pending)
      BY <1>1, <1>4
    <3>2. pending'[i] = Taken + (i + 1)
      BY <1>4, <2>1, <3>1
    <3>3. QED
      BY <1>1, <1>2, <3>2
  <2>4. InFlight' = InFlight \ {t}
    BY <1>1, <1>2 DEF InFlight
  <2>5. InFlight' = (Taken' + 1)..submitted'
    <3>1. ((Taken + 1)..submitted) \ {Taken + 1} = ((Taken + 1) + 1)..submitted
      BY <1>1, <1>2
    <3>2. QED
      BY <1>1, <1>2, <2>4, <3>1 DEF Queued
  <2>6. accepting' /\ error' = NoError
    BY <1>1 DEF Queued
  <2>7. QED
    BY <2>2, <2>3, <2>5, <2>6 DEF Queued
<1>8. Reached'
  BY <1>1, <1>2 DEF Reached
<1>9. QueueHas'
  <2> SUFFICES ASSUME NEW i \in 1..Len(tasks)
               PROVE  /\ tasks[i] = submitted - Len(tasks) + i
                      /\ future'[tasks[i]] = "pending"
    BY <1>2 DEF QueueHas
  <2>1. /\ tasks[i] = submitted - Len(tasks) + i
        /\ future[tasks[i]] = "pending"
    BY <1>1 DEF QueueHas
  <2>2. tasks[i] \in Tasks
    BY DEF Ordered, PoolType
  <2>3. QED
    BY <1>2, <2>1, <2>2
<1>10. WorkersHave'
  <2> SUFFICES ASSUME NEW w \in Workers, worker[w] = "run"
               PROVE  /\ future'[running[w][1]] = "pending"
                      /\ running[w][1] <= submitted - Len(tasks)
    BY <1>2 DEF WorkersHave
  <2>1. future[running[w][1]] = "pending" /\ running[w][1] <= submitted - Len(tasks)
    BY <1>1 DEF WorkersHave
  <2>2. running[w][1] \in Tasks
    BY DEF Ordered, PoolType, RunningTask
  <2>3. QED
    BY <1>2, <2>1, <2>2
<1>11. RunOnce' /\ RunningTask'
  BY <1>1 DEF RunOnce, RunningTask, Ordered
<1>12. FailureInOrder'
  BY DEF FailureInOrder, Ordered
<1>13. QED
  BY <1>5, <1>6, <1>7, <1>8, <1>9, <1>10, <1>11, <1>12, OrderPartsNext DEF Ordered

\* The oldest frame failed: all frames before it were written.
LEMMA ConsumeFailsOrder ==
  ASSUME Ordered, ConsumeFails
  PROVE  Ordered'
<1> DEFINE t == Head(pending)
<1> USE DEF ConsumeFails
<1>1. /\ Taken = frames_completed /\ Taken \in Nat /\ t = Taken + 1 /\ t \in Tasks
  BY FrontIs
<1> HIDE DEF t
<1>2. Throw("task", t) /\ future' = [future EXCEPT ![t] = "consumed"]
  BY DEF t
<1>3. <<"task", t>> \in Failures /\ frames_completed = t - 1
  BY <1>1, FramesAssumption DEF Failures
<1>4. future' \in [Tasks -> FutureStates]
  BY <1>2 DEF Ordered, PoolType, FutureStates
<1>5. UNCHANGED <<accepting, tasks, worker, running, stop, poolCounters>>
      /\ UNCHANGED <<submitted, frames_completed, consumed, reported>>
  OBVIOUS
<1>6. QED
  BY <1>2, <1>3, <1>4, <1>5, ThrowOrder

\* A frame is written, or fails to be, after all the frames before it.
LEMMA WriteVideoOrder ==
  ASSUME Ordered, WriteVideo
  PROVE  Ordered'
<1> USE DEF WriteVideo
<1>1. UNCHANGED <<accepting, tasks, worker, running, stop, future,
                  tasks_started, tasks_completed, tasks_cancelled>>
      /\ UNCHANGED <<submitted, consumed, reported>>
  BY DEF poolVars, poolCounters
<1>2. /\ Going /\ Taken = frames_completed + 1 /\ Queued /\ Reached
      /\ QueueHas /\ WorkersHave /\ RunOnce
  <2>1. Going
    BY DEF Going
  <2>2. QED
    BY <2>1, OrderParts DEF Ordered, Taken
<1>3. /\ consumed = frames_completed + 1 /\ frames_completed \in Nat
      /\ frames_completed + 1 \in 0..NumFrames
  <2>1. consumed = frames_completed + 1
    BY <1>2 DEF Reached
  <2>2. QED
    BY <2>1 DEF Ordered, MainType
<1>4. CASE Throw("video", consumed)
  <2>1. <<"video", consumed>> \in Failures /\ frames_completed = consumed - 1
    BY <1>3 DEF Failures
  <2>2. future' \in [Tasks -> FutureStates] /\ UNCHANGED frames_completed
    BY <1>1, <1>4 DEF Ordered, PoolType, Throw
  <2>3. UNCHANGED <<accepting, tasks, worker, running, stop, poolCounters>>
    BY <1>1 DEF poolCounters
  <2>4. QED
    BY <1>1, <1>4, <2>1, <2>2, <2>3, ThrowOrder
<1>5. CASE frames_completed' = frames_completed + 1 /\ main' = "loop"
           /\ UNCHANGED <<pending, error>>
  <2>1. Going' /\ Taken' = Taken
    BY <1>2, <1>5 DEF Going, Taken
  <2>2. PoolType' /\ MainType'
    BY <1>1, <1>3, <1>5 DEF Ordered, PoolType, MainType, Places
  <2>3. InFlight' = InFlight
    BY <1>1 DEF InFlight
  <2>4. Queued' /\ Reached'
    BY <1>1, <1>2, <1>5, <2>1, <2>3 DEF Queued, Reached
  <2>5. QueueHas' /\ WorkersHave' /\ RunOnce' /\ RunningTask'
    BY <1>1, <1>2 DEF QueueHas, WorkersHave, RunOnce, RunningTask, Ordered
  <2>6. FailureInOrder'
    BY <1>2, <1>5 DEF FailureInOrder, Queued, NoError
  <2>7. QED
    BY <2>2, <2>4, <2>5, <2>6, OrderPartsNext DEF Ordered
<1>6. QED
  BY <1>4, <1>5

\* The workers are created; nothing is submitted before.
LEMMA ConstructOrder ==
  ASSUME Ordered, Construct
  PROVE  Ordered'
<1> USE DEF Construct, StartWorkers
<1>1. UNCHANGED <<accepting, tasks, running, stop, future,
                  tasks_started, tasks_completed, tasks_cancelled>>
      /\ UNCHANGED <<submitted, pending, frames_completed, consumed, reported, error>>
  BY DEF poolCounters
<1>2. /\ Going /\ Going' /\ Taken' = Taken /\ Queued /\ Reached /\ QueueHas
  <2>1. Going /\ Going' /\ Taken' = Taken
    BY <1>1 DEF Going, Taken
  <2>2. QED
    BY <2>1, OrderParts DEF Ordered
<1>3. PoolType' /\ MainType'
  BY <1>1 DEF Ordered, PoolType, MainType, Callers, Places
<1>4. InFlight' = InFlight
  BY <1>1 DEF InFlight
<1>5. Queued' /\ Reached' /\ QueueHas'
  BY <1>1, <1>2, <1>4 DEF Queued, Reached, QueueHas
<1>6. WorkersHave' /\ RunOnce' /\ RunningTask'
  BY DEF WorkersHave, RunOnce, RunningTask
<1>7. FailureInOrder'
  BY <1>1 DEF FailureInOrder, Ordered
<1>8. QED
  BY <1>3, <1>5, <1>6, <1>7, OrderPartsNext DEF Ordered

\* Steps with which the scope, or its preparation, comes to its end.
LEMMA EndingOrder ==
  ASSUME Ordered,
         PrepareFails \/ ConstructFails \/ Telemetry \/ Cancel \/ Stop \/ Leave
  PROVE  Ordered'
<1> USE DEF PrepareFails, ConstructFails, Telemetry, Cancel, Stop, Leave
<1>1. ~Going'
  BY DEF Going
<1>2. PoolType'
  <2>1. CASE PrepareFails \/ Telemetry \/ Leave
    BY <2>1 DEF Ordered, PoolType, poolVars, poolCounters
  <2>2. CASE ConstructFails
    BY <2>2 DEF Ordered, PoolType, StartWorkers, poolCounters, Callers
  <2>3. CASE Cancel
    <3> USE DEF CancelTasks
    <3>1. future' \in [Tasks -> FutureStates]
      BY <2>3 DEF Ordered, PoolType, FutureStates
    <3>2. tasks' = << >> /\ tasks' \in Seq(Tasks)
      BY <2>3
    <3>3. tasks_cancelled' \in Nat
      <4>1. Len(tasks) \in Nat
        BY DEF Ordered, PoolType
      <4>2. QED
        BY <2>3, <4>1 DEF Ordered, PoolType
    <3>4. QED
      BY <2>3, <3>1, <3>2, <3>3 DEF Ordered, PoolType
  <2>4. CASE Stop
    BY <2>4 DEF Ordered, PoolType, RequestStops, Notified, poolCounters, Callers
  <2>5. QED
    BY <2>1, <2>2, <2>3, <2>4
<1>3. MainType'
  <2>1. main' \in Places
    BY DEF Places
  <2>2. error' \in Failures
    BY DEF Ordered, MainType, Failures
  <2>3. reported' \in Seq(Nat)
    <3>1. reported \in Seq(Nat) /\ tasks_started \in Nat /\ tasks_completed \in Nat
          /\ tasks_cancelled \in Nat
      BY DEF Ordered, MainType, PoolType
    <3>2. <<tasks_started, tasks_completed, tasks_cancelled>> \in Seq(Nat)
      BY <3>1
    <3>3. reported' = reported
            \/ reported' = <<tasks_started, tasks_completed, tasks_cancelled>>
      OBVIOUS
    <3>4. QED
      BY <3>1, <3>2, <3>3
  <2>4. QED
    BY <2>1, <2>2, <2>3 DEF Ordered, MainType
<1>4. RunningTask'
  <2>1. CASE PrepareFails \/ Telemetry \/ Leave \/ Cancel
    BY <2>1 DEF Ordered, RunningTask, poolVars, CancelTasks
  <2>2. CASE ConstructFails
    BY <2>2 DEF RunningTask, StartWorkers
  <2>3. CASE Stop
    BY <2>3 DEF Ordered, RunningTask, RequestStops, Notified
  <2>4. QED
    BY <2>1, <2>2, <2>3
<1>5. FailureInOrder'
  BY DEF Ordered, FailureInOrder
<1>6. QED
  BY <1>1, <1>2, <1>3, <1>4, <1>5, OrderPartsNext DEF Ordered

\* The steps of a worker leave the main thread alone.
LEMMA WorkerMain ==
  ASSUME Ordered, UNCHANGED mainVars
  PROVE  /\ MainType' /\ FailureInOrder'
         /\ UNCHANGED <<main, submitted, pending, frames_completed, consumed, reported, error>>
         /\ (Going' <=> Going) /\ Taken' = Taken /\ (Reached => Reached')
<1>1. UNCHANGED <<main, submitted, pending, frames_completed, consumed, reported, error>>
  BY DEF mainVars
<1>2. MainType' /\ FailureInOrder' /\ (Going' <=> Going) /\ Taken' = Taken
  BY <1>1 DEF Ordered, MainType, FailureInOrder, Going, Taken
<1>3. Reached => Reached'
  BY <1>1, <1>2 DEF Reached
<1>4. QED
  BY <1>1, <1>2, <1>3

\* A worker sleeps, exits, or has accounted for its task.
LEMMA IdleOrder ==
  ASSUME Ordered, UNCHANGED mainVars, NEW w \in Workers,
         WorkerSleeps(w) \/ WorkerExits(w) \/ WorkerAccounts(w)
  PROVE  Ordered'
<1> USE DEF WorkerSleeps, WorkerExits, WorkerAccounts
<1>1. /\ MainType' /\ FailureInOrder'
      /\ UNCHANGED <<main, submitted, pending, frames_completed, consumed, reported, error>>
      /\ (Going' <=> Going) /\ Taken' = Taken /\ (Reached => Reached')
  BY WorkerMain
<1>2. /\ UNCHANGED <<accepting, tasks, stop, future>>
      /\ worker[w] # "run" /\ worker'[w] # "run"
      /\ \A v \in Workers : v # w => worker'[v] = worker[v] /\ running'[v] = running[v]
  BY DEF Ordered, PoolType
<1>3. PoolType'
  BY DEF Ordered, PoolType, poolCounters, Callers
<1>4. RunningTask'
  BY <1>2 DEF Ordered, RunningTask
<1>5. ASSUME Going PROVE Queued' /\ Reached' /\ QueueHas' /\ WorkersHave' /\ RunOnce'
  <2>1. Queued /\ Reached /\ QueueHas /\ WorkersHave /\ RunOnce
    BY <1>5, OrderParts DEF Ordered
  <2>2. InFlight' = InFlight
    BY <1>2 DEF InFlight
  <2>3. Queued' /\ Reached' /\ QueueHas'
    BY <1>1, <1>2, <2>1, <2>2 DEF Queued, QueueHas
  <2>4. WorkersHave'
    BY <1>1, <1>2, <2>1 DEF WorkersHave
  <2>5. RunOnce'
    BY <1>2, <2>1 DEF RunOnce
  <2>6. QED
    BY <2>3, <2>4, <2>5
<1>6. QED
  BY <1>1, <1>3, <1>4, <1>5, OrderPartsNext DEF Ordered

\* A worker takes the oldest task of the queue.
LEMMA TakeOrder ==
  ASSUME Ordered, UNCHANGED mainVars, NEW w \in Workers, WorkerTakes(w)
  PROVE  Ordered'
<1> DEFINE t == Head(tasks)
<1> USE DEF WorkerTakes
<1>1. /\ MainType' /\ FailureInOrder'
      /\ UNCHANGED <<main, submitted, pending, frames_completed, consumed, reported, error>>
      /\ (Going' <=> Going) /\ Taken' = Taken /\ (Reached => Reached')
  BY WorkerMain
<1>2. /\ tasks \in Seq(Tasks) /\ tasks # << >> /\ Len(tasks) \in Nat \ {0}
      /\ t = tasks[1] /\ t \in Tasks /\ submitted \in Nat
  BY DEF Ordered, PoolType, MainType
<1>3. /\ tasks' \in Seq(Tasks) /\ Len(tasks') = Len(tasks) - 1
      /\ \A i \in 1..Len(tasks') : tasks'[i] = tasks[i + 1]
  BY <1>2, HeadTailProperties
<1> HIDE DEF t
<1>4. /\ UNCHANGED <<accepting, stop, future>>
      /\ worker' = [worker EXCEPT ![w] = "run"] /\ running' = [running EXCEPT ![w] = <<t>>]
  BY DEF t
<1>5. /\ running'[w] = <<t>> /\ running'[w][1] = t
      /\ \A v \in Workers : v # w => worker'[v] = worker[v] /\ running'[v] = running[v]
  BY <1>4 DEF Ordered, PoolType
<1>6. PoolType'
  <2>1. worker' \in [Workers -> Callers]
    BY <1>4 DEF Ordered, PoolType, Callers
  <2>2. running' \in [Workers -> {<< >>} \union {<<u>> : u \in Tasks}]
    BY <1>2, <1>4 DEF Ordered, PoolType
  <2>3. QED
    BY <1>3, <1>4, <2>1, <2>2 DEF Ordered, PoolType
<1>7. RunningTask'
  <2>1. <<t>> # << >>
    OBVIOUS
  <2>2. QED
    BY <1>5, <2>1 DEF Ordered, RunningTask
<1>8. ASSUME Going PROVE Queued' /\ Reached' /\ QueueHas' /\ WorkersHave' /\ RunOnce'
  <2>1. Queued /\ Reached /\ QueueHas /\ WorkersHave /\ RunOnce
    BY <1>8, OrderParts DEF Ordered
  <2>2. InFlight' = InFlight
    BY <1>4 DEF InFlight
  <2>3. Queued' /\ Reached'
    BY <1>1, <1>4, <2>1, <2>2 DEF Queued
  <2>4. t = submitted' - Len(tasks') /\ future[t] = "pending"
    BY <1>1, <1>2, <1>3, <2>1 DEF QueueHas
  <2>5. QueueHas'
    <3> SUFFICES ASSUME NEW i \in 1..Len(tasks')
                 PROVE  /\ tasks'[i] = submitted' - Len(tasks') + i
                        /\ future'[tasks'[i]] = "pending"
      BY DEF QueueHas
    <3>1. i + 1 \in 1..Len(tasks) /\ tasks'[i] = tasks[i + 1]
      BY <1>2, <1>3
    <3>2. tasks[i + 1] = submitted - Len(tasks) + (i + 1) /\ future[tasks[i + 1]] = "pending"
      BY <2>1, <3>1 DEF QueueHas
    <3>3. QED
      BY <1>1, <1>2, <1>3, <1>4, <3>1, <3>2
  <2>6. \A v \in Workers : v # w /\ worker'[v] = "run" =>
          running[v][1] <= submitted - Len(tasks) /\ future[running[v][1]] = "pending"
    BY <1>5, <2>1 DEF WorkersHave
  <2>7. WorkersHave'
    <3> SUFFICES ASSUME NEW v \in Workers, worker'[v] = "run"
                 PROVE  /\ future'[running'[v][1]] = "pending"
                        /\ running'[v][1] <= submitted' - Len(tasks')
      BY DEF WorkersHave
    <3>1. CASE v = w
      BY <1>1, <1>2, <1>3, <1>4, <1>5, <2>4, <3>1
    <3>2. CASE v # w
      <4>1. running'[v] = running[v] /\ worker[v] = "run"
        BY <1>5, <3>2
      <4>2. running[v][1] \in Nat
        BY <4>1, FramesAssumption DEF Ordered, PoolType, RunningTask
      <4>3. running[v][1] <= submitted - Len(tasks) /\ future[running[v][1]] = "pending"
        BY <2>6, <3>2
      <4>4. submitted' = submitted /\ Len(tasks') = Len(tasks) - 1
        BY <1>1, <1>3
      <4>5. QED
        BY <1>2, <1>4, <4>1, <4>2, <4>3, <4>4
    <3>3. QED
      BY <3>1, <3>2
  <2>8. RunOnce'
    <3>1. ASSUME NEW v \in Workers, v # w, worker'[v] = "run" PROVE running'[v] # running'[w]
      <4>1. running'[v] = running[v] /\ running[v][1] <= submitted - Len(tasks)
            /\ worker[v] = "run"
        BY <1>5, <2>6, <3>1
      <4>2. running[v][1] \in Nat
        BY <4>1, FramesAssumption DEF Ordered, PoolType, RunningTask
      <4>3. running[v][1] < t
        <5>1. t = submitted - (Len(tasks) - 1)
          BY <1>1, <1>3, <2>4
        <5>2. QED
          BY <1>2, <4>1, <4>2, <5>1
      <4>4. t \in Nat
        BY <1>2, FramesAssumption
      <4>5. QED
        BY <1>5, <4>1, <4>2, <4>3, <4>4
    <3>2. QED
      BY <1>5, <2>1, <3>1 DEF RunOnce
  <2>9. QED
    BY <2>3, <2>5, <2>7, <2>8
<1>9. QED
  BY <1>1, <1>6, <1>7, <1>8, OrderPartsNext DEF Ordered

\* A task ends: its future gets the frame, or the exception.
LEMMA RunOrder ==
  ASSUME Ordered, UNCHANGED mainVars, NEW w \in Workers,
         NEW outcome \in {"ready", "failed"}, WorkerRuns(w, outcome)
  PROVE  Ordered'
<1> DEFINE t == running[w][1]
<1> USE DEF WorkerRuns
<1>1. /\ MainType' /\ FailureInOrder'
      /\ UNCHANGED <<main, submitted, pending, frames_completed, consumed, reported, error>>
      /\ (Going' <=> Going) /\ Taken' = Taken /\ (Reached => Reached')
  BY WorkerMain
<1>2. running[w] \in {<<u>> : u \in Tasks} /\ t \in Tasks
  BY DEF Ordered, PoolType, RunningTask
<1>3. PICK u \in Tasks : running[w] = <<u>>
  BY <1>2
<1>4. t = u
  BY <1>3
<1> HIDE DEF t
<1>5. /\ UNCHANGED <<accepting, tasks, running, stop>>
      /\ future' = [future EXCEPT ![t] = outcome] /\ future \in [Tasks -> FutureStates]
      /\ worker[w] = "run" /\ worker' = [worker EXCEPT ![w] = "account"]
  BY DEF t, Ordered, PoolType
<1>6. PoolType'
  <2>1. worker' \in [Workers -> Callers]
    BY <1>5 DEF Ordered, PoolType, Callers
  <2>2. future' \in [Tasks -> FutureStates]
    BY <1>5 DEF FutureStates
  <2>3. QED
    BY <1>5, <2>1, <2>2 DEF Ordered, PoolType, poolCounters
<1>7. \A v \in Workers : worker'[v] = "run" => v # w /\ worker[v] = "run"
  BY <1>5 DEF Ordered, PoolType
<1>8. RunningTask'
  BY <1>5, <1>7 DEF Ordered, RunningTask
<1>9. ASSUME Going PROVE Queued' /\ Reached' /\ QueueHas' /\ WorkersHave' /\ RunOnce'
  <2>1. Queued /\ Reached /\ QueueHas /\ WorkersHave /\ RunOnce
    BY <1>9, OrderParts DEF Ordered
  <2>2. future[t] = "pending" /\ t <= submitted - Len(tasks)
    BY <1>5, <2>1 DEF WorkersHave, t
  <2>3. InFlight' = InFlight
    BY <1>2, <1>5, <2>2 DEF InFlight
  <2>4. Queued' /\ Reached'
    BY <1>1, <1>5, <2>1, <2>3 DEF Queued
  <2>5. QueueHas'
    <3> SUFFICES ASSUME NEW i \in 1..Len(tasks)
                 PROVE  /\ tasks[i] = submitted - Len(tasks) + i
                        /\ future'[tasks[i]] = "pending"
      BY <1>1, <1>5 DEF QueueHas
    <3>1. tasks[i] = submitted - Len(tasks) + i /\ future[tasks[i]] = "pending"
      BY <2>1 DEF QueueHas
    <3>2. tasks[i] \in Tasks /\ Len(tasks) \in Nat /\ submitted \in Nat
      BY DEF Ordered, PoolType, MainType
    <3>3. tasks[i] # t
      <4>1. t \in Nat
        BY <1>2, FramesAssumption
      <4>2. QED
        BY <2>2, <3>1, <3>2, <4>1
    <3>4. QED
      BY <1>5, <3>1, <3>2, <3>3
  <2>6. WorkersHave'
    <3> SUFFICES ASSUME NEW v \in Workers, v # w, worker[v] = "run"
                 PROVE  /\ future'[running[v][1]] = "pending"
                        /\ running[v][1] <= submitted - Len(tasks)
      BY <1>1, <1>5, <1>7 DEF WorkersHave
    <3>1. /\ future[running[v][1]] = "pending" /\ running[v][1] <= submitted - Len(tasks)
          /\ running[v] # running[w]
      BY <1>5, <2>1 DEF WorkersHave, RunOnce
    <3>2. running[v] \in {<<x>> : x \in Tasks}
      BY DEF Ordered, PoolType, RunningTask
    <3>3. PICK x \in Tasks : running[v] = <<x>>
      BY <3>2
    <3>4. running[v][1] = x /\ x # u
      BY <1>3, <3>1, <3>3
    <3>5. QED
      BY <1>4, <1>5, <3>1, <3>4
  <2>7. RunOnce'
    BY <1>5, <1>7, <2>1 DEF RunOnce
  <2>8. QED
    BY <2>4, <2>5, <2>6, <2>7
<1>10. QED
  BY <1>1, <1>6, <1>8, <1>9, OrderPartsNext DEF Ordered

\* A chunk of audio is written, or an exception leaves the scope.
LEMMA AudioOrder ==
  ASSUME Ordered, audio_index \in Nat, WriteDueAudio \/ WriteRemainingAudio
  PROVE  Ordered'
<1> DEFINE chunk == audio[audio_index + 1]
           what == IF Accepts(chunk) THEN "audio" ELSE "refused"
<1>1. WriteAudio /\ UNCHANGED <<poolVars, submitted, frames_completed, consumed, reported>>
      /\ main \in {"loop", "audio"}
  BY DEF WriteDueAudio, WriteRemainingAudio, AllConsumed
<1>2. \/ UNCHANGED <<main, pending, error>>
      \/ Throw(what, audio_index + 1)
  BY <1>1 DEF WriteAudio
<1>3. CASE UNCHANGED <<main, pending, error>>
  <2>1. \/ main = "loop" /\ main' = "loop"
        \/ main = "audio" /\ main' = "audio"
    BY <1>1, <1>3
  <2>2. UNCHANGED poolVars
        /\ UNCHANGED <<submitted, pending, frames_completed, consumed, reported, error>>
    BY <1>1, <1>3
  <2>3. QED
    BY <2>1, <2>2, QuietOrder
<1>4. CASE Throw(what, audio_index + 1)
  <2>1. what \in {"audio", "refused"} /\ <<what, audio_index + 1>> \in Failures
    BY DEF Failures
  <2>2. future' \in [Tasks -> FutureStates]
    BY <1>1 DEF Ordered, PoolType, poolVars
  <2>3. UNCHANGED <<accepting, tasks, worker, running, stop, poolCounters>>
        /\ UNCHANGED <<submitted, frames_completed, consumed, reported>>
    BY <1>1 DEF poolVars
  <2> HIDE DEF what
  <2>4. QED
    BY <1>4, <2>1, <2>2, <2>3, ThrowOrder
<1>5. QED
  BY <1>2, <1>3, <1>4

\* writer.finish() returns when every frame was written, or throws.
LEMMA FinishOrder ==
  ASSUME Ordered, Finish
  PROVE  Ordered'
<1> USE DEF Finish
<1>1. UNCHANGED poolVars
      /\ UNCHANGED <<submitted, frames_completed, consumed, reported>>
  OBVIOUS
<1>2. CASE main' = "telemetry" /\ UNCHANGED <<pending, error>>
  BY <1>1, <1>2, QuietOrder
<1>3. CASE Throw("finish", 0)
  <2>1. <<"finish", 0>> \in Failures
    BY DEF Failures
  <2>2. future' \in [Tasks -> FutureStates]
    BY <1>1 DEF Ordered, PoolType, poolVars
  <2>3. UNCHANGED <<accepting, tasks, worker, running, stop, poolCounters>>
    BY <1>1 DEF poolVars
  <2>4. QED
    BY <1>1, <1>3, <2>1, <2>2, <2>3, ThrowOrder
<1>4. QED
  BY <1>2, <1>3

\* A step that changes neither the pool nor the main thread.
LEMMA StutterOrder ==
  ASSUME Ordered, UNCHANGED <<poolVars, mainVars>>
  PROVE  Ordered'
<1>1. UNCHANGED <<accepting, tasks, worker, running, stop, future,
                  tasks_started, tasks_completed, tasks_cancelled>>
  BY DEF poolVars, poolCounters
<1>2. /\ MainType' /\ FailureInOrder'
      /\ UNCHANGED <<main, submitted, pending, frames_completed, consumed, reported, error>>
      /\ (Going' <=> Going) /\ Taken' = Taken /\ (Reached => Reached')
  BY WorkerMain
<1>3. PoolType' /\ RunningTask' /\ InFlight' = InFlight
  BY <1>1 DEF Ordered, PoolType, RunningTask, InFlight
<1>4. ASSUME Going PROVE Queued' /\ Reached' /\ QueueHas' /\ WorkersHave' /\ RunOnce'
  <2>1. Queued /\ Reached /\ QueueHas /\ WorkersHave /\ RunOnce
    BY <1>4, OrderParts DEF Ordered
  <2>2. QED
    BY <1>1, <1>2, <1>3, <2>1 DEF Queued, QueueHas, WorkersHave, RunOnce
<1>5. QED
  BY <1>2, <1>3, <1>4, OrderPartsNext DEF Ordered

\* Every step keeps the frames in order.
LEMMA OrderNext ==
  ASSUME Ordered, audio_index \in Nat, [Next]_vars
  PROVE  Ordered'
<1>1. CASE Main
  <2>1. CASE Prepare
    BY <2>1, QuietOrder DEF Prepare
  <2>2. CASE PrepareFails \/ ConstructFails \/ Telemetry \/ Cancel \/ Stop \/ Leave
    BY <2>2, EndingOrder
  <2>3. CASE Construct
    BY <2>3, ConstructOrder
  <2>4. CASE SubmitFrame
    BY <2>4, SubmitOrder
  <2>5. CASE Consume
    BY <2>5, ConsumeOrder
  <2>6. CASE ConsumeFails
    BY <2>6, ConsumeFailsOrder
  <2>7. CASE WriteDueAudio \/ WriteRemainingAudio
    BY <2>7, AudioOrder
  <2>8. CASE WriteVideo
    BY <2>8, WriteVideoOrder
  <2>9. CASE Finish
    BY <2>9, FinishOrder
  <2>10. QED
    BY <1>1, <2>1, <2>2, <2>3, <2>4, <2>5, <2>6, <2>7, <2>8, <2>9 DEF Main
<1>2. ASSUME NEW w \in Workers, Worker(w) PROVE Ordered'
  <2>1. UNCHANGED mainVars
    BY <1>2 DEF Worker
  <2>2. CASE WorkerSleeps(w) \/ WorkerExits(w) \/ WorkerAccounts(w)
    BY <2>1, <2>2, IdleOrder
  <2>3. CASE WorkerTakes(w)
    BY <2>1, <2>3, TakeOrder
  <2>4. CASE LoadFrame(w)
    BY <2>1, <2>4, StutterOrder DEF LoadFrame
  <2>5. CASE EndTask(w)
    <3>1. CASE WorkerRuns(w, "ready")
      <4>1. "ready" \in {"ready", "failed"}
        OBVIOUS
      <4>2. QED
        BY <2>1, <3>1, <4>1, RunOrder
    <3>2. CASE WorkerRuns(w, "failed")
      <4>1. "failed" \in {"ready", "failed"}
        OBVIOUS
      <4>2. QED
        BY <2>1, <3>2, <4>1, RunOrder
    <3>3. QED
      BY <2>5, <3>1, <3>2 DEF EndTask
  <2>6. QED
    BY <1>2, <2>2, <2>3, <2>4, <2>5 DEF Worker, PoolWorker
<1>3. CASE Terminated \/ UNCHANGED vars
  BY <1>3, StutterOrder DEF Terminated, vars
<1>4. QED
  BY <1>1, <1>2, <1>3 DEF Next

-----------------------------------------------------------------------------
(* Audio and video in one file.                                            *)

AudioType ==
  /\ frames \in Videos /\ source \in AudioTracks
  /\ audio \in Seq([timestamp : Nat, samples : Nat])
  /\ origin \in Nat
  /\ audio_index \in 0..Len(audio)
  /\ clock \in [started : BOOLEAN, anchor : Nat, pts : Nat, written : Nat]
  /\ audio_pts \in Seq(Nat)
  /\ file \in Seq(Entries)

\* What the proofs of the file and of its audio carry along.
Merged ==
  /\ AudioType
  /\ AudioPlaced
  /\ ClockCounts
  /\ MergePoint
  /\ FileIsMerge
  /\ AudioAccepted

\* The track, and the frames, of the source.
LEMMA SourceFacts ==
  ASSUME AudioType
  PROVE  /\ source.rate \in 1..NanosPerSecond /\ source.rate \in Nat \ {0}
         /\ source.chunks \in Seq(Chunks)
         /\ frames \in Seq(Nat) /\ Len(frames) \in Nat /\ NumFrames \in Nat \ {0}
         /\ \A i \in 1..NumFrames : i \in 1..Len(frames) /\ Timestamp(i) \in Nat
         /\ \A i, j \in 1..NumFrames : i < j => Timestamp(i) < Timestamp(j)
         /\ Selected => VideoEnd \in Nat
<1>1. source.rate \in 1..NanosPerSecond /\ source.chunks \in Seq(Chunks)
  BY AudioAssumption DEF AudioType, Chunks
<1>2. source.rate \in Nat \ {0}
  BY <1>1, NanosAssumption
<1>3. /\ frames \in Seq(Nat) /\ Len(frames) >= NumFrames
      /\ \A i, j \in 1..Len(frames) : i < j => frames[i] < frames[j]
  BY VideosAssumption DEF AudioType
<1>4. Len(frames) \in Nat /\ NumFrames \in Nat \ {0}
  BY <1>3, FramesAssumption
<1>5. \A i \in 1..Len(frames) : frames[i] \in Nat
  BY <1>3
<1>6. \A i \in 1..NumFrames : i \in 1..Len(frames)
  BY <1>3, <1>4
<1>7. Selected => VideoEnd \in Nat
  <2>1. Selected => NumFrames + 1 \in 1..Len(frames)
    BY <1>4 DEF Selected
  <2>2. QED
    BY <1>5, <2>1 DEF VideoEnd
<1>8. QED
  BY <1>1, <1>2, <1>3, <1>4, <1>5, <1>6, <1>7 DEF Timestamp

\* The track as it is written, and the number of samples before its chunks.
LEMMA AudioFacts ==
  ASSUME AudioType
  PROVE  /\ audio \in Seq(Timed) /\ audio \in Seq(Chunks) /\ Len(audio) \in Nat
         /\ \A i \in 1..Len(audio) : audio[i].timestamp \in Nat /\ audio[i].samples \in Nat
         /\ \A i \in 0..Len(audio) : Cumulative(audio)[i] \in Nat
         /\ Cumulative(audio)[0] = 0
         /\ \A i \in 1..Len(audio) :
              Cumulative(audio)[i] = Cumulative(audio)[i - 1] + audio[i].samples
<1>1. audio \in Seq(Timed)
  BY DEF AudioType, Timed
<1>2. /\ audio \in Seq(Chunks) /\ Len(audio) \in Nat
      /\ \A i \in 1..Len(audio) : audio[i].timestamp \in Nat /\ audio[i].samples \in Nat
  BY <1>1, TimedChunks
<1>3. \A i \in 0..Len(audio) : Cumulative(audio)[i] \in Nat
  BY <1>2, CumulativeGrows
<1>4. /\ Cumulative(audio)[0] = 0
      /\ \A i \in 1..Len(audio) :
           Cumulative(audio)[i] = Cumulative(audio)[i - 1] + audio[i].samples
  BY <1>2, CumulativeIs
<1>5. QED
  BY <1>1, <1>2, <1>3, <1>4

\* The first PTS, and those that follow it.
LEMMA PtsFacts ==
  ASSUME AudioType, AudioPlaced, audio # << >>
  PROVE  /\ audio[1].timestamp - origin \in Nat
         /\ NsToSamplesNearest(audio[1].timestamp - origin, source.rate) \in Nat
         /\ \A i \in 0..Len(audio) : PtsAfter(i) \in Nat
         /\ \A i \in 1..Len(audio) : PtsAfter(i) = PtsAfter(i - 1) + audio[i].samples
<1> DEFINE lead == audio[1].timestamp - origin
           z == NsToSamplesNearest(lead, source.rate)
<1>1. Len(audio) \in Nat /\ Len(audio) # 0
  BY DEF AudioType
<1>2. lead \in Nat
  <2>1. 1 \in 1..Len(audio)
    BY <1>1
  <2>2. audio[1].timestamp \in Nat
    BY <2>1, AudioFacts
  <2>3. origin \in Nat /\ origin <= audio[1].timestamp
    BY DEF AudioPlaced, AudioType
  <2>4. QED
    BY <2>2, <2>3
<1>3. z \in Nat
  <2> HIDE DEF lead
  <2>1. QED
    BY <1>2, SourceFacts, NearestBounds
<1>4. \A i : PtsAfter(i) = z + Cumulative(audio)[i]
  BY DEF PtsAfter
<1> HIDE DEF lead, z
<1>5. \A i \in 0..Len(audio) : PtsAfter(i) \in Nat
  BY <1>3, <1>4, AudioFacts
<1>6. ASSUME NEW i \in 1..Len(audio) PROVE PtsAfter(i) = PtsAfter(i - 1) + audio[i].samples
  <2>1. i - 1 \in 0..Len(audio)
    BY <1>1
  <2>2. /\ Cumulative(audio)[i] = Cumulative(audio)[i - 1] + audio[i].samples
        /\ Cumulative(audio)[i - 1] \in Nat /\ audio[i].samples \in Nat
    BY <2>1, AudioFacts
  <2>3. QED
    BY <1>3, <1>4, <2>2
<1>7. QED
  BY <1>2, <1>3, <1>5, <1>6 DEF lead, z

\* The track is in the order of time.
LEMMA AudioSorted ==
  ASSUME AudioType, AudioPlaced
  PROVE  \A i, j \in 1..Len(audio) : i <= j => audio[i].timestamp <= audio[j].timestamp
<1>1. Sorted(audio)
  BY AudioFacts, SourceFacts, TimelineSorted DEF AudioPlaced
<1>2. QED
  BY <1>1 DEF Sorted

\* With the end of the audio, everything the clock counts to is 64 bits wide.
LEMMA PtsFits ==
  ASSUME AudioType, AudioPlaced, NEW i \in 1..Len(audio)
  PROVE  Fits(PtsAfter(i))
<1> DEFINE rate == source.rate
           n == Len(audio)
           lead == audio[1].timestamp - origin
           z == NsToSamplesNearest(lead, rate)
           x == Cumulative(audio)[n - 1]
           s == audio[n].samples
           X == SamplesToNs(x, rate)
           S == SamplesToNs(s, rate)
<1>1. n \in Nat /\ audio # << >> /\ 1 \in 1..n /\ n \in 1..n /\ n - 1 \in 0..n /\ n \in 0..n /\ i \in 0..n
  BY AudioFacts
<1>2. rate \in 1..NanosPerSecond /\ rate \in Nat \ {0}
  BY SourceFacts
<1>3. lead \in Nat /\ audio[1].timestamp \in Nat /\ origin \in Nat
  BY <1>1, PtsFacts, AudioFacts DEF AudioType
<1>4. x \in Nat /\ s \in Nat /\ Cumulative(audio)[n] = x + s
  BY <1>1, AudioFacts
<1>5. audio[n].timestamp = audio[1].timestamp + X
  BY <1>1 DEF AudioPlaced, OnTimeline
<1>6. AudioEnd(audio, rate) = audio[n].timestamp + S
  BY <1>1 DEF AudioEnd
<1>7. Fits(AudioEnd(audio, rate))
  BY DEF AudioPlaced
<1>8. PtsAfter(n) = z + Cumulative(audio)[n]
  BY DEF PtsAfter
<1> HIDE DEF n, x, s, rate
<1>9. x <= X /\ s <= S /\ X \in Nat /\ S \in Nat
  BY <1>2, <1>4, SamplesAreLong, SamplesToNsBounds
<1>10. z \in Nat /\ z <= lead
  <2> HIDE DEF lead
  <2>1. QED
    BY <1>2, <1>3, NearestIsShort, NearestBounds
<1> HIDE DEF X, S, z
<1>11. PtsAfter(n) <= AudioEnd(audio, rate)
  <2> DEFINE first == audio[1].timestamp
  <2>1. first \in Nat /\ lead = first - origin /\ AudioEnd(audio, rate) = first + X + S
    BY <1>3, <1>5, <1>6, <1>9
  <2> HIDE DEF first, lead
  <2>2. QED
    BY <1>3, <1>4, <1>8, <1>9, <1>10, <2>1
<1>12. PtsAfter(i) <= PtsAfter(n) /\ PtsAfter(i) \in Nat /\ PtsAfter(n) \in Nat
  <2>1. Cumulative(audio)[i] <= Cumulative(audio)[n]
    <3>1. i \in 0..n /\ n \in 0..Len(audio) /\ audio \in Seq(Chunks)
      BY <1>1, AudioFacts DEF n
    <3>2. QED
      BY <3>1, CumulativeGrows
  <2>2. PtsAfter(i) = z + Cumulative(audio)[i] /\ PtsAfter(i) \in Nat /\ PtsAfter(n) \in Nat
    BY <1>1, PtsFacts DEF PtsAfter, z, lead, rate, n
  <2>3. Cumulative(audio)[i] \in Nat /\ Cumulative(audio)[n] \in Nat
    BY <1>1, AudioFacts DEF n
  <2>4. QED
    BY <1>8, <1>10, <2>1, <2>2, <2>3
<1>13. AudioEnd(audio, rate) \in Nat
  BY <1>3, <1>5, <1>6, <1>9
<1>14. QED
  BY <1>7, <1>11, <1>12, <1>13, MaxIntAssumption DEF Fits

\* Before anything is read.
LEMMA MergedInit == Init => Merged
<1> SUFFICES ASSUME Init PROVE Merged
  OBVIOUS
<1> USE DEF Init
<1>1. AudioType
  BY DEF AudioType, NoClock
<1>2. AudioPlaced
  <2>1. OnTimeline(audio, source.rate)
    BY DEF OnTimeline
  <2>2. Fits(AudioEnd(audio, source.rate))
    BY MaxIntAssumption DEF AudioEnd, Fits
  <2>3. QED
    BY <2>1, <2>2 DEF AudioPlaced
<1>3. ClockCounts /\ MergePoint
  BY DEF ClockCounts, MergePoint
<1>4. FileIsMerge
  <2>1. DOMAIN file = {} /\ Len(audio_pts) = 0
    OBVIOUS
  <2>2. Entry("video") = {} /\ Entry("audio") = {}
    BY <2>1 DEF Entry
  <2>3. QED
    BY <2>1, <2>2 DEF FileIsMerge
<1>5. AudioAccepted
  BY DEF AudioAccepted, NoError
<1>6. QED
  BY <1>1, <1>2, <1>3, <1>4, <1>5 DEF Merged

\* Steps that write nothing; and an exception, which stops the count of the
\* chunks for good.
LEMMA StillMerged ==
  ASSUME Merged, UNCHANGED <<audioVars, file, frames_completed>>,
         \/ UNCHANGED audio_index
         \/ ~Going' /\ audio_index' \in 0..Len(audio),
         Going' => Going, main' = "prepare" => main = "prepare",
         error' = error \/ error'[1] # "refused"
  PROVE  Merged'
<1>1. UNCHANGED <<frames, source, audio, origin, clock, audio_pts, file, frames_completed>>
  BY DEF audioVars
<1>2. AudioType'
  BY <1>1 DEF Merged, AudioType
<1>3. Selected' = Selected /\ VideoEnd' = VideoEnd
  BY <1>1 DEF Selected, VideoEnd
<1>4. AudioPlaced'
  BY <1>1, <1>3 DEF Merged, AudioPlaced
<1>5. \A i : PtsAfter(i)' = PtsAfter(i)
  BY <1>1 DEF PtsAfter
<1>6. ClockCounts'
  <2>1. Going' => audio_index' = Len(audio_pts)
    BY DEF Merged, ClockCounts
  <2>2. QED
    BY <1>1, <1>5, <2>1 DEF Merged, ClockCounts
<1>7. MergePoint'
  BY <1>1 DEF Merged, MergePoint, Timestamp
<1>8. FileIsMerge'
  BY <1>1 DEF Merged, FileIsMerge, Entry, Timestamp
<1>9. AudioAccepted'
  BY DEF Merged, AudioAccepted
<1>10. QED
  BY <1>2, <1>4, <1>6, <1>7, <1>8, <1>9 DEF Merged

\* The track is put on its timeline, cropped, and given the output's origin.
LEMMA PrepareMerged ==
  ASSUME Merged, Ordered, Prepare
  PROVE  Merged'
<1> USE DEF Prepare
<1> DEFINE rate == source.rate
           whole == Normalized(source)
<1>1. UNCHANGED <<frames, source, clock, audio_pts, file, frames_completed, audio_index, error>>
  OBVIOUS
<1>2. /\ rate \in Nat \ {0} /\ Timestamp(1) \in Nat
      /\ Selected => VideoEnd \in Nat
  <2>1. 1 \in 1..NumFrames
    BY FramesAssumption
  <2>2. QED
    BY <2>1, SourceFacts DEF Merged
<1>3. whole \in Seq(Timed) /\ OnTimeline(whole, rate)
  BY SourceFacts, NormalizedIs DEF Merged
<1>4. Selected => Cut(audio', VideoEnd, rate)
  <2> SUFFICES ASSUME Selected PROVE Cut(audio', VideoEnd, rate)
    OBVIOUS
  <2>1. audio' = Cropped(whole, VideoEnd, rate)
    OBVIOUS
  <2> HIDE DEF whole, rate
  <2>2. QED
    BY <1>2, <1>3, <2>1, CroppedIs
<1>5. audio' \in Seq(Timed) /\ OnTimeline(audio', rate)
  BY <1>3, <1>4 DEF Cut
<1> HIDE DEF whole
<1>6. /\ Len(audio') \in Nat
      /\ \A i \in 1..Len(audio') : audio'[i].timestamp \in Nat
      /\ audio' # << >> => 1 \in 1..Len(audio')
  <2>1. Len(audio') \in Nat /\ \A i \in 1..Len(audio') : audio'[i].timestamp \in Nat
    BY <1>5, TimedChunks
  <2>2. audio' # << >> => Len(audio') # 0
    BY <1>5
  <2>3. QED
    BY <2>1, <2>2
<1>7. origin' \in Nat /\ (audio' # << >> => origin' <= audio'[1].timestamp)
  <2>1. CASE audio' # << >> /\ audio'[1].timestamp < Timestamp(1)
    <3>1. origin' = audio'[1].timestamp
      BY <2>1
    <3>2. QED
      BY <1>6, <2>1, <3>1
  <2>2. CASE ~ (audio' # << >> /\ audio'[1].timestamp < Timestamp(1))
    <3>1. origin' = Timestamp(1)
      BY <2>2
    <3>2. QED
      BY <1>2, <1>6, <2>2, <3>1
  <2>3. QED
    BY <2>1, <2>2
<1>8. audio_pts = << >> /\ audio_index = 0 /\ clock = NoClock /\ frames_completed = 0
  <2>1. audio = << >>
    BY DEF Merged, AudioPlaced
  <2>2. audio_pts = << >> /\ audio_index = 0
    BY <2>1 DEF Merged, ClockCounts, AudioType
  <2>3. Going /\ Taken = frames_completed
    BY DEF Going, Taken, Ordered, MainType
  <2>4. submitted = 0 /\ Taken + Len(pending) = submitted
    BY <2>3, OrderParts DEF Ordered, Queued, Reached
  <2>5. frames_completed = 0
    BY <2>3, <2>4 DEF Ordered, MainType
  <2>6. QED
    BY <2>2, <2>5 DEF Merged, ClockCounts
<1>9. AudioType'
  <2>1. audio' \in Seq([timestamp : Nat, samples : Nat])
    BY <1>5 DEF Timed
  <2>2. audio_index' \in 0..Len(audio')
    BY <1>1, <1>6, <1>8
  <2>3. QED
    BY <1>1, <1>7, <2>1, <2>2 DEF Merged, AudioType
<1>10. AudioPlaced'
  <2>1. Selected' = Selected /\ VideoEnd' = VideoEnd /\ source' = source
    BY <1>1 DEF Selected, VideoEnd
  <2>2. Selected => \A i \in 1..Len(audio') :
          /\ audio'[i].timestamp < VideoEnd
          /\ i = Len(audio') => audio'[i].samples <=
               NsToSamplesFloor(VideoEnd - audio'[i].timestamp, rate)
    BY <1>4 DEF Cut
  <2>3. Fits(AudioEnd(audio', rate)) /\ main' # "prepare"
    OBVIOUS
  <2>4. QED
    BY <1>5, <1>7, <2>1, <2>2, <2>3 DEF AudioPlaced
<1>11. ClockCounts'
  <2>1. Len(audio_pts') = 0 /\ audio_pts' = << >> /\ audio_index' = 0 /\ clock' = NoClock
    BY <1>1, <1>8
  <2>2. QED
    BY <1>6, <2>1 DEF ClockCounts
<1>12. MergePoint'
  BY <1>1, <1>8 DEF MergePoint
<1>13. FileIsMerge'
  <2>1. /\ Entry("video") = 1..frames_completed
        /\ Entry("audio") = 1..Len(audio_pts)
        /\ \A m, n \in DOMAIN file :
             m < n /\ file[m][1] = file[n][1] => file[m][2] < file[n][2]
    BY DEF Merged, FileIsMerge
  <2>2. Entry("audio") = {}
    BY <1>8, <2>1
  <2>3. \A i \in DOMAIN file : file[i][1] # "audio"
    BY <2>2 DEF Entry
  <2>4. Entry("video")' = Entry("video") /\ Entry("audio")' = Entry("audio")
    BY <1>1 DEF Entry
  <2>5. QED
    BY <1>1, <2>1, <2>3, <2>4 DEF FileIsMerge
<1>14. AudioAccepted'
  BY <1>1 DEF Merged, AudioAccepted
<1>15. QED
  BY <1>9, <1>10, <1>11, <1>12, <1>13, <1>14 DEF Merged

\* What the writer is given comes last in the file.
LEMMA FileGrows ==
  ASSUME file \in Seq(Entries), NEW kind \in {"audio", "video"}, NEW x \in Nat,
         file' = Append(file, <<kind, x>>)
  PROVE  /\ file' \in Seq(Entries) /\ Len(file) \in Nat
         /\ DOMAIN file = 1..Len(file) /\ DOMAIN file' = 1..(Len(file) + 1)
         /\ \A i \in 1..Len(file) : file'[i] = file[i]
         /\ file'[Len(file) + 1] = <<kind, x>>
<1>1. <<kind, x>> \in Entries
  BY DEF Entries
<1> DEFINE e == <<kind, x>>
<1>2. e \in Entries /\ file' = Append(file, e)
  BY <1>1
<1> HIDE DEF e
<1>3. /\ file' \in Seq(Entries) /\ Len(file') = Len(file) + 1
      /\ \A i \in 1..Len(file) : file'[i] = file[i]
      /\ file'[Len(file) + 1] = e
  BY <1>2, AppendProperties
<1>4. Len(file) \in Nat /\ DOMAIN file = 1..Len(file) /\ DOMAIN file' = 1..Len(file')
  BY <1>3, LenProperties
<1>5. QED
  BY <1>3, <1>4 DEF e

\* Its number joins those of its kind.
LEMMA EntriesGrow ==
  ASSUME file \in Seq(Entries), NEW kind \in {"audio", "video"}, NEW x \in Nat,
         file' = Append(file, <<kind, x>>)
  PROVE  /\ Entry("audio")' = IF kind = "audio" THEN Entry("audio") \union {x} ELSE Entry("audio")
         /\ Entry("video")' = IF kind = "video" THEN Entry("video") \union {x} ELSE Entry("video")
<1> DEFINE n == Len(file)
           of(k) == {file[m][2] : m \in {m \in 1..n : file[m][1] = k}}
           ofNext(k) == {file'[m][2] : m \in {m \in 1..(n + 1) : file'[m][1] = k}}
<1>1. /\ n \in Nat /\ DOMAIN file = 1..n /\ DOMAIN file' = 1..(n + 1)
      /\ \A i \in 1..n : file'[i] = file[i]
      /\ file'[n + 1] = <<kind, x>>
  BY FileGrows
<1>2. file'[n + 1][1] = kind /\ file'[n + 1][2] = x
  BY <1>1
<1>3. ASSUME NEW k PROVE ofNext(k) = IF kind = k THEN of(k) \union {x} ELSE of(k)
  <2> HIDE DEF n
  <2>1. \A m \in 1..(n + 1) : m \in 1..n \/ m = n + 1
    BY <1>1
  <2>2. \A m \in 1..n : m \in 1..(n + 1)
    BY <1>1
  <2>3. n + 1 \in 1..(n + 1)
    BY <1>1
  <2>4. of(k) \subseteq ofNext(k)
    BY <1>1, <2>2
  <2>5. kind = k => x \in ofNext(k)
    BY <1>2, <2>3
  <2>6. ASSUME NEW y \in ofNext(k) PROVE y \in of(k) \/ (kind = k /\ y = x)
    <3>1. PICK m \in 1..(n + 1) : file'[m][1] = k /\ y = file'[m][2]
      OBVIOUS
    <3>2. CASE m \in 1..n
      BY <1>1, <3>1, <3>2
    <3>3. CASE m = n + 1
      BY <1>2, <3>1, <3>3
    <3>4. QED
      BY <2>1, <3>2, <3>3
  <2> HIDE DEF of, ofNext
  <2>7. QED
    BY <2>4, <2>5, <2>6
<1>4. /\ Entry("audio") = of("audio") /\ Entry("video") = of("video")
      /\ Entry("audio")' = ofNext("audio") /\ Entry("video")' = ofNext("video")
  BY <1>1 DEF Entry
<1>5. QED
  BY <1>3, <1>4

\* Both counts of the clock advance.
LEMMA AdvancedIs ==
  ASSUME NEW a, NEW p, NEW w, NEW s
  PROVE  Advanced([started |-> TRUE, anchor |-> a, pts |-> p, written |-> w], s)
           = [started |-> TRUE, anchor |-> a, pts |-> p + s, written |-> w + s]
BY DEF Advanced

\* The next chunk, and the clock it is written with.
LEMMA NextChunk ==
  ASSUME Merged, Going, audio_index < Len(audio)
  PROVE  /\ audio_index = Len(audio_pts) /\ audio_index \in Nat
         /\ audio_index + 1 \in 1..Len(audio) /\ audio # << >>
         /\ ClockFor(audio[audio_index + 1]) =
              [started |-> TRUE, anchor |-> audio[1].timestamp,
               pts |-> PtsAfter(audio_index), written |-> Cumulative(audio)[audio_index]]
         /\ Accepts(audio[audio_index + 1])
<1> DEFINE n == audio_index
           chunk == audio[n + 1]
           first == audio[1].timestamp
           c == [started |-> TRUE, anchor |-> first,
                 pts |-> PtsAfter(n), written |-> Cumulative(audio)[n]]
<1>1. AudioType /\ AudioPlaced /\ ClockCounts
  BY DEF Merged
<1>2. /\ n = Len(audio_pts) /\ n \in Nat /\ n + 1 \in 1..Len(audio) /\ audio # << >>
      /\ 1 \in 1..Len(audio) /\ (n + 1) - 1 = n /\ n \in 0..Len(audio)
  <2>1. n = Len(audio_pts) /\ n \in Nat /\ Len(audio) \in Nat /\ n < Len(audio)
    BY <1>1, AudioFacts DEF ClockCounts, AudioType
  <2>2. audio # << >>
    BY <1>1, <2>1 DEF AudioType
  <2>3. QED
    BY <2>1, <2>2
<1>3. /\ first \in Nat /\ chunk.timestamp \in Nat /\ chunk.samples \in Nat
      /\ Cumulative(audio)[0] = 0 /\ Cumulative(audio)[n] \in Nat
  BY <1>1, <1>2, AudioFacts
<1>4. /\ chunk.samples > 0 /\ origin <= first
      /\ chunk.timestamp = first + SamplesToNs(Cumulative(audio)[n], source.rate)
  BY <1>1, <1>2 DEF AudioPlaced, OnTimeline
<1>5. PtsAfter(n + 1) = PtsAfter(n) + chunk.samples /\ PtsAfter(n) \in Nat
  <2>1. PtsAfter(n + 1) = PtsAfter((n + 1) - 1) + chunk.samples
    BY <1>1, <1>2, PtsFacts
  <2>2. QED
    BY <1>1, <1>2, <2>1, PtsFacts
<1>6. ClockFor(chunk) = c
  <2>1. CASE audio_pts = << >>
    <3>1. n = 0 /\ clock = NoClock
      BY <1>1, <1>2, <2>1 DEF ClockCounts
    <3>2. ClockFor(chunk) = NewClock(first, origin, source.rate)
      BY <1>2, <3>1 DEF ClockFor, NoClock
    <3>3. PtsAfter(n) = NsToSamplesNearest(first - origin, source.rate)
      <4>1. NsToSamplesNearest(first - origin, source.rate) \in Nat
        BY <1>1, <1>2, PtsFacts
      <4>2. PtsAfter(n) = NsToSamplesNearest(first - origin, source.rate) + 0
        BY <1>3, <3>1 DEF PtsAfter
      <4>3. QED
        BY <4>1, <4>2
    <3>4. Cumulative(audio)[n] = 0
      BY <1>3, <3>1
    <3>5. QED
      BY <3>2, <3>3, <3>4 DEF NewClock
  <2>2. CASE audio_pts # << >>
    <3>1. clock = c
      BY <1>1, <1>2, <2>2 DEF ClockCounts
    <3>2. clock.started
      BY <3>1
    <3>3. QED
      BY <3>1, <3>2 DEF ClockFor
  <2>3. QED
    BY <2>1, <2>2
<1>7. Accepts(chunk)
  <2>1. c.anchor = first /\ c.written = Cumulative(audio)[n] /\ c.pts = PtsAfter(n)
    OBVIOUS
  <2>2. Fits(PtsAfter(n) + chunk.samples)
    <3>1. Fits(PtsAfter(n + 1))
      BY <1>1, <1>2, PtsFits
    <3>2. QED
      BY <1>5, <3>1
  <2>3. first >= origin
    BY <1>1, <1>3, <1>4 DEF AudioType
  <2> HIDE DEF c, chunk, first
  <2>4. QED
    BY <1>4, <1>6, <2>1, <2>2, <2>3 DEF Accepts
<1>8. QED
  BY <1>2, <1>6, <1>7

\* A chunk that is due is written after the frames that are earlier.
LEMMA AudioMerged ==
  ASSUME Merged, Ordered, WriteDueAudio \/ WriteRemainingAudio
  PROVE  Merged'
<1> DEFINE n == audio_index
           chunk == audio[n + 1]
           first == audio[1].timestamp
           c == ClockFor(chunk)
<1>1. /\ WriteAudio /\ UNCHANGED <<poolVars, submitted, frames_completed, consumed, reported>>
      /\ main \in {"loop", "audio"} /\ Going /\ audio_index < Len(audio)
      /\ UNCHANGED <<frames, source, audio, origin>>
  BY DEF WriteDueAudio, WriteRemainingAudio, AllConsumed, Going, AudioDue, AudioLeft, WriteAudio
<1>2. /\ n = Len(audio_pts) /\ n \in Nat /\ n + 1 \in 1..Len(audio) /\ audio # << >>
      /\ c = [started |-> TRUE, anchor |-> first,
               pts |-> PtsAfter(n), written |-> Cumulative(audio)[n]]
      /\ Accepts(chunk)
  BY <1>1, NextChunk
<1>3. AudioType /\ AudioPlaced /\ ClockCounts /\ MergePoint /\ FileIsMerge
  BY DEF Merged
<1>4. /\ Len(audio) \in Nat /\ n + 1 \in 0..Len(audio) /\ (n + 1) - 1 = n
      /\ n \in 0..Len(audio)
  BY <1>2, <1>3, AudioFacts
<1>5. \/ /\ clock' = Advanced(c, chunk.samples)
         /\ audio_pts' = Append(audio_pts, c.pts)
         /\ file' = Append(file, <<"audio", n + 1>>)
         /\ UNCHANGED <<main, pending, error>>
      \/ /\ Throw("audio", n + 1)
         /\ UNCHANGED <<clock, audio_pts, file>>
  BY <1>1, <1>2 DEF WriteAudio
<1>6. audio_index' = n + 1
  BY <1>1 DEF WriteAudio
<1>7. CASE Throw("audio", n + 1) /\ UNCHANGED <<clock, audio_pts, file>>
  <2>1. ~Going' /\ error'[1] # "refused" /\ main' # "prepare"
    BY <1>7 DEF Throw, Going
  <2>2. UNCHANGED <<audioVars, file, frames_completed>>
    BY <1>1, <1>7 DEF audioVars
  <2>3. audio_index' \in 0..Len(audio)
    BY <1>4, <1>6
  <2>4. QED
    BY <2>1, <2>2, <2>3, StillMerged
<1>8. CASE /\ clock' = Advanced(c, chunk.samples)
           /\ audio_pts' = Append(audio_pts, c.pts)
           /\ file' = Append(file, <<"audio", n + 1>>)
           /\ UNCHANGED <<main, pending, error>>
  <2>1. c.pts = PtsAfter(n) /\ PtsAfter(n) \in Nat /\ PtsAfter(n + 1) \in Nat
    BY <1>2, <1>3, <1>4, PtsFacts
  <2>2. /\ PtsAfter(n + 1) = PtsAfter(n) + chunk.samples
        /\ Cumulative(audio)[n + 1] = Cumulative(audio)[n] + chunk.samples
        /\ Cumulative(audio)[n + 1] \in Nat /\ first \in Nat
    <3>1. PtsAfter(n + 1) = PtsAfter((n + 1) - 1) + chunk.samples
      BY <1>2, <1>3, PtsFacts
    <3>2. Cumulative(audio)[n + 1] = Cumulative(audio)[(n + 1) - 1] + chunk.samples
      BY <1>2, <1>3, AudioFacts
    <3>3. Cumulative(audio)[n + 1] \in Nat
      BY <1>3, <1>4, AudioFacts
    <3>4. first \in Nat
      <4>1. 1 \in 1..Len(audio)
        BY <1>2, <1>4
      <4>2. QED
        BY <1>3, <4>1, AudioFacts
    <3>5. QED
      BY <1>4, <3>1, <3>2, <3>3, <3>4
  <2>3. clock' = [started |-> TRUE, anchor |-> first,
                  pts |-> PtsAfter(n + 1), written |-> Cumulative(audio)[n + 1]]
    BY <1>2, <1>8, <2>2, AdvancedIs
  <2>4. /\ audio_pts \in Seq(Nat) /\ audio_pts' \in Seq(Nat) /\ Len(audio_pts') = n + 1
        /\ \A i \in 1..n : audio_pts'[i] = audio_pts[i]
        /\ audio_pts'[n + 1] = PtsAfter(n)
    <3> DEFINE p == PtsAfter(n)
    <3>1. audio_pts \in Seq(Nat) /\ p \in Nat /\ audio_pts' = Append(audio_pts, p)
      BY <1>3, <1>8, <2>1 DEF AudioType
    <3> HIDE DEF p
    <3>2. /\ audio_pts' \in Seq(Nat) /\ Len(audio_pts') = Len(audio_pts) + 1
          /\ \A i \in 1..Len(audio_pts) : audio_pts'[i] = audio_pts[i]
          /\ audio_pts'[Len(audio_pts) + 1] = p
      BY <3>1, AppendProperties
    <3>3. QED
      BY <1>2, <3>1, <3>2 DEF p
  <2>5. /\ file \in Seq(Entries) /\ n + 1 \in Nat /\ file' \in Seq(Entries)
        /\ Len(file) \in Nat /\ DOMAIN file = 1..Len(file)
        /\ DOMAIN file' = 1..(Len(file) + 1)
        /\ \A i \in 1..Len(file) : file'[i] = file[i]
        /\ file'[Len(file) + 1] = <<"audio", n + 1>>
        /\ Entry("audio")' = Entry("audio") \union {n + 1} /\ Entry("video")' = Entry("video")
    <3>1. file \in Seq(Entries) /\ n + 1 \in Nat /\ "audio" \in {"audio", "video"}
      BY <1>2, <1>3 DEF AudioType
    <3>2. file' = Append(file, <<"audio", n + 1>>)
      BY <1>8
    <3> HIDE DEF n
    <3>3. /\ file' \in Seq(Entries)
          /\ Len(file) \in Nat /\ DOMAIN file = 1..Len(file)
          /\ DOMAIN file' = 1..(Len(file) + 1)
          /\ \A i \in 1..Len(file) : file'[i] = file[i]
          /\ file'[Len(file) + 1] = <<"audio", n + 1>>
      BY <3>1, <3>2, FileGrows
    <3>4. Entry("audio")' = Entry("audio") \union {n + 1} /\ Entry("video")' = Entry("video")
      BY <3>1, <3>2, EntriesGrow
    <3>5. QED
      BY <3>1, <3>3, <3>4
  <2>6. AudioType'
    <3>1. clock' \in [started : BOOLEAN, anchor : Nat, pts : Nat, written : Nat]
      BY <2>1, <2>2, <2>3
    <3>2. QED
      BY <1>1, <1>3, <1>4, <1>6, <2>4, <2>5, <3>1 DEF AudioType
  <2>7. AudioPlaced'
    <3>1. Selected' = Selected /\ VideoEnd' = VideoEnd /\ main' # "prepare"
      BY <1>1, <1>8 DEF Selected, VideoEnd
    <3>2. QED
      BY <1>1, <1>3, <3>1 DEF AudioPlaced
  <2>8. ClockCounts'
    <3> DEFINE z == NsToSamplesNearest(audio'[1].timestamp - origin', source'.rate)
    <3>1. \A i : PtsAfter(i) = z + Cumulative(audio')[i]
      BY <1>1 DEF PtsAfter
    <3> HIDE DEF z
    <3>2. ASSUME NEW i \in 1..Len(audio_pts') PROVE audio_pts'[i] = z + Cumulative(audio')[i - 1]
      <4>1. CASE i = n + 1
        BY <1>4, <2>4, <3>1, <4>1
      <4>2. CASE i \in 1..n
        BY <1>2, <1>3, <2>4, <3>1, <4>2 DEF ClockCounts
      <4>3. QED
        BY <1>2, <2>4, <4>1, <4>2
    <3>3. audio_pts' # << >>
      BY <1>2, <2>4
    <3>4. Len(audio_pts') <= Len(audio') /\ audio_index' = Len(audio_pts')
      BY <1>1, <1>2, <1>6, <2>4
    <3>5. clock' = [started |-> TRUE, anchor |-> audio'[1].timestamp,
                    pts |-> z + Cumulative(audio')[Len(audio_pts')],
                    written |-> Cumulative(audio')[Len(audio_pts')]]
      <4>1. audio' = audio /\ Len(audio_pts') = n + 1
        BY <1>1, <2>4
      <4> HIDE DEF n
      <4>2. QED
        BY <2>3, <3>1, <4>1
    <3>6. QED
      BY <3>2, <3>3, <3>4, <3>5 DEF ClockCounts, PtsAfter, z
  <2>9. MergePoint'
    <3>1. /\ \A i \in 1..NumFrames : Timestamp(i) \in Nat /\ Timestamp(i)' = Timestamp(i)
          /\ frames_completed \in 0..NumFrames /\ NumFrames \in Nat
      BY <1>1, <1>3, SourceFacts DEF Timestamp, Ordered, MainType
    <3>2. \A i \in 1..Len(audio) : audio[i].timestamp \in Nat
      BY <1>3, AudioFacts
    <3>3. ASSUME frames_completed < NumFrames, NEW i \in 1..(n + 1)
          PROVE  audio[i].timestamp <= Timestamp(frames_completed + 1)
      <4>1. CASE i \in 1..n
        BY <1>2, <1>3, <3>3, <4>1 DEF MergePoint
      <4>2. CASE i = n + 1
        <5>1. CASE WriteDueAudio
          <6>1. AudioDue /\ main = "audio"
            BY <5>1 DEF WriteDueAudio
          <6>2. consumed = frames_completed + 1
            <7>1. Going /\ Taken = frames_completed + 1
              BY <6>1 DEF Going, Taken
            <7>2. QED
              BY <6>1, <7>1, OrderParts DEF Ordered, Reached
          <6>3. QED
            BY <4>2, <6>1, <6>2 DEF AudioDue
        <5>2. CASE WriteRemainingAudio
          <6>1. AllConsumed
            BY <5>2 DEF WriteRemainingAudio
          <6>2. Going /\ Taken = frames_completed /\ Taken + Len(pending) = submitted
            <7>1. Going /\ Taken = frames_completed
              BY <3>1, <6>1 DEF Going, Taken, AllConsumed
            <7>2. QED
              BY <7>1, OrderParts DEF Ordered, Queued
          <6>3. frames_completed = NumFrames
            BY <3>1, <6>1, <6>2 DEF AllConsumed
          <6>4. QED
            BY <3>1, <3>3, <6>3
        <5>3. QED
          BY <5>1, <5>2
      <4>3. QED
        BY <1>2, <4>1, <4>2
    <3>4. ASSUME frames_completed > 0, n + 1 < Len(audio)
          PROVE  audio[(n + 1) + 1].timestamp > Timestamp(frames_completed)
      <4>1. audio[n + 1].timestamp > Timestamp(frames_completed)
        BY <1>1, <1>2, <1>3, <3>4 DEF MergePoint
      <4>2. (n + 1) + 1 \in 1..Len(audio) /\ n + 1 <= (n + 1) + 1
        BY <1>2, <1>4, <3>4
      <4>3. audio[n + 1].timestamp <= audio[(n + 1) + 1].timestamp
        BY <1>2, <1>3, <4>2, AudioSorted
      <4>4. /\ audio[n + 1].timestamp \in Nat /\ audio[(n + 1) + 1].timestamp \in Nat
            /\ Timestamp(frames_completed) \in Nat
        BY <1>2, <3>1, <3>2, <3>4, <4>2
      <4>5. QED
        BY <4>1, <4>3, <4>4
    <3>5. frames_completed < NumFrames =>
            Timestamp(frames_completed + 1)' = Timestamp(frames_completed + 1)
      BY <1>1 DEF Timestamp
    <3>6. Timestamp(frames_completed)' = Timestamp(frames_completed)
      BY <1>1 DEF Timestamp
    <3>7. audio' = audio /\ frames_completed' = frames_completed /\ Len(audio_pts') = n + 1
      BY <1>1, <2>4
    <3> HIDE DEF n
    <3>8. QED
      BY <3>3, <3>4, <3>5, <3>6, <3>7 DEF MergePoint, Timestamp
  <2>10. FileIsMerge'
    <3>1. /\ Entry("video") = 1..frames_completed /\ Entry("audio") = 1..n
          /\ \A k, m \in 1..Len(file) :
               k < m /\ file[k][1] = file[m][1] => file[k][2] < file[m][2]
          /\ \A i, j \in 1..Len(file) :
               file[i][1] = "audio" /\ file[j][1] = "video" =>
                 (i < j <=> audio[file[i][2]].timestamp <= Timestamp(file[j][2]))
      BY <1>2, <1>3, <2>5 DEF FileIsMerge
    <3> DEFINE l == Len(file) + 1
    <3>2. file'[l][1] = "audio" /\ file'[l][2] = n + 1
      BY <2>5
    <3>3. \A i \in 1..l : i \in 1..Len(file) \/ i = l
      BY <2>5
    <3>4. Entry("video")' = 1..frames_completed' /\ Entry("audio")' = 1..Len(audio_pts')
      <4>1. (1..n) \union {n + 1} = 1..(n + 1)
        BY <1>2
      <4>2. QED
        BY <1>1, <2>4, <2>5, <3>1, <4>1
    <3>5. ASSUME NEW k \in 1..l, NEW m \in 1..l, k < m, file'[k][1] = file'[m][1]
          PROVE  file'[k][2] < file'[m][2]
      <4>1. k \in 1..Len(file)
        BY <2>5, <3>5
      <4>2. CASE m \in 1..Len(file)
        BY <2>5, <3>1, <3>5, <4>1, <4>2
      <4>3. CASE m = l
        <5>1. file[k][1] = "audio" /\ file'[k] = file[k]
          BY <2>5, <3>2, <3>5, <4>1, <4>3
        <5>2. file[k][2] \in Entry("audio")
          BY <2>5, <4>1, <5>1 DEF Entry
        <5>3. file[k][2] \in 1..n
          BY <3>1, <5>2
        <5>4. QED
          BY <1>2, <3>2, <4>3, <5>1, <5>3
      <4>4. QED
        BY <3>3, <4>2, <4>3
    <3>6. ASSUME NEW i \in 1..l, NEW j \in 1..l, file'[i][1] = "audio", file'[j][1] = "video"
          PROVE  i < j <=> audio[file'[i][2]].timestamp <= Timestamp(file'[j][2])
      <4>1. j \in 1..Len(file) /\ file'[j] = file[j]
        <5>1. "audio" # "video"
          OBVIOUS
        <5>2. j # l
          BY <3>2, <3>6, <5>1
        <5>3. QED
          BY <2>5, <3>3, <5>2
      <4>2. CASE i \in 1..Len(file)
        <5>1. file'[i] = file[i]
          BY <2>5, <4>2
        <5>2. QED
          BY <3>1, <3>6, <4>1, <4>2, <5>1
      <4>3. CASE i = l
        <5> DEFINE v == file[j][2]
        <5>1. v \in Entry("video")
          BY <2>5, <3>6, <4>1 DEF Entry
        <5>2. v \in 1..frames_completed
          BY <3>1, <5>1
        <5> HIDE DEF v
        <5>3. /\ frames_completed \in 1..NumFrames /\ v \in 1..NumFrames
              /\ frames_completed \in Nat /\ v \in Nat
          BY <5>2, FramesAssumption DEF Ordered, MainType
        <5>4. Timestamp(v) <= Timestamp(frames_completed)
              /\ Timestamp(v) \in Nat /\ Timestamp(frames_completed) \in Nat
          <6>1. v < frames_completed \/ v = frames_completed
            BY <5>2, <5>3
          <6>2. Timestamp(v) \in Nat /\ Timestamp(frames_completed) \in Nat
            BY <1>3, <5>3, SourceFacts
          <6>3. v < frames_completed => Timestamp(v) < Timestamp(frames_completed)
            BY <1>3, <5>3, SourceFacts
          <6>4. QED
            BY <6>1, <6>2, <6>3
        <5>5. audio[n + 1].timestamp > Timestamp(frames_completed)
              /\ audio[n + 1].timestamp \in Nat
          <6>1. frames_completed > 0 /\ Len(audio_pts) < Len(audio)
            BY <1>1, <1>2, <5>3
          <6>2. QED
            BY <1>2, <1>3, <6>1, AudioFacts DEF MergePoint
        <5>6. ~ (audio[n + 1].timestamp <= Timestamp(v))
          BY <5>4, <5>5
        <5>7. file'[i][2] = n + 1 /\ file'[j][2] = v
          BY <3>2, <4>1, <4>3 DEF v
        <5>8. ~ (i < j)
          BY <2>5, <4>1, <4>3
        <5>9. QED
          BY <5>6, <5>7, <5>8
      <4>4. QED
        BY <3>3, <4>2, <4>3
    <3>7. audio' = audio /\ DOMAIN file' = 1..l /\ \A x : Timestamp(x)' = Timestamp(x)
      BY <1>1, <2>5 DEF Timestamp
    <3> HIDE DEF l, n
    <3>8. QED
      BY <3>4, <3>5, <3>6, <3>7 DEF FileIsMerge, Timestamp
  <2>11. AudioAccepted'
    BY <1>8 DEF Merged, AudioAccepted
  <2>12. QED
    BY <2>6, <2>7, <2>8, <2>9, <2>10, <2>11 DEF Merged
<1>9. QED
  BY <1>5, <1>7, <1>8

\* A frame is written after the audio that is not later than it.
LEMMA VideoMerged ==
  ASSUME Merged, Ordered, WriteVideo
  PROVE  Merged'
<1> DEFINE v == frames_completed + 1
           n == Len(audio_pts)
<1>1. /\ main = "audio" /\ ~AudioDue
      /\ UNCHANGED <<frames, source, audio, origin, clock, audio_pts, audio_index>>
  BY DEF WriteVideo, audioVars
<1>2. /\ Going /\ consumed = v /\ frames_completed \in Nat /\ v \in 1..NumFrames
      /\ NumFrames \in Nat
  <2>1. Going /\ Taken = v
    BY <1>1 DEF Going, Taken
  <2>2. consumed = v
    BY <1>1, <2>1, OrderParts DEF Ordered, Reached
  <2>3. consumed \in 0..NumFrames /\ frames_completed \in 0..NumFrames /\ NumFrames \in Nat
    BY FramesAssumption DEF Ordered, MainType
  <2>4. QED
    BY <2>1, <2>2, <2>3
<1>3. AudioType /\ AudioPlaced /\ ClockCounts /\ MergePoint /\ FileIsMerge
  BY DEF Merged
<1>4. \/ Throw("video", consumed) /\ UNCHANGED <<file, frames_completed>>
      \/ /\ file' = Append(file, <<"video", v>>)
         /\ frames_completed' = v /\ main' = "loop" /\ UNCHANGED <<pending, error>>
  BY <1>2 DEF WriteVideo
<1>5. CASE Throw("video", consumed) /\ UNCHANGED <<file, frames_completed>>
  <2>1. ~Going' /\ error'[1] # "refused" /\ main' # "prepare"
    BY <1>5 DEF Throw, Going
  <2>2. UNCHANGED <<audioVars, file, frames_completed>> /\ UNCHANGED audio_index
    BY <1>1, <1>5 DEF audioVars
  <2>3. QED
    BY <2>1, <2>2, StillMerged
<1>6. CASE /\ file' = Append(file, <<"video", v>>)
           /\ frames_completed' = v /\ main' = "loop" /\ UNCHANGED <<pending, error>>
  <2>1. /\ file \in Seq(Entries) /\ file' \in Seq(Entries)
        /\ Len(file) \in Nat /\ DOMAIN file = 1..Len(file)
        /\ DOMAIN file' = 1..(Len(file) + 1)
        /\ \A i \in 1..Len(file) : file'[i] = file[i]
        /\ file'[Len(file) + 1] = <<"video", v>>
        /\ Entry("video")' = Entry("video") \union {v} /\ Entry("audio")' = Entry("audio")
    <3>1. file \in Seq(Entries) /\ v \in Nat /\ "video" \in {"audio", "video"}
      BY <1>2, <1>3 DEF AudioType
    <3>2. file' = Append(file, <<"video", v>>)
      BY <1>6
    <3> HIDE DEF v
    <3>3. /\ file' \in Seq(Entries)
          /\ Len(file) \in Nat /\ DOMAIN file = 1..Len(file)
          /\ DOMAIN file' = 1..(Len(file) + 1)
          /\ \A i \in 1..Len(file) : file'[i] = file[i]
          /\ file'[Len(file) + 1] = <<"video", v>>
      BY <3>1, <3>2, FileGrows
    <3>4. Entry("video")' = Entry("video") \union {v} /\ Entry("audio")' = Entry("audio")
      BY <3>1, <3>2, EntriesGrow
    <3>5. QED
      BY <3>1, <3>3, <3>4
  <2>2. AudioType'
    BY <1>1, <1>3, <2>1 DEF AudioType
  <2>3. AudioPlaced'
    <3>1. Selected' = Selected /\ VideoEnd' = VideoEnd /\ main' # "prepare"
      BY <1>1, <1>6 DEF Selected, VideoEnd
    <3>2. QED
      BY <1>1, <1>3, <3>1 DEF AudioPlaced
  <2>4. ClockCounts'
    <3>1. \A i : PtsAfter(i)' = PtsAfter(i)
      BY <1>1 DEF PtsAfter
    <3>2. audio_index' = Len(audio_pts')
      BY <1>1, <1>2, <1>3 DEF ClockCounts
    <3>3. QED
      BY <1>1, <1>3, <3>1, <3>2 DEF ClockCounts
  <2>5. /\ \A i \in 1..NumFrames : Timestamp(i) \in Nat
        /\ \A i, j \in 1..NumFrames : i < j => Timestamp(i) < Timestamp(j)
    BY <1>3, SourceFacts
  <2>6. \A i \in 1..n : audio[i].timestamp <= Timestamp(v) /\ audio[i].timestamp \in Nat
    <3>1. frames_completed < NumFrames
      BY <1>2
    <3>2. \A i \in 1..n : audio[i].timestamp <= Timestamp(v)
      BY <1>3, <3>1 DEF MergePoint
    <3>3. \A i \in 1..n : i \in 1..Len(audio)
      BY <1>3, AudioFacts DEF ClockCounts, AudioType
    <3>4. QED
      BY <1>3, <3>2, <3>3, AudioFacts
  <2>7. MergePoint'
    <3>1. ASSUME v < NumFrames, NEW i \in 1..n
          PROVE  audio[i].timestamp <= Timestamp(v + 1)
      <4>1. v + 1 \in 1..NumFrames /\ v < v + 1
        BY <1>2, <3>1
      <4>2. Timestamp(v) < Timestamp(v + 1) /\ Timestamp(v) \in Nat /\ Timestamp(v + 1) \in Nat
        BY <1>2, <2>5, <4>1
      <4>3. audio[i].timestamp <= Timestamp(v) /\ audio[i].timestamp \in Nat
        BY <2>6
      <4>4. QED
        BY <4>2, <4>3
    <3>2. ASSUME n < Len(audio) PROVE audio[n + 1].timestamp > Timestamp(v)
      <4>1. audio_index = n /\ n \in Nat /\ Len(audio) \in Nat
        BY <1>2, <1>3, AudioFacts DEF ClockCounts, AudioType
      <4>2. ~ (audio[n + 1].timestamp <= Timestamp(v))
        BY <1>1, <1>2, <3>2, <4>1 DEF AudioDue
      <4>3. n + 1 \in 1..Len(audio)
        BY <3>2, <4>1
      <4>4. audio[n + 1].timestamp \in Nat /\ Timestamp(v) \in Nat
        BY <1>2, <1>3, <2>5, <4>3, AudioFacts
      <4>5. QED
        BY <4>2, <4>4
    <3>3. \A x : Timestamp(x)' = Timestamp(x)
      BY <1>1 DEF Timestamp
    <3>4. audio' = audio /\ frames_completed' = v /\ Len(audio_pts') = n
      BY <1>1, <1>6
    <3> HIDE DEF n, v
    <3>5. QED
      BY <3>1, <3>2, <3>3, <3>4 DEF MergePoint, Timestamp
  <2>8. FileIsMerge'
    <3>1. /\ Entry("video") = 1..frames_completed /\ Entry("audio") = 1..n
          /\ \A k, m \in 1..Len(file) :
               k < m /\ file[k][1] = file[m][1] => file[k][2] < file[m][2]
          /\ \A i, j \in 1..Len(file) :
               file[i][1] = "audio" /\ file[j][1] = "video" =>
                 (i < j <=> audio[file[i][2]].timestamp <= Timestamp(file[j][2]))
      BY <1>3, <2>1 DEF FileIsMerge
    <3> DEFINE l == Len(file) + 1
    <3>2. file'[l][1] = "video" /\ file'[l][2] = v
      BY <2>1
    <3>3. \A i \in 1..l : i \in 1..Len(file) \/ i = l
      BY <2>1
    <3>4. Entry("video")' = 1..frames_completed' /\ Entry("audio")' = 1..Len(audio_pts')
      <4>1. (1..frames_completed) \union {v} = 1..v
        BY <1>2
      <4>2. QED
        BY <1>1, <1>6, <2>1, <3>1, <4>1
    <3>5. ASSUME NEW k \in 1..l, NEW m \in 1..l, k < m, file'[k][1] = file'[m][1]
          PROVE  file'[k][2] < file'[m][2]
      <4>1. k \in 1..Len(file)
        BY <2>1, <3>5
      <4>2. CASE m \in 1..Len(file)
        BY <2>1, <3>1, <3>5, <4>1, <4>2
      <4>3. CASE m = l
        <5>1. file[k][1] = "video" /\ file'[k] = file[k]
          BY <2>1, <3>2, <3>5, <4>1, <4>3
        <5>2. file[k][2] \in Entry("video")
          BY <2>1, <4>1, <5>1 DEF Entry
        <5>3. file[k][2] \in 1..frames_completed
          BY <3>1, <5>2
        <5>4. QED
          BY <1>2, <3>2, <4>3, <5>1, <5>3
      <4>4. QED
        BY <3>3, <4>2, <4>3
    <3>6. ASSUME NEW i \in 1..l, NEW j \in 1..l, file'[i][1] = "audio", file'[j][1] = "video"
          PROVE  i < j <=> audio[file'[i][2]].timestamp <= Timestamp(file'[j][2])
      <4>1. i \in 1..Len(file) /\ file'[i] = file[i]
        <5>1. "audio" # "video"
          OBVIOUS
        <5>2. i # l
          BY <3>2, <3>6, <5>1
        <5>3. QED
          BY <2>1, <3>3, <5>2
      <4>2. CASE j \in 1..Len(file)
        <5>1. file'[j] = file[j]
          BY <2>1, <4>2
        <5>2. QED
          BY <3>1, <3>6, <4>1, <4>2, <5>1
      <4>3. CASE j = l
        <5>1. file[i][2] \in Entry("audio")
          BY <2>1, <3>6, <4>1 DEF Entry
        <5>2. file[i][2] \in 1..n
          BY <3>1, <5>1
        <5>3. audio[file[i][2]].timestamp <= Timestamp(v)
          BY <2>6, <5>2
        <5>4. i < j
          BY <2>1, <4>1, <4>3
        <5>5. QED
          BY <3>2, <4>1, <4>3, <5>3, <5>4
      <4>4. QED
        BY <3>3, <4>2, <4>3
    <3>7. audio' = audio /\ DOMAIN file' = 1..l /\ \A x : Timestamp(x)' = Timestamp(x)
      BY <1>1, <2>1 DEF Timestamp
    <3> HIDE DEF l, n, v
    <3>8. QED
      BY <3>4, <3>5, <3>6, <3>7 DEF FileIsMerge, Timestamp
  <2>9. AudioAccepted'
    BY <1>6 DEF Merged, AudioAccepted
  <2>10. QED
    BY <2>2, <2>3, <2>4, <2>7, <2>8, <2>9 DEF Merged
<1>7. QED
  BY <1>4, <1>5, <1>6

\* Every step keeps the file in order.
LEMMA MergedNext ==
  ASSUME Merged, Ordered, [Next]_vars
  PROVE  Merged'
<1>1. CASE Prepare
  BY <1>1, PrepareMerged
<1>2. CASE WriteDueAudio \/ WriteRemainingAudio
  BY <1>2, AudioMerged
<1>3. CASE WriteVideo
  BY <1>3, VideoMerged
<1>4. CASE \/ PrepareFails \/ Construct \/ ConstructFails \/ SubmitFrame
           \/ Consume \/ ConsumeFails \/ Finish \/ Telemetry
           \/ Cancel \/ Stop \/ Leave
  <2> USE DEF PrepareFails, Construct, ConstructFails, SubmitFrame, Consume, ConsumeFails,
              Finish, Telemetry, Cancel, Stop, Leave
  <2>1. UNCHANGED <<audioVars, file, frames_completed>> /\ UNCHANGED audio_index
    BY <1>4
  <2>2. (Going' => Going) /\ main' # "prepare"
    BY <1>4 DEF Going, Throw, AllConsumed
  <2>3. error' = error \/ error'[1] # "refused"
    BY <1>4 DEF Throw
  <2>4. QED
    BY <2>1, <2>2, <2>3, StillMerged
<1>5. CASE UNCHANGED mainVars
  <2>1. UNCHANGED <<audioVars, file, frames_completed>> /\ UNCHANGED audio_index
    BY <1>5 DEF mainVars
  <2>2. (Going' => Going) /\ (main' = "prepare" => main = "prepare") /\ error' = error
    BY <1>5 DEF mainVars, Going
  <2>3. QED
    BY <2>1, <2>2, StillMerged
<1>6. Main \/ UNCHANGED mainVars
  BY DEF Next, Worker, Terminated, vars
<1>7. QED
  BY <1>1, <1>2, <1>3, <1>4, <1>5, <1>6 DEF Main

-----------------------------------------------------------------------------
(* The theorems.                                                           *)

\* Ordered and Merged hold together.
LEMMA BothNext == Ordered /\ Merged /\ [Next]_vars => Ordered' /\ Merged'
<1> SUFFICES ASSUME Ordered, Merged, [Next]_vars PROVE Ordered' /\ Merged'
  OBVIOUS
<1>1. audio_index \in Nat
  BY AudioFacts DEF Merged, AudioType
<1>2. QED
  BY <1>1, OrderNext, MergedNext

\* The frames in flight are those between the last one consumed and the last
\* one submitted, and the queue has no more than are pending.
LEMMA OrderedBounds == Ordered => InFlightBounded
<1> SUFFICES ASSUME Ordered, main \notin {"cancel", "request_stop", "join", "left"}
             PROVE  /\ Cardinality(InFlight) <= ParallelFrames
                    /\ main = "loop" /\ KeepSubmitting => accepting /\ HasSpace
  BY DEF InFlightBounded
<1>1. Going
  BY DEF Ordered, MainType, Places, Going
<1>2. Queued /\ QueueHas
  BY <1>1, OrderParts DEF Ordered
<1>3. /\ Taken \in Nat /\ submitted \in Nat /\ Len(pending) \in Nat /\ Len(tasks) \in Nat
      /\ ParallelFrames \in Nat /\ QueueCapacity = ParallelFrames
  <2>1. Taken \in Nat
    BY DEF Ordered, MainType, Taken
  <2>2. QED
    BY <2>1, FramesAssumption DEF Ordered, MainType, PoolType
<1>4. /\ Taken + Len(pending) = submitted /\ Len(pending) <= ParallelFrames
      /\ InFlight = (Taken + 1)..submitted /\ accepting
  BY <1>2 DEF Queued
<1>5. Cardinality(InFlight) <= ParallelFrames
  <2>1. Cardinality((Taken + 1)..submitted) =
          IF Taken + 1 > submitted THEN 0 ELSE submitted - (Taken + 1) + 1
    <3>1. Taken + 1 \in Int /\ submitted \in Int
      BY <1>3
    <3>2. QED
      BY <3>1, FS_Interval
  <2>2. QED
    BY <1>3, <1>4, <2>1
<1>6. Len(tasks) <= Len(pending)
  <2> SUFFICES ASSUME Len(tasks) # 0 PROVE Len(tasks) <= Len(pending)
    BY <1>3
  <2>1. 1 \in 1..Len(tasks)
    BY <1>3
  <2>2. tasks[1] = submitted - Len(tasks) + 1 /\ future[tasks[1]] = "pending" /\ tasks[1] \in Tasks
    BY <1>2, <2>1 DEF QueueHas, Ordered, PoolType
  <2>3. tasks[1] \in InFlight
    BY <2>2 DEF InFlight
  <2>4. tasks[1] >= Taken + 1
    BY <1>3, <1>4, <2>3
  <2>5. QED
    BY <1>3, <1>4, <2>2, <2>4
<1>7. KeepSubmitting => HasSpace
  BY <1>3, <1>6 DEF KeepSubmitting, HasSpace
<1>8. QED
  BY <1>4, <1>5, <1>7

\* What the chunks written have to do with the video.
LEMMA MergedInSync == Merged => AudioInSync
<1> SUFFICES ASSUME Merged, NEW i \in DOMAIN audio_pts
             PROVE  LET end == audio_pts[i] + audio[i].samples
                    IN  /\ i < Len(audio_pts) => audio_pts[i + 1] = end
                        /\ AtPts(audio_pts[i]) - AtTime(audio[i].timestamp)
                              \in (- NanosPerSecond)..NanosPerSecond
                        /\ Selected => AtPts(end) <= AtTime(VideoEnd) + NanosPerSecond
  BY DEF AudioInSync
<1> DEFINE rate == source.rate
           N == NanosPerSecond
           first == audio[1].timestamp
           lead == first - origin
           n == Len(audio)
           z == NsToSamplesNearest(lead, rate)
           end == audio_pts[i] + audio[i].samples
<1>1. AudioType /\ AudioPlaced /\ ClockCounts
  BY DEF Merged
<1>2. /\ i \in 1..Len(audio_pts) /\ Len(audio_pts) \in Nat /\ n \in Nat
      /\ i \in 1..n /\ audio # << >> /\ 1 \in 1..n /\ i - 1 \in 0..n /\ i \in 0..n
      /\ n \in 1..n /\ n - 1 \in 0..n
  <2>1. i \in 1..Len(audio_pts) /\ Len(audio_pts) \in Nat
    BY <1>1 DEF AudioType
  <2>2. n \in Nat /\ Len(audio_pts) <= n
    BY <1>1, AudioFacts DEF ClockCounts
  <2>3. QED
    BY <2>1, <2>2
<1>3. /\ rate \in 1..N /\ rate \in Nat \ {0} /\ N \in Nat
      /\ first \in Nat /\ origin \in Nat /\ lead \in Nat
  BY <1>1, <1>2, SourceFacts, AudioFacts, PtsFacts, NanosAssumption DEF AudioType
<1>4. audio_pts[i] = PtsAfter(i - 1) /\ end = PtsAfter(i) /\ PtsAfter(i) \in Nat
  <2>1. audio_pts[i] = PtsAfter(i - 1)
    BY <1>1, <1>2 DEF ClockCounts
  <2>2. PtsAfter(i) = PtsAfter(i - 1) + audio[i].samples /\ PtsAfter(i) \in Nat
    BY <1>1, <1>2, PtsFacts
  <2>3. QED
    BY <2>1, <2>2
<1>5. i < Len(audio_pts) => audio_pts[i + 1] = end
  <2> SUFFICES ASSUME i < Len(audio_pts) PROVE audio_pts[i + 1] = end
    OBVIOUS
  <2>1. i + 1 \in 1..Len(audio_pts) /\ (i + 1) - 1 = i
    BY <1>2
  <2>2. audio_pts[i + 1] = PtsAfter((i + 1) - 1)
    BY <1>1, <2>1 DEF ClockCounts
  <2>3. QED
    BY <1>4, <2>1, <2>2
<1>6. ASSUME NEW k \in 1..n
      PROVE  /\ Cumulative(audio)[k - 1] \in Nat
             /\ PtsAfter(k - 1) = z + Cumulative(audio)[k - 1]
             /\ audio[k].timestamp = first + SamplesToNs(Cumulative(audio)[k - 1], rate)
             /\ AtTime(audio[k].timestamp)
                  = (lead + SamplesToNs(Cumulative(audio)[k - 1], rate)) * rate
  <2> DEFINE X == SamplesToNs(Cumulative(audio)[k - 1], rate)
  <2>1. k - 1 \in 0..n
    BY <1>2
  <2>2. Cumulative(audio)[k - 1] \in Nat /\ PtsAfter(k - 1) = z + Cumulative(audio)[k - 1]
    BY <1>1, <2>1, AudioFacts DEF PtsAfter
  <2>3. audio[k].timestamp = first + X
    BY <1>1 DEF AudioPlaced, OnTimeline
  <2>4. X \in Nat
    BY <1>3, <2>2, SamplesToNsBounds
  <2>5. AtTime(audio[k].timestamp) = (audio[k].timestamp - origin) * rate
    BY DEF AtTime
  <2> HIDE DEF X, first, rate
  <2>6. audio[k].timestamp - origin = lead + X
    BY <1>3, <2>3, <2>4
  <2>7. QED
    BY <2>2, <2>3, <2>5, <2>6 DEF X, first, rate
<1>7. AtPts(audio_pts[i]) - AtTime(audio[i].timestamp) \in (- N)..N
  <2> DEFINE x == Cumulative(audio)[i - 1]
  <2>1. x \in Nat /\ audio_pts[i] = z + x
        /\ AtTime(audio[i].timestamp) = (lead + SamplesToNs(x, rate)) * rate
    BY <1>2, <1>4, <1>6
  <2> HIDE DEF x, lead, rate
  <2>2. (z + x) * N - (lead + SamplesToNs(x, rate)) * rate \in (- N)..N
    BY <1>3, <2>1, PtsIsNear
  <2>3. QED
    BY <2>1, <2>2 DEF AtPts
<1>8. Selected => AtPts(end) <= AtTime(VideoEnd) + N
  <2> SUFFICES ASSUME Selected PROVE AtPts(end) <= AtTime(VideoEnd) + N
    OBVIOUS
  <2> DEFINE x == Cumulative(audio)[n - 1]
             s == audio[n].samples
             last == audio[n].timestamp
             rest == VideoEnd - last
             X == SamplesToNs(x, rate)
  <2>1. /\ x \in Nat /\ PtsAfter(n - 1) = z + x /\ last = first + X
    BY <1>2, <1>6
  <2>2. /\ last < VideoEnd /\ s <= NsToSamplesFloor(rest, rate)
        /\ VideoEnd \in Nat /\ last \in Nat /\ s \in Nat
    <3>1. last < VideoEnd /\ s <= NsToSamplesFloor(rest, rate)
      BY <1>1, <1>2 DEF AudioPlaced
    <3>2. QED
      BY <1>1, <1>2, <3>1, SourceFacts, AudioFacts
  <2>3. PtsAfter(n) = z + x + s /\ PtsAfter(n) \in Nat
    <3>1. PtsAfter(n) = PtsAfter(n - 1) + s /\ PtsAfter(n) \in Nat
      BY <1>1, <1>2, PtsFacts
    <3>2. QED
      BY <2>1, <3>1
  <2> HIDE DEF x, s, last
  <2>4. rest \in Nat /\ X \in Nat
    <3>1. X \in Nat
      BY <1>3, <2>1, SamplesToNsBounds
    <3>2. QED
      BY <2>2, <3>1
  <2>5. VideoEnd - origin = lead + X + rest
    <3> HIDE DEF first, X
    <3>1. QED
      BY <1>3, <2>1, <2>2, <2>4
  <2> HIDE DEF rest, rate, lead
  <2>6. (z + x + s) * N <= (lead + X + rest) * rate + N
    BY <1>3, <2>1, <2>2, <2>4, EndIsNear
  <2>7. AtTime(VideoEnd) = (lead + X + rest) * rate
    BY <2>5 DEF AtTime, rate
  <2>8. end <= PtsAfter(n) /\ end \in Nat
    <3>1. Cumulative(audio)[i] <= Cumulative(audio)[n]
      <4>1. i \in 0..n /\ n \in 0..Len(audio) /\ audio \in Seq(Chunks)
        BY <1>1, <1>2, AudioFacts
      <4>2. QED
        BY <4>1, CumulativeGrows
    <3>2. PtsAfter(i) = z + Cumulative(audio)[i] /\ PtsAfter(n) = z + Cumulative(audio)[n]
      BY DEF PtsAfter, lead, rate
    <3>3. Cumulative(audio)[i] \in Nat /\ Cumulative(audio)[n] \in Nat
      <4>1. i \in 0..Len(audio) /\ n \in 0..Len(audio)
        BY <1>2
      <4>2. QED
        BY <1>1, <4>1, AudioFacts
    <3>4. z \in Nat
      BY <1>1, <1>2, PtsFacts DEF lead, rate
    <3>5. QED
      BY <1>4, <3>1, <3>2, <3>3, <3>4
  <2>9. end * N <= PtsAfter(n) * N
    BY <1>3, <2>3, <2>8, ProductGrows
  <2>10. AtPts(end) = end * N /\ end * N \in Nat /\ PtsAfter(n) * N \in Nat
    BY <1>3, <2>3, <2>8 DEF AtPts
  <2>11. (lead + X + rest) * rate \in Nat
    BY <1>3, <2>4
  <2>12. QED
    BY <1>3, <2>3, <2>6, <2>7, <2>9, <2>10, <2>11
<1>9. QED
  BY <1>5, <1>7, <1>8

\* The leases, the order of the frames and the file: together the invariant
\* that model checking confirms.
LEMMA InvariantOf == LeaseInv /\ Ordered /\ Merged => IInv
<1> SUFFICES ASSUME LeaseInv, Ordered, Merged PROVE IInv
  OBVIOUS
<1>1. TypeOK
  BY DEF TypeOK, LeaseInv, LeaseType, Ordered, PoolType, MainType, Callers, Merged, AudioType
<1>2. QED
  BY <1>1 DEF IInv, Ordered, Merged

\* What ConversionProps calls the inductive invariant holds of every behaviour.
THEOREM Invariance == Spec => []IInv
<1>1. Init => Ordered /\ Merged
  BY OrderInit, MergedInit
<1>2. Spec => [](Ordered /\ Merged)
  BY <1>1, BothNext, PTL DEF Spec
<1>3. Spec => []LeaseInv
  BY LeaseInit, LeaseNext, PTL DEF Spec
<1>4. QED
  BY <1>2, <1>3, InvariantOf, PTL

\* Every variable keeps its type.
THEOREM TypeCorrect == Spec => []TypeOK
<1>1. IInv => TypeOK
  BY DEF IInv
<1>2. QED
  BY <1>1, Invariance, PTL

\* Whatever frames the workers finish first, the writer is given frames and
\* audio in order, complete, and merged by time.  (consume_front.)
THEOREM MergedFile == Spec => []FileIsMerge
<1>1. IInv => FileIsMerge
  BY DEF IInv
<1>2. QED
  BY <1>1, Invariance, PTL

\* Before a frame that fails, or is refused by the writer, all frames were
\* written.  (consume_front.)
THEOREM FailuresInOrder == Spec => []FailureInOrder
<1>1. IInv => FailureInOrder
  BY DEF IInv
<1>2. QED
  BY <1>1, Invariance, PTL

\* No timeline, cropped or not, makes write_audio refuse a chunk.
THEOREM NoChunkRefused == Spec => []AudioAccepted
<1>1. IInv => AudioAccepted
  BY DEF IInv
<1>2. QED
  BY <1>1, Invariance, PTL

\* No more frames are in flight than the pool was sized for, and submit() has
\* never to wait.  (The loop of command_convert, PersistentWorkerPool.)
THEOREM Bounded == Spec => []InFlightBounded
<1>1. IInv => Ordered
  BY DEF IInv, Ordered, PoolType, MainType, Callers, TypeOK
<1>2. QED
  BY <1>1, OrderedBounds, Invariance, PTL

\* Every chunk is written within a sample of its place, without a gap, and the
\* audio of selected frames ends with them.  (analyze_and_normalize_audio, the
\* crop, AudioPtsClock.)
THEOREM InSync == Spec => []AudioInSync
<1>1. IInv => Merged
  BY DEF IInv, Merged, AudioType, TypeOK
<1>2. QED
  BY <1>1, MergedInSync, Invariance, PTL

=============================================================================
