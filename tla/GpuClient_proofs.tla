-------------------------- MODULE GpuClient_proofs --------------------------
(***************************************************************************)
(* The passes of the demosaicing shader, for every size of frame; the      *)
(* resources of the classes that own Vulkan objects and the results they   *)
(* read, for any number of slots and calls, in whatever order the queue    *)
(* executes what no barrier keeps apart.                                   *)
(***************************************************************************)
EXTENDS GpuClient, CommonFacts, FiniteSetTheorems, FunctionTheorems, TLAPS

-----------------------------------------------------------------------------
(* The passes of the demosaicing shader.                                   *)

\* Every size of frame, also those smaller than the borders, and every CFA.
AnyGrid == [w : Nat, h : Nat, cfa : CfaPatterns]
Cells(g) == 0..(g.w * g.h - 1)

\* What a grid is, in the form the lemmas below use.
LEMMA GridFacts ==
  ASSUME NEW g \in AnyGrid
  PROVE  g.w \in Nat /\ g.h \in Nat /\ g.cfa \in 0..3
  BY DEF AnyGrid, CfaPatterns

\* Pixels in a later row have larger indices; rows do not overlap.
LEMMA RowsApart ==
  ASSUME NEW g \in AnyGrid, NEW x \in Int, NEW y \in Nat, NEW u \in Int,
         NEW v \in Nat, y < v
  PROVE  At(g, u, v) - At(g, x, y) >= g.w + u - x
<1> DEFINE lo == y * g.w
           hi == v * g.w
           up == (y + 1) * g.w
<1>1. up <= hi /\ lo \in Nat /\ hi \in Nat /\ up \in Nat
  BY GridFacts, ProductGrows, y + 1 \in Nat, y + 1 <= v
<1>2. up = lo + g.w
  BY GridFacts
<1>3. At(g, x, y) = lo + x /\ At(g, u, v) = hi + u
  BY DEF At
<1> HIDE DEF lo, hi, up
<1> QED
  BY <1>1, <1>2, <1>3, GridFacts

\* Indices are numbers.
LEMMA AtInt ==
  ASSUME NEW g \in AnyGrid, NEW x \in Int, NEW y \in Nat
  PROVE  At(g, x, y) \in Int /\ (x \in Nat => At(g, x, y) \in Nat /\ At(g, x, y) >= x)
<1>1. y * g.w \in Nat
  BY GridFacts
<1> QED
  BY <1>1 DEF At

\* A cell belongs to one pixel.
LEMMA OneCell ==
  ASSUME NEW g \in AnyGrid, NEW x \in 0..(g.w - 1), NEW y \in 0..(g.h - 1),
         NEW u \in 0..(g.w - 1), NEW v \in 0..(g.h - 1),
         At(g, x, y) = At(g, u, v)
  PROVE  x = u /\ y = v
<1> USE GridFacts
<1>1. At(g, x, y) \in Int /\ At(g, u, v) \in Int
  BY AtInt
<1>2. ~ (y < v)
  BY <1>1, RowsApart
<1>3. ~ (v < y)
  BY <1>1, RowsApart
<1>4. y = v
  BY <1>2, <1>3
<1>5. y * g.w \in Int
  OBVIOUS
<1> QED
  BY <1>4, <1>5 DEF At

\* The cell of a pixel of the grid is inside the buffers.
LEMMA InGrid ==
  ASSUME NEW g \in AnyGrid, NEW x \in 0..(g.w - 1), NEW y \in 0..(g.h - 1)
  PROVE  At(g, x, y) \in Cells(g)
<1> USE GridFacts
<1>1. At(g, 0, g.h) - At(g, x, y) >= g.w + 0 - x
  BY RowsApart
<1>2. At(g, x, y) \in Nat /\ At(g, 0, g.h) \in Nat
  BY AtInt
<1>3. At(g, 0, g.h) = g.w * g.h
  BY DEF At
<1> QED
  BY <1>1, <1>2, <1>3 DEF Cells

\* Two pixels of different rows, away from the border, share no half cell.
LEMMA OneRow ==
  ASSUME NEW g \in AnyGrid, NEW x \in 1..(g.w - 2), NEW y \in 0..(g.h - 1),
         NEW u \in 1..(g.w - 2), NEW v \in 0..(g.h - 1),
         At(g, x, y) \div 2 = At(g, u, v) \div 2
  PROVE  y = v /\ x - u \in {-1, 0, 1}
<1> USE GridFacts
<1>1. At(g, x, y) \in Nat /\ At(g, u, v) \in Nat
  BY AtInt
<1>2. At(g, x, y) - At(g, u, v) \in {-1, 0, 1}
  BY <1>1
<1>3. ~ (y < v)
  BY <1>1, <1>2, RowsApart
<1>4. ~ (v < y)
  BY <1>1, <1>2, RowsApart
<1>5. y = v
  BY <1>3, <1>4
<1>6. y * g.w \in Int
  OBVIOUS
<1> QED
  BY <1>2, <1>5, <1>6 DEF At

\* Green is where the parities of row and column differ, or agree; red and
\* blue are in alternate rows.
LEMMA ColorIs ==
  ASSUME NEW g \in AnyGrid, NEW x \in Nat, NEW y \in Nat
  PROVE  /\ ColorAt(g, x, y) \in {0, 1, 2}
         /\ ColorAt(g, x, y) = 1 <=>
              IF g.cfa \in {0, 1} THEN x % 2 # y % 2 ELSE x % 2 = y % 2
         /\ ColorAt(g, x, y) = 0 =>
              y % 2 = (IF g.cfa \in {0, 2} THEN 0 ELSE 1)
         /\ ColorAt(g, x, y) = 2 =>
              y % 2 = (IF g.cfa \in {0, 2} THEN 1 ELSE 0)
<1> DEFINE a == x % 2
           b == y % 2
<1>1. a \in {0, 1} /\ b \in {0, 1} /\ g.cfa \in {0, 1, 2, 3}
  BY GridFacts
<1>2. ColorAt(g, x, y) =
        LET phase == b * 2 + a + 1
        IN  CASE g.cfa = 0 -> <<0, 1, 1, 2>>[phase]
        [] g.cfa = 1 -> <<2, 1, 1, 0>>[phase]
        [] g.cfa = 2 -> <<1, 0, 2, 1>>[phase]
        [] OTHER -> <<1, 2, 0, 1>>[phase]
  BY DEF ColorAt
<1> HIDE DEF a, b
<1>3. ColorAt(g, x, y) \in {0, 1, 2}
  BY <1>1, <1>2
<1>4. ColorAt(g, x, y) = 1 <=>
              IF g.cfa \in {0, 1} THEN a # b ELSE a = b
  BY <1>1, <1>2
<1>5. /\ ColorAt(g, x, y) = 0 => b = (IF g.cfa \in {0, 2} THEN 0 ELSE 1)
      /\ ColorAt(g, x, y) = 2 => b = (IF g.cfa \in {0, 2} THEN 1 ELSE 0)
  BY <1>1, <1>2
<1> QED
  BY <1>3, <1>4, <1>5 DEF a, b
-----------------------------------------------------------------------------
BufferNames == {"calibrated", "cfa", "red", "green", "blue", "vh", "aux_a",
                "aux_b", "aux_c"}
Box(m) == ((-m)..m) \X ((-m)..m)

\* Neighbourhoods are as wide as the distances they are made of.
LEMMA OffsetsBounded ==
  ASSUME NEW m \in Nat, NEW D \in SUBSET (0..m)
  PROVE  Plus(D) \subseteq Box(m) /\ Diagonal(D) \subseteq Box(m)
<1>1. Plus(D) \subseteq Box(m)
  BY DEF Plus, Across, Down, Box
<1>2. \A a \in {-1, 1}, d \in D : a * d \in (-m)..m
  OBVIOUS
<1>3. Diagonal(D) \subseteq Box(m)
  BY <1>2 DEF Diagonal, Box
<1> QED
  BY <1>1, <1>3

\* A guard that keeps m pixels from the borders allows reads m pixels away.
LEMMA AroundInGrid ==
  ASSUME NEW g \in AnyGrid, NEW x \in Int, NEW y \in Int, NEW b \in BufferNames,
         NEW m \in Nat, Inside(g, x, y, m), NEW offsets \in SUBSET Box(m)
  PROVE  Around(g, b, x, y, offsets) \subseteq BufferNames \X Cells(g)
<1> SUFFICES ASSUME NEW o \in offsets
             PROVE  At(g, x + o[1], y + o[2]) \in Cells(g)
  BY DEF Around
<1>1. o[1] \in (-m)..m /\ o[2] \in (-m)..m
  BY DEF Box
<1>2. x + o[1] \in 0..(g.w - 1) /\ y + o[2] \in 0..(g.h - 1)
  BY <1>1, GridFacts DEF Inside
<1> QED
  BY <1>2, InGrid

\* What each pass reads and writes is inside the buffers.
LEMMA InitializeBounds ==
  ASSUME NEW g \in AnyGrid, NEW x \in 0..(g.w - 1), NEW y \in 0..(g.h - 1)
  PROVE  Initialize(g, x, y).reads \cup Initialize(g, x, y).writes
           \subseteq BufferNames \X Cells(g)
  BY InGrid DEF Initialize, Access, BufferNames

LEMMA DirectionLpfBounds ==
  ASSUME NEW g \in AnyGrid, NEW x \in 0..(g.w - 1), NEW y \in 0..(g.h - 1)
  PROVE  DirectionLpf(g, x, y).reads \cup DirectionLpf(g, x, y).writes
           \subseteq BufferNames \X Cells(g)
<1> USE GridFacts
<1>1. At(g, x, y) \in Cells(g) /\ At(g, x, y) \div 2 \in Cells(g)
  BY InGrid DEF Cells
<1>2. Plus(0..4) \in SUBSET Box(4)
      /\ Plus({0, 1}) \cup Diagonal({1}) \in SUBSET Box(2)
  <2>1. Plus(0..4) \in SUBSET Box(4)
    BY OffsetsBounded
  <2>2. Plus({0, 1}) \in SUBSET Box(2) /\ Diagonal({1}) \in SUBSET Box(2)
    BY OffsetsBounded, {0, 1} \in SUBSET (0..2), {1} \in SUBSET (0..2)
  <2> QED
    BY <2>1, <2>2
<1>3. Inside(g, x, y, 4) =>
        Around(g, "cfa", x, y, Plus(0..4)) \subseteq BufferNames \X Cells(g)
  BY <1>2, AroundInGrid DEF BufferNames
<1>4. Inside(g, x, y, 2) =>
        Around(g, "cfa", x, y, Plus({0, 1}) \cup Diagonal({1}))
          \subseteq BufferNames \X Cells(g)
  BY <1>2, AroundInGrid DEF BufferNames
<1> DEFINE a == Around(g, "cfa", x, y, Plus(0..4))
           b == Around(g, "cfa", x, y, Plus({0, 1}) \cup Diagonal({1}))
           i == At(g, x, y)
<1>5. {<<"vh", i>>, <<"aux_a", i \div 2>>} \subseteq BufferNames \X Cells(g)
  BY <1>1 DEF BufferNames
<1>6. /\ DirectionLpf(g, x, y).reads \subseteq
           (IF Inside(g, x, y, 4) THEN a ELSE {}) \cup (IF Inside(g, x, y, 2) THEN b ELSE {})
      /\ DirectionLpf(g, x, y).writes \subseteq {<<"vh", i>>, <<"aux_a", i \div 2>>}
  <2> HIDE DEF a, b, i
  <2> QED
    BY DEF DirectionLpf, Access, NoAccess, a, b, i
<1> HIDE DEF a, b, i
<1> QED
  BY <1>3, <1>4, <1>5, <1>6 DEF a, b

LEMMA GreenBounds ==
  ASSUME NEW g \in AnyGrid, NEW x \in 0..(g.w - 1), NEW y \in 0..(g.h - 1)
  PROVE  Green(g, x, y).reads \cup Green(g, x, y).writes
           \subseteq BufferNames \X Cells(g)
<1> SUFFICES ASSUME Inside(g, x, y, 4)
             PROVE  Green(g, x, y).reads \cup Green(g, x, y).writes
                      \subseteq BufferNames \X Cells(g)
  BY DEF Green, NoAccess, Access
<1> USE GridFacts
<1> DEFINE i == At(g, x, y)
           N == g.w * g.h
<1>1. i \in Cells(g) /\ N \in Nat
  BY InGrid
<1>2. i \div 2 + g.w \in Cells(g) /\ i \div 2 - g.w \in Cells(g)
      /\ i \div 2 + 1 \in Cells(g) /\ i \div 2 - 1 \in Cells(g) /\ i \div 2 \in Cells(g)
  <2>1. At(g, x, y + 1) \in Cells(g)
    BY InGrid DEF Inside
  <2>2. i - At(g, x, 0) >= 2 * g.w
    <3>1. At(g, x, 3) - At(g, x, 0) >= g.w
      BY RowsApart
    <3>2. i - At(g, x, 3) >= g.w
      BY RowsApart DEF Inside
    <3>3. At(g, x, 3) \in Int /\ At(g, x, 0) \in Int
      BY AtInt
    <3> QED
      BY <1>1, <3>1, <3>2, <3>3 DEF Cells
  <2>3. At(g, x, 0) \in Nat /\ At(g, x, y + 1) - i >= g.w
    BY AtInt, RowsApart
  <2>4. g.w \in Nat /\ g.w > 4
    BY DEF Inside
  <2> HIDE DEF i, N
  <2>5. i \in 0..(N - 1) /\ At(g, x, y + 1) \in 0..(N - 1)
    BY <1>1, <2>1 DEF Cells, N
  <2>6. /\ i \div 2 + g.w \in 0..(N - 1) /\ i \div 2 - g.w \in 0..(N - 1)
        /\ i \div 2 + 1 \in 0..(N - 1) /\ i \div 2 - 1 \in 0..(N - 1)
        /\ i \div 2 \in 0..(N - 1)
    BY <1>1, <2>2, <2>3, <2>4, <2>5
  <2> QED
    BY <2>6 DEF Cells, N
<1>3. \A d \in {0, -g.w, g.w, -1, 1} : i \div 2 + d \in Cells(g)
  <2>1. i \div 2 \in Int /\ g.w \in Int
    BY <1>1 DEF Cells
  <2> HIDE DEF i
  <2> QED
    BY <1>2, <2>1
<1>4. Plus(0..4) \in SUBSET Box(4) /\ Diagonal({1}) \in SUBSET Box(4)
  BY OffsetsBounded, {1} \in SUBSET (0..4)
<1>5. Centre \cup Diagonal({1}) \in SUBSET Box(4)
  BY <1>4 DEF Centre, Box
<1>6. Around(g, "cfa", x, y, Plus(0..4)) \subseteq BufferNames \X Cells(g)
      /\ Around(g, "vh", x, y, Centre \cup Diagonal({1})) \subseteq BufferNames \X Cells(g)
  BY <1>4, <1>5, AroundInGrid DEF BufferNames
<1> QED
  <2> DEFINE a == Around(g, "cfa", x, y, Plus(0..4))
             b == Around(g, "vh", x, y, Centre \cup Diagonal({1}))
             c == {<<"aux_a", i \div 2 + d>> : d \in {0, -g.w, g.w, -1, 1}}
  <2>1. c \cup {<<"green", i>>} \subseteq BufferNames \X Cells(g)
    BY <1>1, <1>3 DEF BufferNames
  <2>2. Green(g, x, y).reads \subseteq a \cup c \cup b
        /\ Green(g, x, y).writes \subseteq {<<"green", i>>}
    BY DEF Green, Access, NoAccess
  <2> HIDE DEF a, b, c, i
  <2> QED
    BY <1>6, <2>1, <2>2 DEF a, b

LEMMA PqHpfBounds ==
  ASSUME NEW g \in AnyGrid, NEW x \in 0..(g.w - 1), NEW y \in 0..(g.h - 1)
  PROVE  PqHpf(g, x, y).reads \cup PqHpf(g, x, y).writes
           \subseteq BufferNames \X Cells(g)
<1> USE GridFacts
<1>1. At(g, x, y) \div 2 \in Cells(g)
  BY InGrid DEF Cells
<1>2. Diagonal(0..3) \in SUBSET Box(3)
  BY OffsetsBounded
<1>3. Inside(g, x, y, 3) =>
        Around(g, "cfa", x, y, Diagonal(0..3)) \subseteq BufferNames \X Cells(g)
  BY <1>2, AroundInGrid DEF BufferNames
<1> QED
  BY <1>1, <1>3 DEF PqHpf, Access, NoAccess, BufferNames

\* The half-size cells of a pixel and of its diagonal neighbours
\* are inside, too.
LEMMA HalvesInGrid ==
  ASSUME NEW g \in AnyGrid, NEW x \in 0..(g.w - 1), NEW y \in 0..(g.h - 1),
         Inside(g, x, y, 4)
  PROVE  /\ HalfCentre(g, x, y) \in Cells(g)
         /\ HalfNw(g, x, y) \in Cells(g) /\ HalfNw(g, x, y) + 1 \in Cells(g)
         /\ HalfSw(g, x, y) \in Cells(g) /\ HalfSw(g, x, y) + 1 \in Cells(g)
<1> USE GridFacts
<1> DEFINE i == At(g, x, y)
           N == g.w * g.h
           down == At(g, x, y + 1)
           up == At(g, x, y - 1)
<1>1. i \in Cells(g) /\ down \in Cells(g) /\ up \in Cells(g) /\ N \in Nat
  BY InGrid DEF Inside
<1>2. down - i = g.w /\ i - up = g.w
  <2>1. y * g.w \in Int /\ (y + 1) * g.w = y * g.w + g.w /\ (y - 1) * g.w = y * g.w - g.w
    OBVIOUS
  <2> QED
    BY <2>1 DEF At
<1>3. x >= 4 /\ x + 4 < g.w /\ up >= x
  BY AtInt, y - 1 \in Nat DEF Inside
<1> HIDE DEF i, N, down, up
<1>4. i \in 0..(N - 1) /\ down \in 0..(N - 1) /\ up \in 0..(N - 1)
  BY <1>1 DEF Cells, N
<1>5. /\ i \div 2 \in 0..(N - 1)
      /\ (i - g.w - 1) \div 2 \in 0..(N - 1)
      /\ (i - g.w - 1) \div 2 + 1 \in 0..(N - 1)
      /\ (i + g.w - 1) \div 2 \in 0..(N - 1)
      /\ (i + g.w - 1) \div 2 + 1 \in 0..(N - 1)
  BY <1>1, <1>2, <1>3, <1>4
<1> QED
  BY <1>5 DEF HalfCentre, HalfNw, HalfSw, i, N, Cells

LEMMA PqDirectionBounds ==
  ASSUME NEW g \in AnyGrid, NEW x \in 0..(g.w - 1), NEW y \in 0..(g.h - 1)
  PROVE  PqDirection(g, x, y).reads \cup PqDirection(g, x, y).writes
           \subseteq BufferNames \X Cells(g)
  BY HalvesInGrid DEF PqDirection, Access, NoAccess, BufferNames

LEMMA OppositeColorBounds ==
  ASSUME NEW g \in AnyGrid, NEW x \in 0..(g.w - 1), NEW y \in 0..(g.h - 1)
  PROVE  OppositeColor(g, x, y).reads \cup OppositeColor(g, x, y).writes
           \subseteq BufferNames \X Cells(g)
<1> USE GridFacts
<1>1. At(g, x, y) \in Cells(g)
  BY InGrid
<1>2. Diagonal({1, 3}) \in SUBSET Box(4) /\ Diagonal({1, 2}) \in SUBSET Box(4)
  BY OffsetsBounded, {1, 3} \in SUBSET (0..4), {1, 2} \in SUBSET (0..4)
<1>3. Centre \cup Diagonal({1, 2}) \in SUBSET Box(4)
  BY <1>2 DEF Centre, Box
<1>4. Inside(g, x, y, 4) =>
        /\ Around(g, "blue", x, y, Diagonal({1, 3})) \subseteq BufferNames \X Cells(g)
        /\ Around(g, "red", x, y, Diagonal({1, 3})) \subseteq BufferNames \X Cells(g)
        /\ Around(g, "green", x, y, Centre \cup Diagonal({1, 2}))
             \subseteq BufferNames \X Cells(g)
  BY <1>2, <1>3, AroundInGrid DEF BufferNames
<1> QED
  <2> DEFINE other == IF ColorAt(g, x, y) = 0 THEN "blue" ELSE "red"
             a == Around(g, other, x, y, Diagonal({1, 3}))
             b == Around(g, "green", x, y, Centre \cup Diagonal({1, 2}))
             c == {<<"aux_a", k>> : k \in {HalfCentre(g, x, y), HalfNw(g, x, y),
                     HalfNw(g, x, y) + 1, HalfSw(g, x, y), HalfSw(g, x, y) + 1}}
  <2> SUFFICES ASSUME Inside(g, x, y, 4), ColorAt(g, x, y) # 1
               PROVE  OppositeColor(g, x, y).reads \cup OppositeColor(g, x, y).writes
                        \subseteq BufferNames \X Cells(g)
    BY DEF OppositeColor, Access, NoAccess
  <2>1. c \subseteq BufferNames \X Cells(g)
    BY HalvesInGrid DEF BufferNames
  <2>2. <<other, At(g, x, y)>> \in BufferNames \X Cells(g)
    BY <1>1 DEF BufferNames
  <2>3. a \subseteq BufferNames \X Cells(g) /\ b \subseteq BufferNames \X Cells(g)
    BY <1>4
  <2>4. OppositeColor(g, x, y) = Access(c \cup a \cup b, {<<other, At(g, x, y)>>})
    BY DEF OppositeColor
  <2> HIDE DEF a, b, c, other
  <2> QED
    BY <2>1, <2>2, <2>3, <2>4 DEF Access

LEMMA GreenColorBounds ==
  ASSUME NEW g \in AnyGrid, NEW x \in 0..(g.w - 1), NEW y \in 0..(g.h - 1)
  PROVE  GreenColor(g, x, y).reads \cup GreenColor(g, x, y).writes
           \subseteq BufferNames \X Cells(g)
<1> SUFFICES ASSUME Inside(g, x, y, 4), ColorAt(g, x, y) = 1
             PROVE  GreenColor(g, x, y).reads \cup GreenColor(g, x, y).writes
                      \subseteq BufferNames \X Cells(g)
  BY DEF GreenColor, Access, NoAccess
<1> USE GridFacts
<1> DEFINE vh == Around(g, "vh", x, y, Centre \cup Diagonal({1}))
           green == Around(g, "green", x, y, Centre \cup Plus({1, 2}))
           red == Around(g, "red", x, y, Plus({1, 3}))
           blue == Around(g, "blue", x, y, Plus({1, 3}))
           own == {<<"red", At(g, x, y)>>, <<"blue", At(g, x, y)>>}
<1>1. own \subseteq BufferNames \X Cells(g)
  BY InGrid DEF BufferNames
<1>2. Diagonal({1}) \in SUBSET Box(4) /\ Plus({1, 2}) \in SUBSET Box(4)
      /\ Plus({1, 3}) \in SUBSET Box(4)
  BY OffsetsBounded, {1} \in SUBSET (0..4), {1, 2} \in SUBSET (0..4),
     {1, 3} \in SUBSET (0..4)
<1>3. Centre \cup Diagonal({1}) \in SUBSET Box(4)
      /\ Centre \cup Plus({1, 2}) \in SUBSET Box(4)
  BY <1>2 DEF Centre, Box
<1>4. vh \subseteq BufferNames \X Cells(g)
  BY <1>3, AroundInGrid DEF BufferNames
<1>5. green \subseteq BufferNames \X Cells(g)
  BY <1>3, AroundInGrid DEF BufferNames
<1>6. red \subseteq BufferNames \X Cells(g)
  BY <1>2, AroundInGrid DEF BufferNames
<1>7. blue \subseteq BufferNames \X Cells(g)
  BY <1>2, AroundInGrid DEF BufferNames
<1>8. GreenColor(g, x, y) = Access(vh \cup green \cup red \cup blue, own)
  BY DEF GreenColor
<1> HIDE DEF vh, green, red, blue, own
<1> QED
  BY <1>1, <1>4, <1>5, <1>6, <1>7, <1>8 DEF Access

LEMMA FinalBounds ==
  ASSUME NEW g \in AnyGrid, NEW x \in 0..(g.w - 1), NEW y \in 0..(g.h - 1)
  PROVE  Final(g, x, y).reads \cup Final(g, x, y).writes
           \subseteq BufferNames \X Cells(g)
<1> DEFINE near == {o \in (-1..1) \X (-1..1) :
                 /\ x + o[1] \in 0..(g.w - 1)
                 /\ y + o[2] \in 0..(g.h - 1)}
           own == {<<b, At(g, x, y)>> : b \in {"red", "green", "blue"}}
<1>1. At(g, x, y) \in Cells(g)
  BY InGrid
<1>2. \A o \in near : At(g, x + o[1], y + o[2]) \in Cells(g)
  BY InGrid
<1>3. own \subseteq BufferNames \X Cells(g)
  BY <1>1 DEF BufferNames
<1>4. Around(g, "calibrated", x, y, near) \subseteq BufferNames \X Cells(g)
  <2> HIDE DEF near
  <2> QED
    BY <1>2 DEF Around, BufferNames
<1>5. Final(g, x, y) \in {Access(own, own), Access(Around(g, "calibrated", x, y, near), own)}
  BY DEF Final
<1> HIDE DEF near, own
<1> QED
  BY <1>3, <1>4, <1>5 DEF Access

\* Each pass stays inside the buffers.
LEMMA PassBounds ==
  ASSUME NEW g \in AnyGrid, NEW n \in Passes,
         NEW x \in 0..(g.w - 1), NEW y \in 0..(g.h - 1)
  PROVE  Pass(n, g, x, y).reads \cup Pass(n, g, x, y).writes
           \subseteq BufferNames \X Cells(g)
<1>1. n \in 0..7
  BY DEF Passes
<1> QED
  BY <1>1, InitializeBounds, DirectionLpfBounds, GreenBounds, PqHpfBounds,
     PqDirectionBounds, OppositeColorBounds, GreenColorBounds, FinalBounds
  DEF Pass
-----------------------------------------------------------------------------
\* Of the cells another invocation writes, an invocation writes none, unless
\* it is the same, and reads none but its own.
Apart(mine, other, same) ==
  \A c \in other.writes : /\ c \in mine.writes => same
                          /\ c \in mine.reads => c \in mine.writes

\* A pixel's own cell is written by no other invocation.
LEMMA InitializeApart ==
  ASSUME NEW g \in AnyGrid, NEW x \in 0..(g.w - 1), NEW y \in 0..(g.h - 1),
         NEW u \in 0..(g.w - 1), NEW v \in 0..(g.h - 1)
  PROVE  Apart(Initialize(g, x, y), Initialize(g, u, v), x = u /\ y = v)
<1>1. At(g, x, y) = At(g, u, v) => x = u /\ y = v
  BY OneCell
<1> QED
  BY <1>1 DEF Apart, Initialize, Access

\* Two pixels that both have an odd column, or are both red or blue, share no
\* half-size cell, also where a row of odd length shifts the pairs.
LEMMA PairsApart ==
  ASSUME NEW g \in AnyGrid, NEW x \in 0..(g.w - 1), NEW y \in 0..(g.h - 1),
         NEW u \in 0..(g.w - 1), NEW v \in 0..(g.h - 1),
         Inside(g, x, y, 2), Inside(g, u, v, 2),
         At(g, x, y) \div 2 = At(g, u, v) \div 2,
         \/ x % 2 = 1 /\ u % 2 = 1
         \/ ColorAt(g, x, y) # 1 /\ ColorAt(g, u, v) # 1
  PROVE  x = u /\ y = v
<1> USE GridFacts
<1>1. y = v /\ x - u \in {-1, 0, 1}
  BY OneRow DEF Inside
<1>2. x % 2 = u % 2
  <2>1. CASE ColorAt(g, x, y) # 1 /\ ColorAt(g, u, v) # 1
    <3>1. x % 2 \in {0, 1} /\ y % 2 \in {0, 1} /\ u % 2 \in {0, 1}
      OBVIOUS
    <3>2. IF g.cfa \in {0, 1} THEN x % 2 = y % 2 ELSE x % 2 # y % 2
      BY <2>1, ColorIs
    <3>3. IF g.cfa \in {0, 1} THEN u % 2 = v % 2 ELSE u % 2 # v % 2
      BY <2>1, ColorIs
    <3> QED
      BY <1>1, <3>1, <3>2, <3>3
  <2> QED
    BY <2>1
<1> QED
  BY <1>1, <1>2

LEMMA DirectionLpfApart ==
  ASSUME NEW g \in AnyGrid, NEW x \in 0..(g.w - 1), NEW y \in 0..(g.h - 1),
         NEW u \in 0..(g.w - 1), NEW v \in 0..(g.h - 1)
  PROVE  Apart(DirectionLpf(g, x, y), DirectionLpf(g, u, v), x = u /\ y = v)
<1> SUFFICES ASSUME NEW c \in DirectionLpf(g, u, v).writes
             PROVE  /\ c \in DirectionLpf(g, x, y).writes => x = u /\ y = v
                    /\ c \notin DirectionLpf(g, x, y).reads
  BY DEF Apart
<1>1. \/ c = <<"vh", At(g, u, v)>>
      \/ Inside(g, u, v, 2) /\ ColorAt(g, u, v) # 1 /\ c = <<"aux_a", At(g, u, v) \div 2>>
  BY DEF DirectionLpf, Access, NoAccess
<1>2. c \in DirectionLpf(g, x, y).writes =>
        \/ c = <<"vh", At(g, x, y)>>
        \/ Inside(g, x, y, 2) /\ ColorAt(g, x, y) # 1 /\ c = <<"aux_a", At(g, x, y) \div 2>>
  BY DEF DirectionLpf, Access, NoAccess
<1>3. \A d \in DirectionLpf(g, x, y).reads : d[1] = "cfa"
  BY DEF DirectionLpf, Access, NoAccess, Around
<1> QED
  BY <1>1, <1>2, <1>3, OneCell, PairsApart

LEMMA GreenApart ==
  ASSUME NEW g \in AnyGrid, NEW x \in 0..(g.w - 1), NEW y \in 0..(g.h - 1),
         NEW u \in 0..(g.w - 1), NEW v \in 0..(g.h - 1)
  PROVE  Apart(Green(g, x, y), Green(g, u, v), x = u /\ y = v)
<1>1. \A d \in Green(g, u, v).writes : d = <<"green", At(g, u, v)>>
  BY DEF Green, Access, NoAccess
<1>2. \A d \in Green(g, x, y).writes : d = <<"green", At(g, x, y)>>
  BY DEF Green, Access, NoAccess
<1>3. \A d \in Green(g, x, y).reads : d[1] \in {"cfa", "aux_a", "vh"}
  BY DEF Green, Access, NoAccess, Around
<1> QED
  BY <1>1, <1>2, <1>3, OneCell DEF Apart

LEMMA PqHpfApart ==
  ASSUME NEW g \in AnyGrid, NEW x \in 0..(g.w - 1), NEW y \in 0..(g.h - 1),
         NEW u \in 0..(g.w - 1), NEW v \in 0..(g.h - 1)
  PROVE  Apart(PqHpf(g, x, y), PqHpf(g, u, v), x = u /\ y = v)
<1>1. \A d \in PqHpf(g, u, v).writes :
        Inside(g, u, v, 2) /\ u % 2 = 1
        /\ d[1] \in {"aux_b", "aux_c"} /\ d[2] = At(g, u, v) \div 2
  BY GridFacts DEF PqHpf, Access, NoAccess, Inside
<1>2. \A d \in PqHpf(g, x, y).writes :
        Inside(g, x, y, 2) /\ x % 2 = 1 /\ d[2] = At(g, x, y) \div 2
  BY GridFacts DEF PqHpf, Access, NoAccess, Inside
<1>3. \A d \in PqHpf(g, x, y).reads : d[1] = "cfa"
  BY DEF PqHpf, Access, NoAccess, Around
<1> QED
  BY <1>1, <1>2, <1>3, PairsApart DEF Apart

LEMMA PqDirectionApart ==
  ASSUME NEW g \in AnyGrid, NEW x \in 0..(g.w - 1), NEW y \in 0..(g.h - 1),
         NEW u \in 0..(g.w - 1), NEW v \in 0..(g.h - 1)
  PROVE  Apart(PqDirection(g, x, y), PqDirection(g, u, v), x = u /\ y = v)
<1>1. \A d \in PqDirection(g, u, v).writes :
        Inside(g, u, v, 2) /\ ColorAt(g, u, v) # 1
        /\ d = <<"aux_a", At(g, u, v) \div 2>>
  BY GridFacts DEF PqDirection, Access, NoAccess, Inside, HalfCentre
<1>2. \A d \in PqDirection(g, x, y).writes :
        Inside(g, x, y, 2) /\ ColorAt(g, x, y) # 1
        /\ d = <<"aux_a", At(g, x, y) \div 2>>
  BY GridFacts DEF PqDirection, Access, NoAccess, Inside, HalfCentre
<1>3. \A d \in PqDirection(g, x, y).reads : d[1] \in {"aux_b", "aux_c"}
  BY DEF PqDirection, Access, NoAccess
<1> QED
  BY <1>1, <1>2, <1>3, PairsApart DEF Apart

\* Odd steps down and across lead from red to blue and from blue to red.
LEMMA OppositeColorApart ==
  ASSUME NEW g \in AnyGrid, NEW x \in 0..(g.w - 1), NEW y \in 0..(g.h - 1),
         NEW u \in 0..(g.w - 1), NEW v \in 0..(g.h - 1)
  PROVE  Apart(OppositeColor(g, x, y), OppositeColor(g, u, v), x = u /\ y = v)
<1> USE GridFacts
<1> DEFINE name(k) == IF k = 0 THEN "blue" ELSE "red"
           mine == name(ColorAt(g, x, y))
<1>1. \A d \in OppositeColor(g, u, v).writes :
        ColorAt(g, u, v) # 1 /\ d = <<name(ColorAt(g, u, v)), At(g, u, v)>>
  BY DEF OppositeColor, Access, NoAccess
<1>2. \A d \in OppositeColor(g, x, y).writes :
        ColorAt(g, x, y) # 1 /\ d = <<mine, At(g, x, y)>>
  BY DEF OppositeColor, Access, NoAccess
<1>3. \A d \in OppositeColor(g, x, y).reads :
        /\ Inside(g, x, y, 4) /\ ColorAt(g, x, y) # 1
        /\ d[1] \in {"aux_a", "green"} \/ d \in Around(g, mine, x, y, Diagonal({1, 3}))
  BY DEF OppositeColor, Access, NoAccess, Around
<1>4. ASSUME NEW c \in OppositeColor(g, u, v).writes,
             c \in Around(g, mine, x, y, Diagonal({1, 3})),
             Inside(g, x, y, 4), ColorAt(g, x, y) # 1
      PROVE  FALSE
  <2>1. PICK o \in Diagonal({1, 3}) : c = <<mine, At(g, x + o[1], y + o[2])>>
    BY <1>4 DEF Around
  <2>2. o[1] \in {-3, -1, 1, 3} /\ o[2] \in {-3, -1, 1, 3}
    BY DEF Diagonal
  <2>3. x + o[1] \in 0..(g.w - 1) /\ y + o[2] \in 0..(g.h - 1)
    BY <1>4, <2>2 DEF Inside
  <2>4. /\ ColorAt(g, u, v) # 1 /\ name(ColorAt(g, u, v)) = mine
        /\ At(g, u, v) = At(g, x + o[1], y + o[2])
    BY <1>1, <2>1
  <2>5. u = x + o[1] /\ v = y + o[2]
    BY <2>3, <2>4, OneCell
  <2>6. ColorAt(g, u, v) \in {0, 2} /\ ColorAt(g, x, y) \in {0, 2}
    BY <1>4, <2>4, ColorIs
  <2>7. ColorAt(g, u, v) = ColorAt(g, x, y)
    BY <2>4, <2>6
  <2>8. v % 2 = y % 2
    BY <2>6, <2>7, ColorIs
  <2> QED
    BY <2>2, <2>5, <2>8
<1> HIDE DEF mine, name
<1>5. \A d \in OppositeColor(g, u, v).writes : d[1] \in {"red", "blue"}
  BY <1>1 DEF name
<1>6. \A d \in OppositeColor(g, u, v).writes : d \notin OppositeColor(g, x, y).reads
  BY <1>3, <1>4, <1>5
<1> QED
  BY <1>1, <1>2, <1>6, OneCell DEF Apart

\* There are two parities.
LEMMA TwoParities == \A k \in Nat : k % 2 \in {0, 1}
  OBVIOUS

\* An odd step down or across leads from green to another colour.
LEMMA GreenColorApart ==
  ASSUME NEW g \in AnyGrid, NEW x \in 0..(g.w - 1), NEW y \in 0..(g.h - 1),
         NEW u \in 0..(g.w - 1), NEW v \in 0..(g.h - 1)
  PROVE  Apart(GreenColor(g, x, y), GreenColor(g, u, v), x = u /\ y = v)
<1> USE GridFacts
<1>1. \A d \in GreenColor(g, u, v).writes :
        ColorAt(g, u, v) = 1 /\ d[1] \in {"red", "blue"} /\ d[2] = At(g, u, v)
  BY DEF GreenColor, Access, NoAccess
<1>2. \A d \in GreenColor(g, x, y).writes : d[2] = At(g, x, y)
  BY DEF GreenColor, Access, NoAccess
<1>3. \A d \in GreenColor(g, x, y).reads :
        /\ Inside(g, x, y, 4) /\ ColorAt(g, x, y) = 1
        /\ \/ d[1] \in {"vh", "green"}
           \/ \E o \in Plus({1, 3}) : d[2] = At(g, x + o[1], y + o[2])
  BY DEF GreenColor, Access, NoAccess, Around
<1>4. ASSUME NEW o \in Plus({1, 3}), At(g, u, v) = At(g, x + o[1], y + o[2]),
             Inside(g, x, y, 4), ColorAt(g, x, y) = 1, ColorAt(g, u, v) = 1
      PROVE  FALSE
  <2>1. \/ o[1] \in {-3, -1, 1, 3} /\ o[2] = 0
        \/ o[1] = 0 /\ o[2] \in {-3, -1, 1, 3}
    BY DEF Plus, Across, Down
  <2>2. x + o[1] \in 0..(g.w - 1) /\ y + o[2] \in 0..(g.h - 1)
    BY <1>4, <2>1 DEF Inside
  <2>3. u = x + o[1] /\ v = y + o[2]
    BY <1>4, <2>2, OneCell
  <2>4. x % 2 = y % 2 <=> u % 2 = v % 2
    BY <1>4, ColorIs
  <2>5. CASE o[1] \in {-3, -1, 1, 3} /\ o[2] = 0
    <3>1. v % 2 = y % 2 /\ u % 2 # x % 2
      BY <2>3, <2>5
    <3> QED
      BY <2>4, <3>1, TwoParities
  <2>6. CASE o[1] = 0 /\ o[2] \in {-3, -1, 1, 3}
    <3>1. u % 2 = x % 2 /\ v % 2 # y % 2
      BY <2>3, <2>6
    <3> QED
      BY <2>4, <3>1, TwoParities
  <2> QED
    BY <2>1, <2>5, <2>6
<1>5. \A d \in GreenColor(g, u, v).writes : d \notin GreenColor(g, x, y).reads
  BY <1>1, <1>3, <1>4
<1> QED
  BY <1>1, <1>2, <1>5, OneCell DEF Apart

LEMMA FinalApart ==
  ASSUME NEW g \in AnyGrid, NEW x \in 0..(g.w - 1), NEW y \in 0..(g.h - 1),
         NEW u \in 0..(g.w - 1), NEW v \in 0..(g.h - 1)
  PROVE  Apart(Final(g, x, y), Final(g, u, v), x = u /\ y = v)
<1> DEFINE own(a, b) == {<<n, At(g, a, b)>> : n \in {"red", "green", "blue"}}
<1>1. Final(g, u, v).writes = own(u, v) /\ Final(g, x, y).writes = own(x, y)
  BY DEF Final, Access
<1>2. \A d \in Final(g, x, y).reads : d[1] = "calibrated" \/ d \in own(x, y)
  BY DEF Final, Access, Around
<1>3. \A d \in own(u, v) : d[1] # "calibrated" /\ d[2] = At(g, u, v)
  OBVIOUS
<1>4. \A d \in own(x, y) : d[2] = At(g, x, y)
  OBVIOUS
<1> HIDE DEF own
<1> QED
  BY <1>1, <1>2, <1>3, <1>4, OneCell DEF Apart

\* So no two invocations of a pass disturb each other.
LEMMA PassApart ==
  ASSUME NEW g \in AnyGrid, NEW n \in Passes,
         NEW x \in 0..(g.w - 1), NEW y \in 0..(g.h - 1),
         NEW u \in 0..(g.w - 1), NEW v \in 0..(g.h - 1)
  PROVE  Apart(Pass(n, g, x, y), Pass(n, g, u, v), x = u /\ y = v)
<1>1. n \in 0..7
  BY DEF Passes
<1> QED
  BY <1>1, InitializeApart, DirectionLpfApart, GreenApart, PqHpfApart,
     PqDirectionApart, OppositeColorApart, GreenColorApart, FinalApart
  DEF Pass

\* Whatever the size of the frame and the pattern of the sensor, no invocation
\* of a pass of rcd_demosaic.comp.glsl writes a cell another one reads or
\* writes, and none leaves the buffers.
THEOREM AnyGridRaceFree ==
  ASSUME NEW g \in AnyGrid, NEW n \in Passes
  PROVE  RaceFree(n, g) /\ InBounds(n, g)
<1> DEFINE do == [p \in Pixels(g) |-> Pass(n, g, p[1], p[2])]
           written == UNION {do[p].writes : p \in Pixels(g)}
           writes == UNION {{<<p, c>> : c \in do[p].writes} : p \in Pixels(g)}
           cell == [e \in writes |-> e[2]]
<1>1. ASSUME NEW p \in Pixels(g)
      PROVE  /\ do[p] = Pass(n, g, p[1], p[2])
             /\ p[1] \in 0..(g.w - 1) /\ p[2] \in 0..(g.h - 1) /\ p = <<p[1], p[2]>>
             /\ do[p].reads \cup do[p].writes \subseteq BufferNames \X Cells(g)
  <2>1. do[p] = Pass(n, g, p[1], p[2])
    OBVIOUS
  <2>2. p[1] \in 0..(g.w - 1) /\ p[2] \in 0..(g.h - 1) /\ p = <<p[1], p[2]>>
    BY DEF Pixels
  <2> QED
    BY <2>1, <2>2, PassBounds
<1>2. ASSUME NEW p \in Pixels(g), NEW q \in Pixels(g)
      PROVE  Apart(do[p], do[q], p = q)
  <2>1. Apart(do[p], do[q], p[1] = q[1] /\ p[2] = q[2])
    BY <1>1, PassApart
  <2> HIDE DEF do
  <2> QED
    BY <1>1, <2>1 DEF Apart
<1>3. RaceFree(n, g) <=> /\ Cardinality(writes) = Cardinality(written)
                         /\ \A p \in Pixels(g) :
                              (do[p].reads \cap written) \subseteq do[p].writes
  BY DEF RaceFree
<1>4. InBounds(n, g)
  <2> SUFFICES ASSUME NEW p \in Pixels(g),
                      NEW c \in Pass(n, g, p[1], p[2]).reads \cup Pass(n, g, p[1], p[2]).writes
               PROVE  c[2] \in 0..(g.w * g.h - 1)
    BY DEF InBounds
  <2>1. c \in BufferNames \X Cells(g)
    BY <1>1
  <2> QED
    BY <2>1 DEF Cells
<1>5. IsFiniteSet(BufferNames \X Cells(g)) /\ IsFiniteSet(Pixels(g))
  <2>1. IsFiniteSet(BufferNames)
    <3>1. \A a, b, c : IsFiniteSet({a, b, c})
      <4> SUFFICES ASSUME NEW a, NEW b, NEW c PROVE IsFiniteSet({a, b, c})
        OBVIOUS
      <4>1. IsFiniteSet({a} \cup {b})
        BY FS_Singleton, FS_Union
      <4>2. IsFiniteSet(({a} \cup {b}) \cup {c})
        BY <4>1, FS_Singleton, FS_Union
      <4>3. {a, b, c} = ({a} \cup {b}) \cup {c}
        OBVIOUS
      <4> QED
        BY <4>2, <4>3
    <3>2. IsFiniteSet({"calibrated", "cfa", "red"} \cup {"green", "blue", "vh"})
      BY <3>1, FS_Union
    <3>3. IsFiniteSet(({"calibrated", "cfa", "red"} \cup {"green", "blue", "vh"})
                        \cup {"aux_a", "aux_b", "aux_c"})
      BY <3>1, <3>2, FS_Union
    <3>4. BufferNames = ({"calibrated", "cfa", "red"} \cup {"green", "blue", "vh"})
                          \cup {"aux_a", "aux_b", "aux_c"}
      BY DEF BufferNames
    <3> QED
      BY <3>3, <3>4
  <2>2. g.w \in Nat /\ g.h \in Nat /\ g.w * g.h \in Nat
    BY GridFacts
  <2>3. IsFiniteSet(Cells(g)) /\ IsFiniteSet(0..(g.w - 1)) /\ IsFiniteSet(0..(g.h - 1))
    <3> DEFINE N == g.w * g.h
    <3>1. N \in Nat
      BY <2>2
    <3> HIDE DEF N
    <3>2. N - 1 \in Int /\ g.w - 1 \in Int /\ g.h - 1 \in Int /\ 0 \in Int
      BY <2>2, <3>1
    <3>3. IsFiniteSet(0..(N - 1)) /\ IsFiniteSet(0..(g.w - 1)) /\ IsFiniteSet(0..(g.h - 1))
      BY <3>2, FS_Interval
    <3> QED
      BY <3>3 DEF Cells, N
  <2> QED
    BY <2>1, <2>3, FS_Product DEF Pixels
<1> HIDE DEF do
<1>6. writes \subseteq Pixels(g) \X (BufferNames \X Cells(g))
  BY <1>1
<1>7. IsFiniteSet(writes)
  BY <1>5, <1>6, FS_Product, FS_Subset
<1>8. \A e \in writes : e[1] \in Pixels(g) /\ e[2] \in do[e[1]].writes /\ e = <<e[1], e[2]>>
  OBVIOUS
<1>9. cell \in Bijection(writes, written)
  <2>1. cell \in [writes -> written]
    BY <1>8
  <2>2. \A e, f \in writes : cell[e] = cell[f] => e = f
    <3> SUFFICES ASSUME NEW e \in writes, NEW f \in writes, e[2] = f[2]
                 PROVE  e = f
      OBVIOUS
    <3>1. e[1] = f[1]
      BY <1>2, <1>8 DEF Apart
    <3> QED
      BY <1>8, <3>1
  <2>3. \A c \in written : \E e \in writes : cell[e] = c
    <3> TAKE c \in written
    <3>1. PICK p \in Pixels(g) : c \in do[p].writes
      OBVIOUS
    <3>2. <<p, c>> \in writes
      BY <3>1
    <3>3. cell[<<p, c>>] = c
      BY <3>2
    <3> QED
      BY <3>2, <3>3
  <2> HIDE DEF cell, writes, written
  <2>4. cell \in Injection(writes, written)
    BY <2>1, <2>2, Fun_IsInj
  <2>5. cell \in Surjection(writes, written)
    BY <2>1, <2>3, Fun_IsSurj
  <2> QED
    BY <2>4, <2>5 DEF Bijection
<1>10. Cardinality(writes) = Cardinality(written)
  <2> HIDE DEF cell, writes, written
  <2> QED
    BY <1>7, <1>9, FS_Bijection DEF ExistsBijection
<1>11. \A p \in Pixels(g) : (do[p].reads \cap written) \subseteq do[p].writes
  BY <1>2 DEF Apart
<1> QED
  BY <1>3, <1>4, <1>10, <1>11

\* The passes recorded for a RAW frame have no race on any of the grids.
\* (pack_raw_mosaic, demosaic_rcd.)
THEOREM PassesAreRaceFree == Spec => []PassesRaceFree
<1>1. Grids \subseteq AnyGrid
  BY DEF Grids, AnyGrid
<1>2. PassesRaceFree
  BY <1>1, AnyGridRaceFree DEF PassesRaceFree, GridsRaceFree
<1> QED
  BY <1>2, PTL

-----------------------------------------------------------------------------
(* What an object owns.                                                    *)

\* Both sequences hold only elements of S, and the first is not empty.
LEMMA Followed ==
  ASSUME NEW S, NEW s \in Seq(S), NEW t \in Seq(S), Len(s) > 0
  PROVE  s \o t \in Seq(S) /\ Len(s \o t) > 0
<1>1. s \o t \in Seq(S) /\ Len(s \o t) = Len(s) + Len(t)
  OBVIOUS
<1> QED
  BY <1>1

\* What each constructor creates, in any part of it, its cleanup() destroys.
LEMMA WriterCreatesDestroyed ==
  WriterCreates \in Seq(WriterDestroys) /\ Len(WriterCreates) > 0
<1> DEFINE D == WriterDestroys
<1>1. /\ WriterBuffers \in Seq(D) /\ Len(WriterBuffers) > 0
      /\ WriterDescriptors \in Seq(D)
      /\ WriterPipeline \in Seq(D)
      /\ WriterQueries \in Seq(D)
      /\ WriterCommands \in Seq(D)
  BY DEF WriterDestroys, WriterBuffers, WriterDescriptors, WriterPipeline,
     WriterQueries, WriterCommands
<1>2. \A n \in {"calibration_pipeline", "rcd_pipeline", "color_pipeline", "sharpen_pipeline", "di_pipeline"} : n \in D
  BY DEF WriterDestroys
<1>3. WriterCameraPipelines \in Seq(D)
  <2> DEFINE calibration == CameraPipeline("calibration_pipeline_layout", "calibration_pipeline")
             rcd == CameraPipeline("rcd_pipeline_layout", "rcd_pipeline")
             color == CameraPipeline("color_pipeline_layout", "color_pipeline")
             sharpen == CameraPipeline("sharpen_pipeline_layout", "sharpen_pipeline")
             di == CameraPipeline("di_pipeline_layout", "di_pipeline")
  <2>1. calibration \in Seq(D) /\ Len(calibration) > 0 /\ rcd \in Seq(D)
        /\ color \in Seq(D) /\ sharpen \in Seq(D) /\ di \in Seq(D)
    BY DEF CameraPipeline, WriterDestroys
  <2>2. WriterCameraPipelines = calibration \o rcd \o color \o sharpen \o di
    BY DEF WriterCameraPipelines
  <2> HIDE DEF calibration, rcd, color, sharpen, di, D
  <2>3. calibration \o rcd \in Seq(D) /\ Len(calibration \o rcd) > 0
    BY <2>1, Followed
  <2>4. calibration \o rcd \o color \in Seq(D) /\ Len(calibration \o rcd \o color) > 0
    BY <2>1, <2>3, Followed
  <2>5. calibration \o rcd \o color \o sharpen \in Seq(D)
        /\ Len(calibration \o rcd \o color \o sharpen) > 0
    BY <2>1, <2>4, Followed
  <2> QED
    BY <2>1, <2>2, <2>5, Followed
<1> HIDE DEF D
<1>4. WriterBuffers \o WriterDescriptors \in Seq(D)
      /\ Len(WriterBuffers \o WriterDescriptors) > 0
  BY <1>1, Followed
<1>5. WriterBuffers \o WriterDescriptors \o WriterPipeline \in Seq(D)
      /\ Len(WriterBuffers \o WriterDescriptors \o WriterPipeline) > 0
  BY <1>1, <1>4, Followed
<1>6. WriterBuffers \o WriterDescriptors \o WriterPipeline \o WriterCameraPipelines \in Seq(D)
      /\ Len(WriterBuffers \o WriterDescriptors \o WriterPipeline \o WriterCameraPipelines) > 0
  BY <1>3, <1>5, Followed
<1>7. WriterBuffers \o WriterDescriptors \o WriterPipeline \o WriterCameraPipelines
        \o WriterQueries \in Seq(D)
      /\ Len(WriterBuffers \o WriterDescriptors \o WriterPipeline \o WriterCameraPipelines
        \o WriterQueries) > 0
  BY <1>1, <1>6, Followed
<1> QED
  BY <1>1, <1>7, Followed DEF WriterCreates, D

LEMMA CameraCreatesDestroyed ==
  CameraCreates \in Seq(CameraDestroys) /\ Len(CameraCreates) > 0
<1> DEFINE D == CameraDestroys
<1>1. /\ Len(CameraBuffers) > 0
      /\ CameraBuffers \in Seq(D)
      /\ CameraDescriptors \in Seq(D)
      /\ CameraColorPipeline \in Seq(D)
      /\ CameraSharpenPipeline \in Seq(D)
      /\ CameraDiPipeline \in Seq(D)
      /\ CameraQueries \in Seq(D)
      /\ CameraCommands \in Seq(D)
  BY DEF CameraDestroys, CameraBuffers, CameraDescriptors, CameraColorPipeline,
     CameraSharpenPipeline, CameraDiPipeline, CameraQueries,
     CameraCommands
<1> HIDE DEF D
<1>2. CameraBuffers \o CameraDescriptors \in Seq(D)
      /\ Len(CameraBuffers \o CameraDescriptors) > 0
  BY <1>1, Followed
<1>3. CameraBuffers \o CameraDescriptors \o CameraColorPipeline \in Seq(D)
      /\ Len(CameraBuffers \o CameraDescriptors \o CameraColorPipeline) > 0
  BY <1>1, <1>2, Followed
<1>4. CameraBuffers \o CameraDescriptors \o CameraColorPipeline \o CameraSharpenPipeline \in Seq(D)
      /\ Len(CameraBuffers \o CameraDescriptors \o CameraColorPipeline \o CameraSharpenPipeline) > 0
  BY <1>1, <1>3, Followed
<1>5. CameraBuffers \o CameraDescriptors \o CameraColorPipeline \o CameraSharpenPipeline \o CameraDiPipeline \in Seq(D)
      /\ Len(CameraBuffers \o CameraDescriptors \o CameraColorPipeline \o CameraSharpenPipeline \o CameraDiPipeline) > 0
  BY <1>1, <1>4, Followed
<1>6. CameraBuffers \o CameraDescriptors \o CameraColorPipeline \o CameraSharpenPipeline \o CameraDiPipeline \o CameraQueries \in Seq(D)
      /\ Len(CameraBuffers \o CameraDescriptors \o CameraColorPipeline \o CameraSharpenPipeline \o CameraDiPipeline \o CameraQueries) > 0
  BY <1>1, <1>5, Followed
<1> QED
  BY <1>1, <1>6, Followed DEF CameraCreates, D

LEMMA RawCreatesDestroyed ==
  RawCreates \in Seq(RawDestroys) /\ Len(RawCreates) > 0
<1> DEFINE D == RawDestroys
<1>1. /\ Len(RawBuffers) > 0
      /\ RawBuffers \in Seq(D)
      /\ RawCalibrationPipeline \in Seq(D)
      /\ RawRcdPipeline \in Seq(D)
      /\ RawQueries \in Seq(D)
      /\ RawCommands \in Seq(D)
  BY DEF RawDestroys, RawBuffers, RawCalibrationPipeline, RawRcdPipeline,
     RawQueries, RawCommands
<1> HIDE DEF D
<1>2. RawBuffers \o RawCalibrationPipeline \in Seq(D)
      /\ Len(RawBuffers \o RawCalibrationPipeline) > 0
  BY <1>1, Followed
<1>3. RawBuffers \o RawCalibrationPipeline \o RawRcdPipeline \in Seq(D)
      /\ Len(RawBuffers \o RawCalibrationPipeline \o RawRcdPipeline) > 0
  BY <1>1, <1>2, Followed
<1>4. RawBuffers \o RawCalibrationPipeline \o RawRcdPipeline \o RawQueries \in Seq(D)
      /\ Len(RawBuffers \o RawCalibrationPipeline \o RawRcdPipeline \o RawQueries) > 0
  BY <1>1, <1>3, Followed
<1> QED
  BY <1>1, <1>4, Followed DEF RawCreates, D

LEMMA PackerCreatesDestroyed ==
  PackerCreates \in Seq(PackerDestroys) /\ Len(PackerCreates) > 0
<1> DEFINE D == PackerDestroys
<1>1. /\ Len(PackerBuffers) > 0
      /\ PackerBuffers \in Seq(D)
      /\ PackerDescriptors \in Seq(D)
      /\ PackerPipeline \in Seq(D)
      /\ PackerCommands \in Seq(D)
      /\ PackerQueries \in Seq(D)
  BY DEF PackerDestroys, PackerBuffers, PackerDescriptors, PackerPipeline,
     PackerCommands, PackerQueries
<1> HIDE DEF D
<1>2. PackerBuffers \o PackerDescriptors \in Seq(D)
      /\ Len(PackerBuffers \o PackerDescriptors) > 0
  BY <1>1, Followed
<1>3. PackerBuffers \o PackerDescriptors \o PackerPipeline \in Seq(D)
      /\ Len(PackerBuffers \o PackerDescriptors \o PackerPipeline) > 0
  BY <1>1, <1>2, Followed
<1>4. PackerBuffers \o PackerDescriptors \o PackerPipeline \o PackerCommands \in Seq(D)
      /\ Len(PackerBuffers \o PackerDescriptors \o PackerPipeline \o PackerCommands) > 0
  BY <1>1, <1>3, Followed
<1> QED
  BY <1>1, <1>4, Followed DEF PackerCreates, D

\* The four classes.
LEMMA ClientNames == Clients = {"writer", "camera", "raw", "packer"}
  BY DEF Clients, Operations

\* So cleanup() destroys all that the constructor creates.
LEMMA AllDestroyed ==
  ASSUME client \in Clients
  PROVE  Creates \in Seq(Destroys) /\ Len(Creates) > 0
<1>1. CASE client = "writer"
  BY <1>1, WriterCreatesDestroyed DEF Creates, Destroys
<1>2. CASE client = "camera"
  BY <1>2, CameraCreatesDestroyed DEF Creates, Destroys
<1>3. CASE client = "raw"
  BY <1>3, RawCreatesDestroyed DEF Creates, Destroys
<1>4. CASE client = "packer"
  BY <1>4, PackerCreatesDestroyed DEF Creates, Destroys
<1> QED
  BY <1>1, <1>2, <1>3, <1>4, ClientNames

\* The results of an operation are those it was recorded with.
LEMMA FindsLeaveResults == \A o : WithFinds(o).results = o.results
  BY DEF WithFinds

\* Only the writer makes images, of which it keeps views.
LEMMA ImagesAreWriters ==
  ASSUME client \in Clients, ops = Operations[client], op \in DOMAIN ops,
         "image" \in ops[op].results
  PROVE  client = "writer"
<1>1. CASE client = "camera"
  <2>1. ops = [lut |-> WithFinds(CameraLut),
               camera_to_dwg |-> WithFinds(CameraColor),
               camera_to_dwg_sharpen |-> WithFinds(CameraChain(FALSE)),
               camera_to_dwg_sharpen_di |-> WithFinds(CameraChain(TRUE)),
               round_trip |-> WithFinds(CameraRoundTrip)]
    BY <1>1 DEF Operations
  <2>2. ops[op].results \in {CameraLut.results, CameraColor.results, CameraChain(FALSE).results,
                             CameraChain(TRUE).results, CameraRoundTrip.results}
    <3>1. op \in {"lut", "camera_to_dwg", "camera_to_dwg_sharpen",
                 "camera_to_dwg_sharpen_di", "round_trip"}
      BY <2>1
    <3>2. /\ ops["lut"] = WithFinds(CameraLut)
          /\ ops["camera_to_dwg"] = WithFinds(CameraColor)
          /\ ops["camera_to_dwg_sharpen"] = WithFinds(CameraChain(FALSE))
          /\ ops["camera_to_dwg_sharpen_di"] = WithFinds(CameraChain(TRUE))
          /\ ops["round_trip"] = WithFinds(CameraRoundTrip)
      BY <2>1
    <3>3. /\ ops["lut"].results = CameraLut.results
          /\ ops["camera_to_dwg"].results = CameraColor.results
          /\ ops["camera_to_dwg_sharpen"].results = CameraChain(FALSE).results
          /\ ops["camera_to_dwg_sharpen_di"].results = CameraChain(TRUE).results
          /\ ops["round_trip"].results = CameraRoundTrip.results
      BY <3>2, FindsLeaveResults
    <3> QED
      BY <3>1, <3>3
  <2> QED
    BY <2>2 DEF CameraLut, CameraColor, CameraChain, CameraRoundTrip
<1>2. CASE client = "raw"
  <2>1. ops = [round_trip |-> WithFinds(RawRoundTrip),
               calibrate |-> WithFinds(RawCalibrate),
               demosaic_rcd |-> WithFinds(RawDemosaic)]
    BY <1>2 DEF Operations
  <2>2. ops[op].results \in {RawRoundTrip.results, RawCalibrate.results, RawDemosaic.results}
    BY <2>1, FindsLeaveResults
  <2> QED
    BY <2>2 DEF RawRoundTrip, RawCalibrate, RawDemosaic
<1>3. CASE client = "packer"
  <2>1. ops = [pack |-> WithFinds(PackerPack)]
    BY <1>3 DEF Operations
  <2>2. ops[op].results = PackerPack.results
    BY <2>1, FindsLeaveResults
  <2> QED
    BY <2>2 DEF PackerPack
<1> QED
  BY <1>1, <1>2, <1>3, ClientNames

-----------------------------------------------------------------------------
\* What the object owns is what cleanup() destroys, but for the orphan.
Owned ==
  /\ client \in Clients /\ ops = Operations[client]
  /\ thread = "construct" => step \in 0..(Len(Creates) - 1)
  /\ thread = "call" => op \in DOMAIN ops
  /\ live \subseteq Destroys \cup {"orphan"}
  /\ thread = "gone" => live \subseteq {"orphan"}

\* Nothing exists at first.
LEMMA OwnedInit == Init => Owned
<1> SUFFICES ASSUME Init PROVE Owned
  OBVIOUS
<1>1. client \in Clients /\ Len(Creates) \in Nat /\ Len(Creates) > 0
  BY AllDestroyed DEF Init
<1> QED
  BY <1>1 DEF Init, Owned

\* What a step adds, completed or not, cleanup() knows of.
LEMMA OwnedNext == Owned /\ [Next]_vars => Owned'
<1> SUFFICES ASSUME Owned, [Next]_vars PROVE Owned'
  OBVIOUS
<1> USE DEF Owned
<1>0. Creates \in Seq(Destroys) /\ Len(Creates) \in Nat
  BY AllDestroyed
<1>1. ASSUME UNCHANGED programVars PROVE Creates' = Creates /\ Destroys' = Destroys
  BY <1>1 DEF Creates, Destroys, programVars
<1>2. CASE Create
  <2>1. step + 1 \in 1..Len(Creates) /\ Creates[step + 1] \in Destroys
    BY <1>0, <1>2 DEF Create
  <2>2. thread' = "construct" => step' \in 0..(Len(Creates) - 1)
    BY <1>0, <1>2, <2>1 DEF Create
  <2>3. thread' = "call" => op' \in DOMAIN ops
    BY <1>2 DEF Create, HasLut
  <2>4. thread' # "gone"
    BY <1>2 DEF Create
  <2> QED
    BY <1>1, <1>2, <2>1, <2>2, <2>3, <2>4 DEF Create, programVars
<1>3. CASE CreateFails
  <2>1. step + 1 \in 1..Len(Creates) /\ Creates[step + 1] \in Destroys
    BY <1>0, <1>3 DEF CreateFails
  <2>2. live' \subseteq Destroys \cup {"orphan"}
    BY <1>3, <2>1 DEF CreateFails
  <2> QED
    BY <1>1, <1>3, <2>2 DEF CreateFails, programVars
<1>4. CASE Upload
  <2>1. "image" \in ops[op].results => "views" \in Destroys
    BY <1>4, ImagesAreWriters DEF Upload, AtStep, Destroys, WriterDestroys
  <2> QED
    BY <1>1, <1>4, <2>1 DEF Upload, AtStep, Advance, programVars
<1>5. CASE Call
  BY <1>1, <1>5 DEF Call, programVars
<1>6. CASE CleanupDestroy
  BY <1>1, <1>6 DEF CleanupDestroy, programVars
<1>7. CASE Prepare \/ ResetFence \/ Submit \/ Wait \/ ReadResults
  BY <1>1, <1>7 DEF Prepare, ResetFence, Submit, Wait, ReadResults, AtStep, Advance, programVars
<1>8. CASE PrepareRejects \/ ReadRejects \/ StepFails
  BY <1>1, <1>8 DEF PrepareRejects, ReadRejects, StepFails, Throws, programVars
<1>9. CASE CleanupSlot \/ CleanupGivesUp \/ Destroy
  BY <1>1, <1>9 DEF CleanupSlot, CleanupGivesUp, Destroy, programVars
<1>10. CASE Gpu \/ (DeviceLost /\ UNCHANGED clientVars) \/ UNCHANGED vars
  BY <1>1, <1>10 DEF Gpu, clientVars, vars, programVars
<1> QED
  BY <1>2, <1>3, <1>4, <1>5, <1>6, <1>7, <1>8, <1>9, <1>10 DEF Next, Host, Caller

\* An object that is gone leaves nothing behind, whichever step of its
\* constructor or of an operation failed, but for the buffer create_buffer
\* drops.  (The constructors, cleanup.)
THEOREM Leakless == Spec => []NothingLeaked
<1>1. Owned => NothingLeaked
  BY DEF Owned, NothingLeaked
<1> QED
  BY <1>1, OwnedInit, OwnedNext, PTL DEF Spec

-----------------------------------------------------------------------------
(* What the queue executes.  o is an operation, done the commands of a     *)
(* submission of it that have been executed.                               *)

\* What has executed has what is ordered before it executed, too.
DownClosed(o, done) ==
  \A k \in done : \A j \in 1..(k - 1) :
    Ordered(o.stream[j], o.stream[k]) => j \in done

\* Of the commands executed, j is the last that writes b.
LastDone(o, done, j, b) ==
  /\ j > 0 => j \in done /\ b \in o.stream[j].writes
  /\ \A k \in done : k > j => b \notin o.stream[k].writes

\* Then buffer b, here its cell, is as command j of submission sub left it,
\* or as the submission found it, and visible to what the barriers executed
\* since have made it visible to.
BufferIs(o, sub, j, b, cell) ==
  /\ j > 0 => cell.tag = <<sub.frame, j>> /\ cell.kind = KindOf(o, j)
  /\ j = 0 /\ b \in o.uploads => cell.tag = <<sub.frame, 0>>
  /\ j = 0 /\ b = "image" /\ b \in o.results => cell.kind = "encoder"
  /\ j = 0 /\ b # "image" => DeviceKinds \subseteq cell.vis
  /\ \A m \in sub.done : \A x \in o.stream[m].scope :
       /\ x[1] = b /\ KindOf(o, j) \in x[2] /\ m > j
       /\ IF j > 0 THEN Ordered(o.stream[j], o.stream[m]) ELSE b = "image"
       => x[3] \subseteq cell.vis

\* The buffers an operation may write or has uploaded.
Own(name) == IF name = "lut" THEN Shared ELSE Buffers

ExecutedRight(o, sub, memory) ==
  /\ sub.done \subseteq 1..Len(o.stream)
  /\ DownClosed(o, sub.done)
  /\ \A b \in Own(sub.op) : \A j \in 0..Len(o.stream) :
       LastDone(o, sub.done, j, b)
         => BufferIs(o, sub, j, b, memory[Home(sub.slot, b)])

\* The host finds result b of frame f.
Landed(o, f, b, cell) ==
  /\ "HR" \in cell.vis
  /\ cell.kind # "host"
  /\ \A x \in o.finds[Len(o.stream) + 1] : x[1] = b => cell.tag = <<f, x[2]>>

\* The next submission will see what is in the buffer.
Seen(cell) == cell.kind = "host" \/ DeviceKinds \subseteq cell.vis

Buffer == Buffers \cup Shared

\* Different buffers, or the same one of different slots, are apart.
LEMMA HomeApart ==
  ASSUME NEW s \in Slots, NEW t \in Slots, NEW b \in Buffer, NEW c \in Buffer
  PROVE  /\ Home(s, b) \in Locations
         /\ Home(s, b) = Home(t, c) => b = c /\ (b \in Buffers => s = t)
         /\ b \in Buffers => Home(s, b) = <<s, b>>
         /\ b \in Shared => Home(s, b) = <<NumSlots, b>> /\ NumSlots # s
<1>1. Buffers \cap Shared = {}
  BY DEF Buffers, Shared, CameraRgb, RcdScratch
<1>2. s # NumSlots /\ t # NumSlots
  BY NumSlotsAssumption DEF Slots
<1>3. CASE b \in Shared
  <2>1. Home(s, b) = <<NumSlots, b>> /\ b \notin Buffers
    BY <1>1, <1>3 DEF Home
  <2>2. Home(t, c)[2] = c
    BY DEF Home
  <2> QED
    BY <1>2, <1>3, <2>1, <2>2 DEF Locations
<1>4. CASE b \in Buffers
  <2>1. Home(s, b) = <<s, b>> /\ b \notin Shared
    BY <1>1, <1>4 DEF Home
  <2>2. CASE c \in Shared
    BY <1>2, <1>4, <2>1, <2>2 DEF Home, Locations
  <2>3. CASE c \notin Shared
    BY <1>2, <1>4, <2>1, <2>3 DEF Home, Locations
  <2> QED
    BY <2>2, <2>3
<1> QED
  BY <1>3, <1>4 DEF Buffer

\* There is one last writer.
LEMMA OneLastWriter ==
  ASSUME NEW o, NEW k \in Nat, NEW j \in 0..(k - 1), NEW i \in 0..(k - 1), NEW b,
         IsLast(o, j, k, b), IsLast(o, i, k, b)
  PROVE  i = j
  BY DEF IsLast

\* All that is ordered before command k has executed, so whatever order the
\* rest was executed in, the last command executed that writes what k touches
\* is the last recorded before k, and the barriers between them are executed.
LEMMA ExecutionOrder ==
  ASSUME NEW o, Len(o.stream) \in Nat, Separated(o),
         NEW done \in SUBSET (1..Len(o.stream)), DownClosed(o, done),
         NEW k \in 1..Len(o.stream), k \notin done,
         \A i \in 1..(k - 1) : Ordered(o.stream[i], o.stream[k]) => i \in done,
         NEW b \in o.stream[k].reads \cup o.stream[k].writes
  PROVE  /\ \A w \in 1..Len(o.stream) :
              b \in o.stream[w].writes /\ w # k => (w \in done <=> w < k)
         /\ \A j \in 0..(k - 1) :
              IsLast(o, j, k, b)
                => /\ LastDone(o, done, j, b)
                   /\ \A m \in 1..Len(o.stream) : Between(o, j, k, m) => m \in done
<1>1. ASSUME NEW w \in 1..Len(o.stream), b \in o.stream[w].writes, w < k
      PROVE  w \in done
  <2>1. PICK m \in 1..Len(o.stream) : Between(o, w, k, m)
    <3>1. w \in 1..(k - 1)
      BY <1>1
    <3>2. o.stream[w].writes \cap (o.stream[k].reads \cup o.stream[k].writes) # {}
      BY <1>1
    <3> QED
      BY <3>1, <3>2 DEF Separated
  <2>2. m \in w + 1 .. k - 1 /\ Ordered(o.stream[w], o.stream[m])
        /\ Ordered(o.stream[m], o.stream[k])
    BY <2>1 DEF Between
  <2>3. m \in done
    BY <2>2
  <2> QED
    BY <2>2, <2>3 DEF DownClosed
<1>2. ASSUME NEW w \in 1..Len(o.stream), b \in o.stream[w].writes, w > k
      PROVE  w \notin done
  <2>1. PICK m \in 1..Len(o.stream) : Between(o, k, w, m)
    <3>1. k \in 1..(w - 1)
      BY <1>2
    <3>2. \/ o.stream[k].writes \cap (o.stream[w].reads \cup o.stream[w].writes) # {}
          \/ o.stream[k].reads \cap o.stream[w].writes # {}
      BY <1>2
    <3> QED
      BY <3>1, <3>2 DEF Separated
  <2>2. m \in k + 1 .. w - 1 /\ Ordered(o.stream[k], o.stream[m])
        /\ Ordered(o.stream[m], o.stream[w])
    BY <2>1 DEF Between
  <2>3. m \notin done
    BY <2>2 DEF DownClosed
  <2> QED
    BY <2>2, <2>3 DEF DownClosed
<1>3. \A w \in 1..Len(o.stream) :
        b \in o.stream[w].writes /\ w # k => (w \in done <=> w < k)
  BY <1>1, <1>2
<1>4. ASSUME NEW j \in 0..(k - 1), IsLast(o, j, k, b)
      PROVE  /\ LastDone(o, done, j, b)
             /\ \A m \in 1..Len(o.stream) : Between(o, j, k, m) => m \in done
  <2>1. j > 0 => j \in done /\ b \in o.stream[j].writes
    <3> SUFFICES ASSUME j > 0 PROVE j \in done /\ b \in o.stream[j].writes
      OBVIOUS
    <3>1. j \in 1..Len(o.stream) /\ j # k /\ j < k
      OBVIOUS
    <3>2. b \in o.stream[j].writes
      BY <1>4 DEF IsLast
    <3> QED
      BY <1>3, <3>1, <3>2
  <2>2. \A i \in done : i > j => b \notin o.stream[i].writes
    BY <1>3, <1>4 DEF IsLast
  <2>3. \A m \in 1..Len(o.stream) : Between(o, j, k, m) => m \in done
    BY <1>4 DEF Between
  <2> QED
    BY <2>1, <2>2, <2>3 DEF LastDone
<1> QED
  BY <1>3, <1>4

\* Submission sub of o has left in this cell what f says it leaves, visible to
\* the host where nothing else makes it so.
Left(o, sub, f, cell, coherent) ==
  /\ f \in (Buffers \cup Shared) \X Nat /\ f[1] \in o.results /\ f[2] > 0
  /\ cell.tag = <<sub.frame, f[2]>>
  /\ cell.kind \in {"W", "TW"}
  /\ f[1] \in {"image", "lut"} \/ coherent \/ "HR" \in cell.vis
  /\ \A kind : VisibleAt(o, f[2], Len(o.stream) + 1, f[1], kind) => kind \in cell.vis

\* A submission that has executed has left what it was to leave.
LEMMA SubmissionResult ==
  ASSUME NEW o, NEW sub, NEW memory, NEW names, NEW coherent,
         Synchronized(o, sub.op, names, coherent), ExecutedRight(o, sub, memory),
         sub.done = 1..Len(o.stream),
         NEW f, NEW after, after = Len(o.stream) + 1, f \in o.finds[after]
  PROVE  Left(o, sub, f, memory[Home(sub.slot, f[1])], coherent)
<1> DEFINE cell == memory[Home(sub.slot, f[1])]
           n == Len(o.stream)
<1>1. /\ n \in Nat /\ FindsLast(o) /\ ResultsVisible(o, coherent) /\ SharesRight(o, sub.op, names)
  BY DEF Synchronized, WellFormed
<1>2. f \in (Buffers \cup Shared) \X (0..n) /\ IsLast(o, f[2], n + 1, f[1])
  BY <1>1 DEF FindsLast
<1>3. f[1] \in o.results /\ f[2] > 0
  BY <1>1 DEF ResultsVisible
<1>4. f[1] \in Own(sub.op)
  BY <1>1, <1>3 DEF SharesRight, Own, Shared
<1>5. LastDone(o, sub.done, f[2], f[1])
  BY <1>1, <1>2, <1>3 DEF LastDone, IsLast
<1>6. BufferIs(o, sub, f[2], f[1], cell)
  BY <1>1, <1>2, <1>4, <1>5 DEF ExecutedRight
<1>7. cell.tag = <<sub.frame, f[2]>> /\ cell.kind \in {"W", "TW"}
  BY <1>2, <1>3, <1>6 DEF BufferIs, KindOf, WriteKind
<1>8. ASSUME NEW kind, VisibleAt(o, f[2], n + 1, f[1], kind) PROVE kind \in cell.vis
  <2>1. PICK m \in 1..n : /\ Between(o, f[2], n + 1, m)
                          /\ \E x \in o.stream[m].scope :
                               x[1] = f[1] /\ KindOf(o, f[2]) \in x[2] /\ kind \in x[3]
    BY <1>8 DEF VisibleAt
  <2>2. m > f[2] /\ Ordered(o.stream[f[2]], o.stream[m]) /\ m \in sub.done
    BY <1>2, <1>3, <2>1 DEF Between
  <2> QED
    BY <1>3, <1>6, <2>1, <2>2 DEF BufferIs
<1> QED
  BY <1>1, <1>2, <1>3, <1>7, <1>8 DEF ResultsVisible, Left

\* The next command of a submission, of those that may execute: the command
\* touches what the operations of its name may, and finds it as it is to be.
LEMMA CommandFinds ==
  ASSUME NEW o, NEW sub, NEW memory, NEW names, NEW coherent,
         Synchronized(o, sub.op, names, coherent), ExecutedRight(o, sub, memory),
         NEW k \in 1..Len(o.stream), k \notin sub.done,
         \A i \in 1..(k - 1) : Ordered(o.stream[i], o.stream[k]) => i \in sub.done,
         NEW b \in Own(sub.op), b \in o.stream[k].reads \cup o.stream[k].writes,
         NEW j \in 0..(k - 1), IsLast(o, j, k, b)
  PROVE  LET cell == memory[Home(sub.slot, b)]
         IN  /\ BufferIs(o, sub, j, b, cell)
             /\ \A kind \in DeviceKinds :
                  VisibleAt(o, j, k, b, kind) \/ (j = 0 /\ b # "image") => kind \in cell.vis
<1> DEFINE cell == memory[Home(sub.slot, b)]
           n == Len(o.stream)
<1>1. n \in Nat /\ Separated(o)
  BY DEF Synchronized, WellFormed
<1>2. /\ LastDone(o, sub.done, j, b)
      /\ \A m \in 1..n : Between(o, j, k, m) => m \in sub.done
  BY <1>1, ExecutionOrder DEF ExecutedRight
<1>3. BufferIs(o, sub, j, b, cell)
  BY <1>1, <1>2 DEF ExecutedRight
<1>4. ASSUME NEW kind \in DeviceKinds, VisibleAt(o, j, k, b, kind)
      PROVE  kind \in cell.vis
  <2>1. PICK m \in 1..n : /\ Between(o, j, k, m)
                          /\ \E x \in o.stream[m].scope :
                               x[1] = b /\ KindOf(o, j) \in x[2] /\ kind \in x[3]
    BY <1>4 DEF VisibleAt
  <2>2. m > j /\ (j > 0 => Ordered(o.stream[j], o.stream[m])) /\ m \in sub.done
    BY <1>2, <2>1 DEF Between
  <2> QED
    BY <1>3, <2>1, <2>2 DEF BufferIs
<1>5. ASSUME NEW kind \in DeviceKinds, j = 0, b # "image" PROVE kind \in cell.vis
  BY <1>3, <1>5 DEF BufferIs
<1> QED
  BY <1>3, <1>4, <1>5

\* The LUT is in place.
LutReady(memory) ==
  LET cell == memory[<<NumSlots, "lut">>]
  IN  cell.tag = LutTag /\ "R" \in cell.vis

\* So it computes what it is meant to.
LEMMA CommandSound ==
  ASSUME NEW Ops, NEW sub, sub.slot \in Slots, NEW coherent,
         Synchronized(Ops[sub.op], sub.op, DOMAIN Ops, coherent),
         ExecutedRight(Ops[sub.op], sub, mem),
         sub.op # "lut" /\ "lut" \in DOMAIN Ops => LutReady(mem),
         NEW k \in 1..Len(Ops[sub.op].stream), k \notin sub.done,
         \A i \in 1..(k - 1) :
           Ordered(Ops[sub.op].stream[i], Ops[sub.op].stream[k]) => i \in sub.done
  PROVE  Sound(Ops, sub, k)
<1> DEFINE o == Ops[sub.op]
           cmd == o.stream[k]
           vis(b) == mem[Home(sub.slot, b)].vis
<1>1. /\ Len(o.stream) \in Nat /\ AccessVisible(o) /\ FindsLast(o)
      /\ SharesRight(o, sub.op, DOMAIN Ops)
  BY DEF Synchronized, WellFormed
<1>2. /\ cmd.writes \subseteq Own(sub.op)
      /\ \A b \in cmd.reads : \/ b \in Own(sub.op) /\ b # "lut"
                              \/ /\ b = "lut" /\ sub.op # "lut"
                                 /\ cmd.stage = "compute" /\ "lut" \in DOMAIN Ops
  <2>1. CASE sub.op = "lut"
    BY <1>1, <2>1 DEF SharesRight, Own, Shared
  <2>2. CASE sub.op # "lut"
    <3>1. "lut" \notin Buffers
      BY DEF Buffers, CameraRgb, RcdScratch
    <3> QED
      BY <1>1, <2>2, <3>1 DEF SharesRight, Own
  <2> QED
    BY <2>1, <2>2
<1>3. ReadKind(cmd.stage) \in DeviceKinds /\ WriteKind(cmd.stage) \in DeviceKinds
  BY DEF ReadKind, WriteKind, DeviceKinds
<1>4. ASSUME NEW b \in cmd.reads PROVE ReadKind(cmd.stage) \in vis(b)
  <2>1. PICK j \in 0..(k - 1) :
          /\ IsLast(o, j, k, b)
          /\ IF j = 0 THEN b \in o.uploads \cup {"lut"}
                      ELSE VisibleAt(o, j, k, b, ReadKind(cmd.stage))
    BY <1>1, <1>4 DEF AccessVisible
  <2>2. CASE b = "lut" /\ sub.op # "lut" /\ cmd.stage = "compute" /\ "lut" \in DOMAIN Ops
    BY <2>2 DEF LutReady, Home, Shared, ReadKind
  <2>3. CASE b \in Own(sub.op) /\ b # "lut"
    <3>1. j = 0 => b # "image"
      BY <1>1, <2>1, <2>3 DEF SharesRight
    <3> QED
      BY <1>3, <2>1, <2>3, <3>1, CommandFinds
  <2> QED
    BY <1>2, <2>2, <2>3
<1>5. ASSUME NEW b \in cmd.writes PROVE WriteKind(cmd.stage) \in vis(b)
  <2>1. PICK j \in 0..(k - 1) :
          /\ IsLast(o, j, k, b)
          /\ \/ j = 0 /\ b # "image"
             \/ VisibleAt(o, j, k, b, WriteKind(cmd.stage))
    BY <1>1, <1>5 DEF AccessVisible
  <2> QED
    BY <1>2, <1>3, <2>1, CommandFinds
<1>6. ASSUME NEW f \in o.finds[k], f[1] \in cmd.reads
      PROVE  mem[Home(sub.slot, f[1])].tag =
               IF f = <<"lut", 0>> THEN LutTag ELSE <<sub.frame, f[2]>>
  <2>1. f \in (Buffers \cup Shared) \X (0..(k - 1)) /\ IsLast(o, f[2], k, f[1])
    BY <1>1 DEF FindsLast
  <2>2. CASE f[1] = "lut" /\ sub.op # "lut" /\ cmd.stage = "compute" /\ "lut" \in DOMAIN Ops
    <3>1. f[2] = 0
      <4>1. f[2] > 0 => f[2] \in 1..Len(o.stream) /\ "lut" \in o.stream[f[2]].writes
        BY <1>1, <2>1, <2>2 DEF IsLast
      <4>2. "lut" \notin Buffers
        BY DEF Buffers, CameraRgb, RcdScratch
      <4> QED
        BY <1>1, <2>1, <2>2, <4>1, <4>2 DEF SharesRight
    <3>2. f = <<"lut", 0>>
      BY <2>1, <2>2, <3>1
    <3> QED
      BY <2>2, <3>2 DEF LutReady, Home, Shared
  <2>3. CASE f[1] \in Own(sub.op) /\ f[1] # "lut"
    <3>1. BufferIs(o, sub, f[2], f[1], mem[Home(sub.slot, f[1])])
      BY <1>6, <2>1, <2>3, CommandFinds
    <3>2. f[2] = 0 => f[1] \in o.uploads
      <4>1. PICK j \in 0..(k - 1) :
              /\ IsLast(o, j, k, f[1])
              /\ IF j = 0 THEN f[1] \in o.uploads \cup {"lut"}
                          ELSE VisibleAt(o, j, k, f[1], ReadKind(cmd.stage))
        BY <1>1, <1>6 DEF AccessVisible
      <4>2. j = f[2]
        BY <2>1, <4>1, OneLastWriter
      <4> QED
        BY <2>3, <4>1, <4>2
    <3> QED
      BY <2>1, <2>3, <3>1, <3>2 DEF BufferIs
  <2> QED
    BY <1>2, <1>6, <2>2, <2>3
<1> QED
  BY <1>4, <1>5, <1>6 DEF Sound, Holds

\* What has executed after command k has, too.
LEMMA DoneGrows ==
  ASSUME NEW o, Len(o.stream) \in Nat, NEW done \in SUBSET (1..Len(o.stream)),
         DownClosed(o, done), NEW k \in 1..Len(o.stream),
         \A i \in 1..(k - 1) : Ordered(o.stream[i], o.stream[k]) => i \in done
  PROVE  DownClosed(o, done \cup {k}) /\ done \cup {k} \subseteq 1..Len(o.stream)
  BY DEF DownClosed

\* What command k of a submission does to the buffers of its operation if it
\* is a dispatch, copy or fill, and if it is a barrier.
Worked(o, sub, k, memory, after) ==
  \A b \in Own(sub.op) :
    LET cell == after[Home(sub.slot, b)]
    IN  IF b \in o.stream[k].writes
        THEN cell.tag = <<sub.frame, k>> /\ cell.kind = WriteKind(o.stream[k].stage)
        ELSE cell = memory[Home(sub.slot, b)]

Shown(o, sub, k, memory, after) ==
  \A b \in Own(sub.op) :
    LET cell == memory[Home(sub.slot, b)]
        next == after[Home(sub.slot, b)]
    IN  /\ next.tag = cell.tag /\ next.kind = cell.kind
        /\ cell.vis \subseteq next.vis
        /\ \A x \in o.stream[k].scope :
             x[1] = b /\ cell.kind \in x[2] => x[3] \subseteq next.vis

\* It changes nothing else.
Homes(sub) == {Home(sub.slot, b) : b \in Own(sub.op)}
KeptElsewhere(sub, memory, after) ==
  \A l \in Locations : l \notin Homes(sub) => after[l] = memory[l]

\* A dispatch, copy or fill writes what it is to write and nothing else.
LEMMA WorkExecuted ==
  ASSUME NEW o, NEW sub, NEW memory, NEW names, NEW coherent, NEW new, NEW after,
         Synchronized(o, sub.op, names, coherent), ExecutedRight(o, sub, memory),
         NEW k \in 1..Len(o.stream), k \notin sub.done,
         \A i \in 1..(k - 1) : Ordered(o.stream[i], o.stream[k]) => i \in sub.done,
         o.stream[k].stage # "barrier",
         new.slot = sub.slot, new.op = sub.op, new.frame = sub.frame,
         new.done = sub.done \cup {k},
         Worked(o, sub, k, memory, after)
  PROVE  ExecutedRight(o, new, after)
<1> DEFINE n == Len(o.stream)
<1>0. \A b \in Own(sub.op) :
        LET cell == after[Home(sub.slot, b)]
        IN  IF b \in o.stream[k].writes
            THEN cell.tag = <<sub.frame, k>> /\ cell.kind = WriteKind(o.stream[k].stage)
            ELSE cell = memory[Home(sub.slot, b)]
  BY DEF Worked
<1>1. /\ n \in Nat /\ Separated(o) /\ WellFormed(o)
      /\ sub.done \subseteq 1..n /\ DownClosed(o, sub.done)
  BY DEF Synchronized, WellFormed, ExecutedRight
<1>2. DownClosed(o, new.done) /\ new.done \subseteq 1..n
  <2>1. DownClosed(o, sub.done \cup {k}) /\ sub.done \cup {k} \subseteq 1..n
    BY <1>1, DoneGrows
  <2> QED
    BY <2>1
<1>3. ASSUME NEW b \in Own(sub.op), NEW j \in 0..n, LastDone(o, new.done, j, b)
      PROVE  BufferIs(o, new, j, b, after[Home(sub.slot, b)])
  <2> DEFINE cell == after[Home(sub.slot, b)]
  <2>1. CASE b \in o.stream[k].writes
    <3>1. j >= k
      BY <1>3, <2>1 DEF LastDone
    <3>2. j = k
      <4>1. j \in 1..n /\ b \in o.stream[j].writes /\ j \in new.done
        BY <1>3, <3>1 DEF LastDone
      <4>2. \A w \in 1..n : b \in o.stream[w].writes /\ w # k => (w \in sub.done <=> w < k)
        BY <1>1, <2>1, ExecutionOrder
      <4> QED
        BY <3>1, <4>1, <4>2
    <3>3. cell.tag = <<sub.frame, j>> /\ cell.kind = KindOf(o, j) /\ j > 0
      BY <1>0, <2>1, <3>2 DEF KindOf
    <3>4. ASSUME NEW m \in new.done, m > j, Ordered(o.stream[j], o.stream[m])
          PROVE  FALSE
      <4>1. m \in sub.done /\ k \in 1..(m - 1)
        BY <1>2, <3>2, <3>4
      <4> QED
        BY <1>1, <3>2, <3>4, <4>1 DEF DownClosed
    <3> QED
      BY <3>3, <3>4 DEF BufferIs
  <2>2. CASE b \notin o.stream[k].writes
    <3>1. LastDone(o, sub.done, j, b)
      BY <1>3, <2>2 DEF LastDone
    <3>2. BufferIs(o, sub, j, b, cell)
      BY <1>0, <2>2, <3>1 DEF ExecutedRight
    <3>3. o.stream[k].scope = {}
      BY <1>1 DEF WellFormed
    <3> QED
      BY <3>2, <3>3 DEF BufferIs
  <2> QED
    BY <2>1, <2>2
<1> QED
  BY <1>2, <1>3 DEF ExecutedRight

\* A barrier makes visible what it is to, and changes nothing else.
LEMMA BarrierExecuted ==
  ASSUME NEW o, NEW sub, NEW memory, NEW names, NEW coherent, NEW new, NEW after,
         Synchronized(o, sub.op, names, coherent), ExecutedRight(o, sub, memory),
         NEW k \in 1..Len(o.stream), k \notin sub.done,
         \A i \in 1..(k - 1) : Ordered(o.stream[i], o.stream[k]) => i \in sub.done,
         o.stream[k].stage = "barrier",
         new.slot = sub.slot, new.op = sub.op, new.frame = sub.frame,
         new.done = sub.done \cup {k},
         Shown(o, sub, k, memory, after)
  PROVE  ExecutedRight(o, new, after)
<1> DEFINE n == Len(o.stream)
<1>1. /\ n \in Nat /\ WellFormed(o) /\ SharesRight(o, sub.op, names)
      /\ sub.done \subseteq 1..n /\ DownClosed(o, sub.done)
  BY DEF Synchronized, WellFormed, ExecutedRight
<1>2. DownClosed(o, new.done) /\ new.done \subseteq 1..n
  <2>1. DownClosed(o, sub.done \cup {k}) /\ sub.done \cup {k} \subseteq 1..n
    BY <1>1, DoneGrows
  <2> QED
    BY <2>1
<1>3. ASSUME NEW b \in Own(sub.op), NEW j \in 0..n, LastDone(o, new.done, j, b)
      PROVE  BufferIs(o, new, j, b, after[Home(sub.slot, b)])
  <2> DEFINE cell == memory[Home(sub.slot, b)]
             next == after[Home(sub.slot, b)]
  <2>1. b \notin o.stream[k].writes
    BY <1>1 DEF WellFormed
  <2>2. LastDone(o, sub.done, j, b)
    BY <1>3, <2>1 DEF LastDone
  <2>3. BufferIs(o, sub, j, b, cell)
    BY <2>2 DEF ExecutedRight
  <2>4. ASSUME NEW m \in new.done, NEW x \in o.stream[m].scope,
               x[1] = b, KindOf(o, j) \in x[2], m > j,
               IF j > 0 THEN Ordered(o.stream[j], o.stream[m]) ELSE b = "image"
        PROVE  x[3] \subseteq next.vis
    <3>1. CASE m \in sub.done
      <4>1. x[3] \subseteq cell.vis
        BY <2>3, <2>4, <3>1 DEF BufferIs
      <4> QED
        BY <4>1 DEF Shown
    <3>2. CASE m = k
      <4>1. cell.kind = KindOf(o, j)
        <5>1. CASE j > 0
          BY <2>3, <5>1 DEF BufferIs
        <5>2. CASE j = 0
          <6>1. b = "image" /\ sub.op # "lut"
            BY <2>4, <5>2 DEF Own, Shared
          <6>2. b \in o.results
            BY <1>1, <2>4, <3>2, <6>1 DEF SharesRight
          <6> QED
            BY <2>3, <5>2, <6>1, <6>2 DEF BufferIs, KindOf
        <5> QED
          BY <5>1, <5>2
      <4> QED
        BY <2>4, <3>2, <4>1 DEF Shown
    <3> QED
      BY <3>1, <3>2
  <2>5. next.tag = cell.tag /\ next.kind = cell.kind /\ cell.vis \subseteq next.vis
    BY DEF Shown
  <2> HIDE DEF cell, next
  <2> QED
    BY <2>3, <2>4, <2>5 DEF BufferIs, cell, next
<1> QED
  BY <1>2, <1>3 DEF ExecutedRight
-----------------------------------------------------------------------------
(* Where the thread is, and what it has to do with the submissions.        *)

\* The step of the operation the thread is in.
Place == IF thread = "call" THEN Steps[step] ELSE "none"

StepNames == {"prepare", "upload", "reset", "submit", "wait", "read"}

\* The step after this one.
After(place) ==
  CASE place = "prepare" -> IF client = "raw" THEN "reset" ELSE "upload"
    [] place = "upload" -> IF client = "raw" THEN "submit" ELSE "reset"
    [] place = "reset" -> IF client = "raw" THEN "upload" ELSE "submit"
    [] place = "submit" -> IF client = "writer" /\ op # "lut" THEN "none" ELSE "wait"
    [] place = "wait" -> IF op = "lut" THEN "none" ELSE "read"
    [] OTHER -> "none"

Submissions == [slot : Slots, op : DOMAIN ops, frame : Frames, done : SUBSET Nat]

Typed ==
  /\ client \in Clients /\ ops = Operations[client]
  /\ thread \in {"construct", "idle", "call", "destroy", "gone"}
  /\ thread = "call" =>
       op \in DOMAIN ops /\ slot \in Slots /\ step \in 1..Len(Steps) /\ (op = "lut" <=> frame = 0)
  /\ frame \in Frames /\ slot \in 0..NumSlots /\ next_slot \in Slots
  /\ in_flight \in [Slots -> BOOLEAN] /\ fence \in [Slots -> BOOLEAN] /\ lost \in BOOLEAN
  /\ submitted \in [Slots -> [op : DOMAIN ops \cup {"none"}, frame : Frames]]
  /\ outcome \in [Frames -> {"none", "good", "garbage"}]
  /\ pending \in Seq(Submissions)

\* cleanup() waits for nothing any more.
DoneWaiting == thread = "gone" \/ (thread = "destroy" /\ slot = NumSlots)

\* A slot is marked or waited for as long as the GPU may be working on it.
\* Once cleanup() is done with waiting, the GPU still works only on slots
\* after one with a status word: that of the slot the writer gave up at.
SlotsInUse ==
  /\ client \in {"raw", "packer"} => \A s \in Slots : ~in_flight[s]
  /\ thread = "construct" =>
       pending = << >> /\ frame = 0 /\ slot = 0 /\ \A s \in Slots : ~in_flight[s]
  /\ thread = "destroy" /\ slot < NumSlots => \A s \in Slots : s < slot => ~in_flight[s]
  /\ DoneWaiting => \/ lost
                    \/ \A s \in Slots : in_flight[s] /\ ~fence[s] =>
                         client = "writer" /\ \E r \in 0..(s - 1) : HasStatus(r)
  /\ Place \in {"wait", "read"} => submitted[slot].op = op /\ submitted[slot].frame = frame
  /\ Place \in {"upload", "reset", "submit"} => ~in_flight[slot]
  /\ \A s \in Slots : in_flight[s] =>
       /\ submitted[s].op \in DOMAIN ops
       /\ client = "writer" => submitted[s].op # "lut"
  /\ Place = "submit" \/ (client = "raw" /\ Place = "upload") => ~fence[slot]

SlotOfSubmission(sub) ==
  /\ ~fence[sub.slot]
  /\ Place = "read" => sub.slot # slot
  /\ ~lost /\ Place \in {"upload", "reset", "submit"} => sub.slot # slot
  /\ lost \/ in_flight[sub.slot] \/ (Place = "wait" /\ slot = sub.slot)
  /\ in_flight[sub.slot] =>
       submitted[sub.slot].op = sub.op /\ submitted[sub.slot].frame = sub.frame
  /\ Place = "wait" /\ slot = sub.slot => sub.op = op /\ sub.frame = frame
  /\ IF sub.op = "lut"
     THEN sub.frame = 0 /\ (lost \/ (frame = 0 /\ Place = "wait" /\ slot = sub.slot))
     ELSE frame > 0

OneEach ==
  /\ \A i \in 1..Len(pending) : SlotOfSubmission(pending[i])
  /\ \A i, j \in 1..Len(pending) : pending[i].slot = pending[j].slot => i = j

Control == Typed /\ SlotsInUse /\ OneEach

\* Only the classes that convert to DI have a LUT.
LEMMA LutClients ==
  ASSUME client \in Clients, ops = Operations[client], "lut" \in DOMAIN ops
  PROVE  client \in {"writer", "camera"}
<1>1. CASE client = "raw"
  BY <1>1 DEF Operations
<1>2. CASE client = "packer"
  BY <1>2 DEF Operations
<1> QED
  BY <1>1, <1>2, ClientNames

\* The order of the steps, class by class.
LEMMA StepsFollow ==
  ASSUME Typed, thread = "call"
  PROVE  /\ Len(Steps) \in Nat /\ Place = Steps[step] /\ Place \in StepNames
         /\ step = Len(Steps) <=> After(Place) = "none"
         /\ step < Len(Steps) => Steps[step + 1] = After(Place)
         /\ Place \in {"prepare", "read"} => op # "lut"
<1> USE DEF Place, After, StepNames
<1>0. step \in 1..Len(Steps)
  BY DEF Typed
<1>1. CASE op = "lut"
  <2>1. Steps = <<"upload", "reset", "submit", "wait">>
    BY <1>1 DEF Steps, LutSteps
  <2>2. client # "raw"
    BY <1>1, LutClients DEF Typed
  <2>3. step \in 1..4 /\ Len(Steps) = 4
    BY <1>0, <2>1
  <2> QED
    BY <1>1, <2>1, <2>2, <2>3
<1>2. CASE op # "lut" /\ client = "writer"
  <2>1. Steps = <<"prepare", "upload", "reset", "submit">>
    BY <1>2 DEF Steps, WriterSteps
  <2>2. step \in 1..4 /\ Len(Steps) = 4
    BY <1>0, <2>1
  <2> QED
    BY <1>2, <2>1, <2>2
<1>3. CASE op # "lut" /\ client = "camera"
  <2>1. Steps = <<"prepare", "upload", "reset", "submit", "wait", "read">>
    BY <1>3 DEF Steps, CameraSteps
  <2>2. step \in 1..6 /\ Len(Steps) = 6
    BY <1>0, <2>1
  <2> QED
    BY <1>3, <2>1, <2>2
<1>4. CASE op # "lut" /\ client = "raw"
  <2>1. Steps = <<"prepare", "reset", "upload", "submit", "wait", "read">>
    BY <1>4 DEF Steps, RawSteps
  <2>2. step \in 1..6 /\ Len(Steps) = 6
    BY <1>0, <2>1
  <2> QED
    BY <1>4, <2>1, <2>2
<1>5. CASE op # "lut" /\ client = "packer"
  <2>1. Steps = <<"upload", "reset", "submit", "wait", "read">>
    BY <1>5 DEF Steps, PackerSteps
  <2>2. step \in 1..5 /\ Len(Steps) = 5
    BY <1>0, <2>1
  <2> QED
    BY <1>5, <2>1, <2>2
<1> QED
  BY <1>1, <1>2, <1>3, <1>4, <1>5, ClientNames DEF Typed

\* A step that does not throw leads to the next one, or out of the operation.
LEMMA Advances ==
  ASSUME Typed, NEW place \in StepNames, AtStep(place), Advance, op' = op, client' = client
  PROVE  /\ Place = place /\ thread = "call" /\ slot \in Slots /\ op \in DOMAIN ops
         /\ Place' = After(place)
         /\ thread' = IF After(place) = "none" THEN "idle" ELSE "call"
         /\ thread' = "call" => step' \in 1..Len(Steps')
         /\ place \in {"prepare", "read"} => op # "lut"
<1>1. thread = "call" /\ Place = place /\ slot \in Slots /\ op \in DOMAIN ops /\ step \in 1..Len(Steps)
  BY DEF AtStep, Place, Typed
<1>2. Steps' = Steps
  BY DEF Steps
<1>3. /\ Len(Steps) \in Nat
      /\ step = Len(Steps) <=> After(place) = "none"
      /\ step < Len(Steps) => Steps[step + 1] = After(place)
      /\ place \in {"prepare", "read"} => op # "lut"
  BY <1>1, StepsFollow
<1>4. CASE step = Len(Steps)
  BY <1>1, <1>3, <1>4 DEF Advance, Place
<1>5. CASE step # Len(Steps)
  <2>1. step < Len(Steps) /\ step + 1 \in 1..Len(Steps)
    BY <1>1, <1>3, <1>5
  <2>2. thread' = "call" /\ step' = step + 1
    BY <1>1, <1>5 DEF Advance
  <2> QED
    BY <1>1, <1>2, <1>3, <1>5, <2>1, <2>2 DEF Place
<1> QED
  BY <1>3, <1>4, <1>5

\* An exception leaves no step.
LEMMA Thrown ==
  ASSUME Typed, thread = "call", Throws
  PROVE  /\ Place' = "none"
         /\ thread' = IF op = "lut" THEN "destroy" ELSE "idle"
         /\ thread' = "destroy" => slot' = 0
         /\ slot' \in 0..NumSlots
  BY NumSlotsAssumption DEF Typed, Throws, Place

\* Reading an old status changes one frame's outcome.
LEMMA StatusTyped ==
  ASSUME outcome \in [Frames -> {"none", "good", "garbage"}], NEW s, ReadStatus(s)
  PROVE  outcome' \in [Frames -> {"none", "good", "garbage"}]
  BY DEF ReadStatus

\* Replacing an element of a sequence keeps its length and the others.
LEMMA Replacing ==
  ASSUME NEW S, NEW q \in Seq(S), NEW i \in 1..Len(q), NEW e \in S
  PROVE  /\ [q EXCEPT ![i] = e] \in Seq(S)
         /\ Len([q EXCEPT ![i] = e]) = Len(q)
         /\ \A j \in 1..Len(q) : [q EXCEPT ![i] = e][j] = IF j = i THEN e ELSE q[j]
  BY ExceptSeq

\* Executing a command marks it in its submission.
LEMMA ExecutingKeeps ==
  ASSUME NEW subs \in Seq(Submissions), NEW i \in 1..Len(subs), NEW k \in Nat,
         NEW new, new = [subs EXCEPT ![i].done = @ \cup {k}]
  PROVE  /\ new \in Seq(Submissions) /\ Len(new) = Len(subs)
         /\ \A a \in 1..Len(subs) : a # i => new[a] = subs[a]
         /\ new[i].slot = subs[i].slot /\ new[i].op = subs[i].op
         /\ new[i].frame = subs[i].frame /\ new[i].done = subs[i].done \cup {k}
<1>1. subs[i] \in Submissions
  OBVIOUS
<1>2. [subs[i] EXCEPT !.done = @ \cup {k}] \in Submissions
  BY <1>1 DEF Submissions
<1>3. new = [subs EXCEPT ![i] = [subs[i] EXCEPT !.done = @ \cup {k}]]
  OBVIOUS
<1>4. new \in Seq(Submissions) /\ Len(new) = Len(subs) /\ new[i] = [subs[i] EXCEPT !.done = @ \cup {k}]
  <2> DEFINE r == [subs[i] EXCEPT !.done = @ \cup {k}]
  <2>1. r \in Submissions /\ new = [subs EXCEPT ![i] = r]
    BY <1>2, <1>3
  <2> HIDE DEF r
  <2>2. new \in Seq(Submissions) /\ Len(new) = Len(subs) /\ new[i] = r
    <3>1. /\ [subs EXCEPT ![i] = r] \in Seq(Submissions)
          /\ Len([subs EXCEPT ![i] = r]) = Len(subs)
          /\ \A j \in 1..Len(subs) : [subs EXCEPT ![i] = r][j] = IF j = i THEN r ELSE subs[j]
      BY <2>1, Replacing
    <3>2. [subs EXCEPT ![i] = r][i] = r
      BY <3>1
    <3> QED
      BY <2>1, <3>1, <3>2, Zenon
  <2> QED
    BY <2>2 DEF r
<1> QED
  BY <1>1, <1>3, <1>4 DEF Submissions

\* The elements of the tail are those of the sequence, one further.
LEMMA TailKeeps ==
  ASSUME NEW subs \in Seq(Submissions), subs # << >>
  PROVE  /\ Tail(subs) \in Seq(Submissions) /\ Len(Tail(subs)) = Len(subs) - 1
         /\ Head(subs) = subs[1] /\ 1 \in 1..Len(subs)
         /\ \A a \in 1..Len(Tail(subs)) : a + 1 \in 1..Len(subs) /\ Tail(subs)[a] = subs[a + 1]
  OBVIOUS

\* The types, from the types and what holds of the slots.
LEMMA TypedNext == Typed /\ SlotsInUse /\ [Next]_vars => Typed'
<1> SUFFICES ASSUME Typed, SlotsInUse, [Next]_vars PROVE Typed'
  OBVIOUS
<1>0. /\ ops' = ops => Submissions' = Submissions
      /\ NumSlots \in Nat \ {0} /\ MaxCalls \in Nat /\ Slots = 0..(NumSlots - 1)
      /\ Frames = 0..MaxCalls
  BY NumSlotsAssumption, MaxCallsAssumption DEF Submissions, Slots, Frames
<1>a. ASSUME NEW place \in StepNames, AtStep(place), Advance, UNCHANGED <<programVars, op, frame, slot, next_slot>>
      PROVE  /\ client' \in Clients /\ ops' = Operations[client'] /\ ops' = ops
             /\ thread' \in {"construct", "idle", "call", "destroy", "gone"}
             /\ thread' = "call" =>
                  op' \in DOMAIN ops' /\ slot' \in Slots /\ step' \in 1..Len(Steps') /\ (op' = "lut" <=> frame' = 0)
             /\ frame' \in Frames /\ slot' \in 0..NumSlots /\ next_slot' \in Slots
             /\ slot \in Slots /\ op \in DOMAIN ops
  <2>1. thread' \in {"idle", "call"} /\ thread = "call"
        /\ (thread' = "call" => step' \in 1..Len(Steps'))
    BY <1>a, Advances DEF programVars
  <2> QED
    BY <1>a, <2>1 DEF Typed, programVars
<1>1. CASE Create
  <2>1. CASE thread' = "call"
    <3>1. op' = "lut" /\ step' = 1 /\ "lut" \in DOMAIN ops
      BY <1>1, <2>1 DEF Create, HasLut
    <3>2. Steps' = <<"upload", "reset", "submit", "wait">>
      BY <3>1 DEF Steps, LutSteps
    <3>3. step' \in 1..Len(Steps')
      BY <3>1, <3>2
    <3>4. frame' = 0 /\ slot' \in Slots
      BY <1>0, <1>1 DEF Create, SlotsInUse
    <3> QED
      BY <1>0, <1>1, <2>1, <3>1, <3>3, <3>4 DEF Create, Typed, queueVars, programVars
  <2>2. CASE thread' # "call"
    BY <1>0, <1>1, <2>2 DEF Create, Typed, queueVars, programVars
  <2> QED
    BY <2>1, <2>2
<1>2. CASE CreateFails
  BY <1>0, <1>2 DEF CreateFails, Typed, queueVars, programVars
<1>3. CASE Call
  <2>1. op' \in DOMAIN ops /\ op' # "lut" /\ frame' \in Frames /\ frame' # 0
    BY <1>0, <1>3 DEF Call, Typed
  <2>2. slot' \in Slots /\ next_slot' \in Slots
    BY <1>0, <1>3 DEF Call, Typed
  <2>4. step' \in 1..Len(Steps')
    <3>1. Len(Steps') \in {4, 5, 6}
      <4>1. Steps' \in {WriterSteps, CameraSteps, RawSteps, PackerSteps}
        BY <1>3, <2>1, ClientNames DEF Call, Steps, Typed, programVars
      <4> QED
        BY <4>1 DEF WriterSteps, CameraSteps, RawSteps, PackerSteps
    <3>2. step' = 1
      BY <1>3 DEF Call
    <3> QED
      BY <3>1, <3>2
  <2> QED
    BY <1>0, <1>3, <2>1, <2>2, <2>4 DEF Call, Typed, queueVars, programVars
<1>4. CASE Prepare
  <2>1. outcome' \in [Frames -> {"none", "good", "garbage"}]
    BY <1>4, StatusTyped DEF Prepare, Typed
  <2>2. in_flight' \in [Slots -> BOOLEAN]
    BY <1>4 DEF Prepare, Typed
  <2> QED
    BY <1>0, <1>4, <1>a, <2>1, <2>2 DEF Prepare, StepNames, Typed, queueVars, programVars
<1>5. CASE Upload
  BY <1>0, <1>5, <1>a DEF Upload, StepNames, Typed, queueVars, programVars
<1>6. CASE ResetFence
  <2>1. fence' \in [Slots -> BOOLEAN]
    BY <1>6 DEF ResetFence, Typed
  <2> QED
    BY <1>0, <1>6, <1>a, <2>1 DEF ResetFence, StepNames, Typed, queueVars, programVars
<1>7. CASE Submit
  <2>1. slot \in Slots /\ op \in DOMAIN ops
    BY <1>7, <1>a DEF Submit, StepNames
  <2>2. submitted' \in [Slots -> [op : DOMAIN ops \cup {"none"}, frame : Frames]]
    BY <1>7, <2>1 DEF Submit, Typed
  <2>3. in_flight' \in [Slots -> BOOLEAN]
    BY <1>7, <2>1 DEF Submit, Typed
  <2>4. pending' \in Seq(Submissions)
    <3>1. [slot |-> slot, op |-> op, frame |-> frame, done |-> {}] \in Submissions
      BY <2>1 DEF Submissions, Typed
    <3> QED
      BY <1>7, <3>1 DEF Submit, Enqueue, Typed
  <2> QED
    BY <1>0, <1>7, <1>a, <2>2, <2>3, <2>4 DEF Submit, StepNames, Typed, queueVars, programVars
<1>8. CASE Wait
  <2>1. in_flight' \in [Slots -> BOOLEAN]
    BY <1>8 DEF Wait, Typed
  <2> QED
    BY <1>0, <1>8, <1>a, <2>1 DEF Wait, StepNames, Typed, queueVars, programVars
<1>9. CASE ReadResults
  <2>1. outcome' \in [Frames -> {"none", "good", "garbage"}]
    BY <1>9 DEF ReadResults, Typed
  <2> QED
    BY <1>0, <1>9, <1>a, <2>1 DEF ReadResults, StepNames, Typed, queueVars, programVars
<1>10. CASE StepFails
  BY <1>0, <1>10, Thrown DEF StepFails, Typed, queueVars, programVars
<1>18. CASE PrepareRejects \/ ReadRejects
  <2>1. outcome' \in [Frames -> {"none", "good", "garbage"}]
    BY <1>18, StatusTyped DEF PrepareRejects, ReadRejects, Typed
  <2>2. in_flight' \in [Slots -> BOOLEAN]
    BY <1>18 DEF PrepareRejects, ReadRejects, Typed
  <2>3. thread = "call" /\ Throws
    BY <1>18 DEF PrepareRejects, ReadRejects, AtStep
  <2>4. thread' \in {"idle", "destroy"} /\ slot' \in 0..NumSlots
    BY <2>3, Thrown
  <2> QED
    BY <1>0, <1>18, <2>1, <2>2, <2>4 DEF PrepareRejects, ReadRejects, Typed, queueVars, programVars
<1>11. CASE Destroy
  BY <1>0, <1>11 DEF Destroy, Typed, queueVars, programVars
<1>12. CASE CleanupSlot \/ CleanupGivesUp
  <2>1. outcome' \in [Frames -> {"none", "good", "garbage"}]
    BY <1>12, StatusTyped DEF CleanupSlot, CleanupGivesUp, Typed
  <2>2. in_flight' \in [Slots -> BOOLEAN]
    BY <1>12 DEF CleanupSlot, CleanupGivesUp, Typed
  <2>3. slot' \in 0..NumSlots
    <3>1. slot \in 0..NumSlots /\ slot < NumSlots /\ slot' \in {slot + 1, NumSlots}
      BY <1>12 DEF CleanupSlot, CleanupGivesUp, Typed
    <3> QED
      BY <1>0, <3>1
  <2>4. thread' = "destroy" /\ UNCHANGED <<queueVars, programVars, frame, next_slot, submitted>>
    BY <1>12 DEF CleanupSlot, CleanupGivesUp
  <2> QED
    BY <1>0, <2>1, <2>2, <2>3, <2>4 DEF Typed, queueVars, programVars
<1>13. CASE CleanupDestroy
  BY <1>0, <1>13 DEF CleanupDestroy, Typed, queueVars, programVars
<1>14. CASE Execute(ops) /\ UNCHANGED clientVars
  <2>1. PICK i \in 1..Len(pending) : \E k \in Undone(ops, i) :
          pending' = [pending EXCEPT ![i].done = @ \cup {k}]
    BY <1>14 DEF Execute
  <2>2. PICK k \in Undone(ops, i) : pending' = [pending EXCEPT ![i].done = @ \cup {k}]
    BY <2>1
  <2>3. pending' \in Seq(Submissions)
    <3>1. k \in Nat
      BY <2>2 DEF Undone
    <3>2. pending \in Seq(Submissions)
      BY DEF Typed
    <3> QED
      BY <2>2, <3>1, <3>2, ExecutingKeeps
  <2>4. Steps' = Steps
    BY <1>14 DEF Steps, clientVars, programVars
  <2> QED
    BY <1>0, <1>14, <2>3, <2>4 DEF Execute, Typed, clientVars, programVars
<1>15. CASE Gpu /\ ~(Execute(ops) /\ UNCHANGED clientVars)
  <2>1. Complete(ops, Coherent(client)) /\ UNCHANGED <<programVars, thread, step, op, frame, slot,
          next_slot, in_flight, submitted, live>>
    BY <1>15 DEF Gpu
  <2>2. pending' \in Seq(Submissions)
    BY <2>1, TailKeeps DEF Complete, Typed
  <2>3. fence' \in [Slots -> BOOLEAN]
    BY <2>1 DEF Complete, Typed
  <2>4. outcome' \in [Frames -> {"none", "good", "garbage"}]
    BY <1>15 DEF Gpu, Typed, clientVars
  <2>5. Steps' = Steps
    BY <2>1 DEF Steps, programVars
  <2> QED
    BY <1>0, <2>1, <2>2, <2>3, <2>4, <2>5 DEF Complete, Typed, programVars
<1>16. CASE DeviceLost /\ UNCHANGED clientVars
  <2>1. Steps' = Steps
    BY <1>16 DEF Steps, clientVars, programVars
  <2> QED
    BY <1>0, <1>16, <2>1 DEF DeviceLost, Typed, clientVars, programVars
<1>17. CASE UNCHANGED vars
  <2>1. Steps' = Steps
    BY <1>17 DEF Steps, vars, clientVars, programVars
  <2> QED
    BY <1>0, <1>17, <2>1 DEF Typed, vars, clientVars, queueVars, programVars
<1> QED
  BY <1>1, <1>2, <1>3, <1>4, <1>5, <1>6, <1>7, <1>8, <1>9, <1>10, <1>11, <1>12, <1>13,
     <1>14, <1>15, <1>16, <1>17, <1>18 DEF Next, Host, Caller

\* A slot that is neither marked nor waited for is not being worked on, and a
\* fence that is signaled is not either.
LEMMA NotBusy ==
  ASSUME Control, NEW i \in 1..Len(pending)
  PROVE  /\ pending[i] \in Submissions
         /\ ~fence[pending[i].slot]
         /\ lost \/ in_flight[pending[i].slot] \/ (Place = "wait" /\ slot = pending[i].slot)
  BY DEF Control, Typed, OneEach, SlotOfSubmission

\* What the actions of the thread do to the slots, in any of its classes.
LEMMA SlotsNext == Control /\ [Next]_vars => SlotsInUse'
<1> SUFFICES ASSUME Control, [Next]_vars PROVE SlotsInUse'
  OBVIOUS
<1>0. /\ Typed /\ SlotsInUse /\ OneEach /\ NumSlots \in Nat \ {0} /\ Slots = 0..(NumSlots - 1)
  BY NumSlotsAssumption DEF Control, Slots
<1>a. ASSUME NEW place \in StepNames, AtStep(place), Advance, UNCHANGED <<programVars, op, slot>>
      PROVE  /\ Place = place /\ thread = "call" /\ Place' = After(place)
             /\ thread' \in {"idle", "call"} /\ slot' = slot /\ slot \in Slots /\ op \in DOMAIN ops
             /\ client' = client /\ ops' = ops
  BY <1>0, <1>a, Advances DEF programVars
<1>b. /\ client \in Clients /\ ops = Operations[client]
      /\ in_flight \in [Slots -> BOOLEAN] /\ fence \in [Slots -> BOOLEAN]
  BY <1>0 DEF Typed
<1>z. (thread' \notin {"destroy", "gone"} => ~DoneWaiting')
      /\ (thread' = "destroy" /\ slot' = 0 => ~DoneWaiting')
  BY <1>0 DEF DoneWaiting
<1>1. CASE Create
  <2>1. Place' \in {"none", "upload"} /\ (Place' = "upload" => "lut" \in DOMAIN ops)
        /\ thread' \in {"construct", "idle", "call"}
    <3>1. CASE thread' = "call"
      <4>1. op' = "lut" /\ step' = 1 /\ "lut" \in DOMAIN ops
        BY <1>1, <3>1 DEF Create, HasLut
      <4>2. Steps'[step'] = "upload"
        BY <4>1 DEF Steps, LutSteps
      <4> QED
        BY <3>1, <4>1, <4>2 DEF Place
    <3>2. CASE thread' # "call"
      BY <1>1, <3>2 DEF Create, Place
    <3> QED
      BY <3>1, <3>2
  <2>2. Place' = "upload" => client # "raw"
    BY <1>b, <2>1, LutClients
  <2> QED
    BY <1>0, <1>1, <1>z, <2>1, <2>2 DEF Create, SlotsInUse, queueVars, programVars
<1>2. CASE CreateFails
  BY <1>0, <1>2, <1>z DEF CreateFails, SlotsInUse, queueVars, programVars, Place
<1>3. CASE Call
  <2>1. Place' = IF client = "packer" THEN "upload" ELSE "prepare"
    <3>1. Steps' = IF client = "packer" THEN PackerSteps
                   ELSE IF client = "writer" THEN WriterSteps
                   ELSE IF client = "camera" THEN CameraSteps ELSE RawSteps
      BY <1>3, <1>b, ClientNames DEF Call, Steps, programVars
    <3>2. Steps'[1] = IF client = "packer" THEN "upload" ELSE "prepare"
      BY <3>1 DEF PackerSteps, WriterSteps, CameraSteps, RawSteps
    <3> QED
      BY <1>3, <3>2 DEF Call, Place
  <2>2. slot' \in Slots /\ thread' = "call"
    BY <1>0, <1>3 DEF Call, Typed
  <2> QED
    BY <1>0, <1>3, <1>z, <2>1, <2>2 DEF Call, SlotsInUse, queueVars, programVars
<1>4. CASE Prepare
  <2>1. Place' \in {"upload", "reset"} /\ thread' = "call" /\ slot \in Slots
        /\ (client = "raw" => Place' = "reset")
    BY <1>4, <1>a, Advances, <1>0 DEF Prepare, StepNames, After, programVars
  <2>2. ~in_flight'[slot] /\ \A s \in Slots : in_flight'[s] => in_flight[s]
    BY <1>0, <1>4, <1>b, <2>1 DEF Prepare, SlotsInUse, WaitsForSlot
  <2> QED
    BY <1>0, <1>4, <1>z, <2>1, <2>2 DEF Prepare, SlotsInUse, queueVars, programVars
<1>5. CASE Upload
  <2>1. Place = "upload" /\ thread' = "call" /\ slot \in Slots
        /\ Place' = IF client = "raw" THEN "submit" ELSE "reset"
    BY <1>5, <1>a, Advances, <1>0 DEF Upload, StepNames, After, programVars
  <2> QED
    BY <1>0, <1>5, <1>z, <2>1 DEF Upload, SlotsInUse, programVars
<1>6. CASE ResetFence
  <2>1. Place = "reset" /\ thread' = "call" /\ slot \in Slots
        /\ Place' = IF client = "raw" THEN "upload" ELSE "submit"
    BY <1>6, <1>a, Advances, <1>0 DEF ResetFence, StepNames, After, programVars
  <2>2. ~fence'[slot]
    BY <1>6, <1>b, <2>1 DEF ResetFence
  <2> QED
    BY <1>0, <1>6, <1>z, <2>1, <2>2 DEF ResetFence, SlotsInUse, programVars
<1>7. CASE Submit
  <2>1. Place = "submit" /\ thread' \in {"idle", "call"} /\ slot \in Slots /\ op \in DOMAIN ops
        /\ Place' \in {"none", "wait"}
    BY <1>7, <1>a, Advances, <1>0 DEF Submit, StepNames, After, programVars
  <2>2. \A s \in Slots : in_flight'[s] =>
          /\ submitted'[s].op \in DOMAIN ops
          /\ client = "writer" => submitted'[s].op # "lut"
    <3> TAKE s \in Slots
    <3>1. CASE s = slot
      BY <1>0, <1>7, <1>b, <2>1, <3>1 DEF Submit, Typed
    <3>2. CASE s # slot
      BY <1>0, <1>7, <1>b, <2>1, <3>2 DEF Submit, Typed, SlotsInUse
    <3> QED
      BY <3>1, <3>2
  <2>3. client \in {"raw", "packer"} => \A s \in Slots : ~in_flight'[s]
    BY <1>0, <1>7, <1>b, <2>1 DEF Submit, SlotsInUse
  <2>4. submitted'[slot].op = op /\ submitted'[slot].frame = frame
    BY <1>0, <1>7, <2>1 DEF Submit, Typed
  <2> QED
    BY <1>0, <1>7, <1>z, <2>1, <2>2, <2>3, <2>4 DEF Submit, SlotsInUse, programVars
<1>8. CASE Wait
  <2>1. /\ thread' \in {"idle", "call"} /\ slot \in Slots
        /\ Place = "wait" /\ Place' \in {"none", "read"}
    BY <1>8, <1>a, Advances, <1>0 DEF Wait, StepNames, After, programVars
  <2>2. \A s \in Slots : in_flight'[s] => in_flight[s]
    BY <1>8, <1>b, <2>1 DEF Wait
  <2> QED
    BY <1>0, <1>8, <1>z, <2>1, <2>2 DEF Wait, SlotsInUse, queueVars, programVars
<1>9. CASE ReadResults
  <2>1. thread' = "idle" /\ slot \in Slots /\ Place' = "none"
    BY <1>9, <1>a, Advances, <1>0 DEF ReadResults, StepNames, After, programVars
  <2> QED
    BY <1>0, <1>9, <1>z, <2>1 DEF ReadResults, SlotsInUse, queueVars, programVars
<1>10. CASE StepFails
  <2>1. Place' = "none" /\ thread' \in {"destroy", "idle"} /\ (thread' = "destroy" => slot' = 0)
    BY <1>0, <1>10, Thrown DEF StepFails
  <2> QED
    BY <1>0, <1>10, <1>z, <2>1 DEF StepFails, SlotsInUse, queueVars, programVars
<1>18. CASE PrepareRejects \/ ReadRejects
  <2>1. thread = "call" /\ Throws
    BY <1>18 DEF PrepareRejects, ReadRejects, AtStep
  <2>2. Place' = "none" /\ thread' \in {"destroy", "idle"} /\ (thread' = "destroy" => slot' = 0)
    BY <1>0, <2>1, Thrown
  <2>3. \A s \in Slots : in_flight'[s] => in_flight[s]
    BY <1>18, <1>b DEF PrepareRejects, ReadRejects
  <2>4. /\ submitted' = submitted /\ pending' = pending /\ fence' = fence /\ lost' = lost
        /\ frame' = frame /\ client' = client /\ ops' = ops
    BY <1>18 DEF PrepareRejects, ReadRejects, queueVars, programVars
  <2> QED
    BY <1>0, <1>z, <2>2, <2>3, <2>4 DEF SlotsInUse
<1>11. CASE Destroy
  BY <1>0, <1>11, <1>z DEF Destroy, SlotsInUse, queueVars, programVars, Place
<1>12. CASE CleanupSlot
  <2>1. slot \in Slots /\ Place' = "none"
    BY <1>0, <1>12 DEF CleanupSlot, Typed, Place
  <2>2. ~in_flight'[slot] /\ \A s \in Slots : in_flight'[s] => in_flight[s]
    BY <1>12, <1>b, <2>1 DEF CleanupSlot
  <2>3. \A s \in Slots : s < slot' => ~in_flight'[s]
    <3>1. \A s \in Slots : s < slot => ~in_flight[s]
      BY <1>0, <1>12 DEF CleanupSlot, SlotsInUse
    <3> QED
      BY <1>0, <1>12, <2>1, <2>2, <3>1 DEF CleanupSlot
  <2>4. DoneWaiting' => \A s \in Slots : ~in_flight'[s]
    BY <1>0, <1>12, <2>3 DEF CleanupSlot, DoneWaiting
  <2> QED
    BY <1>0, <1>12, <2>1, <2>2, <2>3, <2>4 DEF CleanupSlot, SlotsInUse, queueVars, programVars
<1>19. CASE CleanupGivesUp
  <2>1. /\ slot \in Slots /\ Place' = "none" /\ client = "writer" /\ slot' = NumSlots
        /\ thread = "destroy" /\ thread' = "destroy"
        /\ submitted' = submitted /\ pending' = pending /\ fence' = fence /\ lost' = lost
        /\ frame' = frame /\ client' = client /\ ops' = ops
    BY <1>0, <1>19 DEF CleanupGivesUp, Typed, Place, queueVars, programVars
  <2>2. \A s \in Slots : in_flight'[s] => in_flight[s]
    BY <1>19, <1>b DEF CleanupGivesUp
  <2>3. lost \/ \A s \in Slots : in_flight'[s] /\ ~fence[s] => \E r \in 0..(s - 1) : HasStatus(r)
    <3> SUFFICES ASSUME ~lost, NEW s \in Slots, in_flight'[s], ~fence[s]
                 PROVE  slot \in 0..(s - 1) /\ HasStatus(slot)
      OBVIOUS
    <3>1. fence[slot] /\ HasStatus(slot)
      BY <1>19 DEF CleanupGivesUp, StatusAtHand
    <3>2. ~(s < slot)
      BY <1>0, <2>1, <2>2 DEF SlotsInUse
    <3> QED
      BY <1>0, <2>1, <3>1, <3>2
  <2>4. (\A r \in Slots : HasStatus(r)' <=> HasStatus(r)) /\ (\A s \in Slots : 0..(s - 1) \subseteq Slots)
    BY <1>0, <2>1 DEF HasStatus
  <2> QED
    BY <1>0, <2>1, <2>2, <2>3, <2>4 DEF SlotsInUse
<1>13. CASE CleanupDestroy
  <2>1. Place' = "none" /\ DoneWaiting
    BY <1>0, <1>13 DEF CleanupDestroy, DoneWaiting, Place
  <2>2. \A r : HasStatus(r)' <=> HasStatus(r)
    BY <1>13 DEF CleanupDestroy, HasStatus, programVars
  <2> QED
    BY <1>0, <1>13, <2>1, <2>2 DEF CleanupDestroy, SlotsInUse, programVars
<1>14. CASE Execute(ops) /\ UNCHANGED clientVars
  <2>1. Place' = Place
    BY <1>14 DEF Place, Steps, clientVars, programVars
  <2>2. pending # << >>
    BY <1>14 DEF Execute
  <2>3. (DoneWaiting' <=> DoneWaiting) /\ \A r : HasStatus(r)' <=> HasStatus(r)
    BY <1>14 DEF DoneWaiting, HasStatus, clientVars, programVars
  <2> QED
    BY <1>0, <1>14, <2>1, <2>2, <2>3 DEF Execute, SlotsInUse, clientVars, programVars
<1>15. CASE Gpu /\ ~(Execute(ops) /\ UNCHANGED clientVars)
  <2>1. Complete(ops, Coherent(client)) /\ UNCHANGED <<programVars, thread, step, op, frame, slot,
          next_slot, in_flight, submitted, live>>
    BY <1>15 DEF Gpu
  <2>2. Place' = Place
    BY <2>1 DEF Place, Steps, programVars
  <2>3. /\ pending # << >> /\ pending \in Seq(Submissions) /\ ~lost
        /\ fence' = [fence EXCEPT ![Head(pending).slot] = TRUE]
    BY <1>0, <2>1 DEF Complete, Typed
  <2>4. Head(pending) = pending[1] /\ 1 \in 1..Len(pending)
    BY <2>3, TailKeeps
  <2>5. Place = "submit" \/ (client = "raw" /\ Place = "upload") => fence'[slot] = fence[slot]
    <3>1. Place \in {"submit", "upload"} => pending[1].slot # slot
      BY <1>0, <2>3, <2>4 DEF OneEach, SlotOfSubmission
    <3>2. Place \in {"submit", "upload"} => slot \in Slots
      BY <1>0 DEF Typed, Place
    <3> QED
      BY <1>b, <2>3, <2>4, <3>1, <3>2
  <2>6. (DoneWaiting' <=> DoneWaiting) /\ \A r : HasStatus(r)' <=> HasStatus(r)
    BY <2>1 DEF DoneWaiting, HasStatus, programVars
  <2>7. \A s \in Slots : fence[s] => fence'[s]
    BY <1>b, <2>3
  <2> QED
    BY <1>0, <2>1, <2>2, <2>3, <2>5, <2>6, <2>7 DEF SlotsInUse, programVars
<1>16. CASE DeviceLost /\ UNCHANGED clientVars
  <2>1. Place' = Place
    BY <1>16 DEF Place, Steps, clientVars, programVars
  <2>2. (DoneWaiting' <=> DoneWaiting) /\ \A r : HasStatus(r)' <=> HasStatus(r)
    BY <1>16 DEF DoneWaiting, HasStatus, clientVars, programVars
  <2> QED
    BY <1>0, <1>16, <2>1, <2>2 DEF DeviceLost, SlotsInUse, clientVars, programVars
<1>17. CASE UNCHANGED vars
  <2>1. Place' = Place
    BY <1>17 DEF Place, Steps, vars, clientVars, programVars
  <2>2. (DoneWaiting' <=> DoneWaiting) /\ \A r : HasStatus(r)' <=> HasStatus(r)
    BY <1>17 DEF DoneWaiting, HasStatus, vars, clientVars, programVars
  <2> QED
    BY <1>0, <1>17, <2>1, <2>2 DEF SlotsInUse, vars, clientVars, queueVars, programVars
<1> QED
  BY <1>1, <1>2, <1>3, <1>4, <1>5, <1>6, <1>7, <1>8, <1>9, <1>10, <1>11, <1>12, <1>13,
     <1>14, <1>15, <1>16, <1>17, <1>18, <1>19 DEF Next, Host, Caller

\* Each submission stays the only one of its slot, which nothing else uses
\* before the GPU is through with it.
LEMMA OneEachNext == Control /\ [Next]_vars => OneEach'
<1> SUFFICES ASSUME Control, [Next]_vars PROVE OneEach'
  OBVIOUS
<1>0. /\ Typed /\ SlotsInUse /\ OneEach /\ NumSlots \in Nat \ {0} /\ Slots = 0..(NumSlots - 1)
  BY NumSlotsAssumption DEF Control, Slots
<1>a. ASSUME NEW place \in StepNames, AtStep(place), Advance, UNCHANGED <<programVars, op, slot>>
      PROVE  /\ Place = place /\ thread = "call" /\ Place' = After(place)
             /\ slot' = slot /\ slot \in Slots /\ op' = op /\ op \in DOMAIN ops
             /\ client' = client /\ ops' = ops /\ (op = "lut" <=> frame = 0)
  BY <1>0, <1>a, Advances DEF programVars, Typed
<1>b. /\ client \in Clients /\ ops = Operations[client] /\ frame \in Nat
      /\ in_flight \in [Slots -> BOOLEAN] /\ fence \in [Slots -> BOOLEAN]
      /\ submitted \in [Slots -> [op : DOMAIN ops \cup {"none"}, frame : Frames]]
  BY <1>0 DEF Typed, Frames
<1>c. \A i \in 1..Len(pending) : /\ pending[i].slot \in Slots
                                 /\ pending[i].op \in DOMAIN ops
                                 /\ SlotOfSubmission(pending[i])
  BY <1>0, NotBusy DEF OneEach, Submissions
<1>q. ASSUME pending' = pending,
             \A i \in 1..Len(pending) : SlotOfSubmission(pending[i])'
      PROVE  OneEach'
  BY <1>0, <1>q DEF OneEach
<1>1. CASE Create \/ CreateFails
  BY <1>0, <1>1, <1>q DEF Create, CreateFails, SlotsInUse, queueVars
<1>3. CASE Call
  <2>1. frame' > 0 /\ Place = "none" /\ Place' \in {"prepare", "upload"}
        /\ (Place' = "upload" => client = "packer") /\ pending' = pending
    <3>1. Steps' = IF client = "packer" THEN PackerSteps
                   ELSE IF client = "writer" THEN WriterSteps
                   ELSE IF client = "camera" THEN CameraSteps ELSE RawSteps
      BY <1>3, <1>b, ClientNames DEF Call, Steps, programVars
    <3>2. Steps'[1] = IF client = "packer" THEN "upload" ELSE "prepare"
      BY <3>1 DEF PackerSteps, WriterSteps, CameraSteps, RawSteps
    <3> QED
      BY <1>3, <1>b, <3>2 DEF Call, Place, queueVars
  <2>2. ASSUME NEW i \in 1..Len(pending) PROVE SlotOfSubmission(pending[i])'
    <3>1. client = "packer" => lost
      BY <1>0, <1>c, <2>1 DEF SlotOfSubmission, SlotsInUse
    <3> QED
      BY <1>3, <1>c, <2>1, <3>1 DEF Call, SlotOfSubmission, queueVars
  <2> QED
    BY <1>q, <2>1, <2>2
<1>4. CASE Prepare
  <2>1. /\ Place = "prepare" /\ Place' \in {"upload", "reset"} /\ slot \in Slots
        /\ slot' = slot /\ op' = op /\ frame' = frame /\ client' = client
        /\ pending' = pending /\ fence' = fence /\ lost' = lost /\ submitted' = submitted
    BY <1>4, <1>a, Advances, <1>0 DEF Prepare, StepNames, After, queueVars, programVars
  <2>2. WaitsForSlot => fence[slot]
    BY <1>4 DEF Prepare
  <2>3. \A s \in Slots : in_flight'[s] = (in_flight[s] /\ ~(s = slot /\ WaitsForSlot))
    BY <1>4, <1>b, <2>1 DEF Prepare
  <2>4. ASSUME NEW i \in 1..Len(pending) PROVE SlotOfSubmission(pending[i])'
    <3>1. lost \/ pending[i].slot # slot
      BY <1>c, <2>1, <2>2 DEF SlotOfSubmission, WaitsForSlot
    <3>2. in_flight'[pending[i].slot] = in_flight[pending[i].slot]
      <4>1. pending[i].slot = slot => ~WaitsForSlot
        BY <1>c, <2>2 DEF SlotOfSubmission
      <4> QED
        BY <1>b, <1>c, <2>3, <4>1
    <3> QED
      BY <1>c, <2>1, <3>1, <3>2 DEF SlotOfSubmission
  <2> QED
    BY <1>q, <2>1, <2>4
<1>5. CASE Upload
  <2>1. /\ Place = "upload" /\ Place' \in {"submit", "reset"}
        /\ slot' = slot /\ op' = op /\ frame' = frame /\ pending' = pending
        /\ fence' = fence /\ lost' = lost /\ submitted' = submitted /\ in_flight' = in_flight
    BY <1>5, <1>a, Advances, <1>0 DEF Upload, StepNames, After, programVars
  <2> QED
    BY <1>c, <1>q, <2>1 DEF SlotOfSubmission
<1>6. CASE ResetFence
  <2>1. /\ Place = "reset" /\ Place' \in {"submit", "upload"} /\ slot \in Slots
        /\ slot' = slot /\ op' = op /\ frame' = frame /\ pending' = pending
        /\ lost' = lost /\ submitted' = submitted /\ in_flight' = in_flight
    BY <1>6, <1>a, Advances, <1>0 DEF ResetFence, StepNames, After, programVars
  <2>2. \A s \in Slots : fence'[s] => fence[s]
    BY <1>6, <1>b, <2>1 DEF ResetFence
  <2> QED
    BY <1>c, <1>q, <2>1, <2>2 DEF SlotOfSubmission
<1>7. CASE Submit
  <2> DEFINE n == Len(pending)
             new == [slot |-> slot, op |-> op, frame |-> frame, done |-> {}]
  <2>1. /\ Place = "submit" /\ slot \in Slots /\ op \in DOMAIN ops
        /\ Place' = (IF client = "writer" /\ op # "lut" THEN "none" ELSE "wait")
        /\ slot' = slot /\ op' = op /\ frame' = frame /\ client' = client
        /\ fence' = fence /\ lost' = lost /\ ~lost /\ (op = "lut" <=> frame = 0)
    BY <1>7, <1>a, Advances, <1>0 DEF Submit, StepNames, After, programVars
  <2>2. ~fence[slot] /\ ~in_flight[slot]
    BY <1>0, <2>1 DEF SlotsInUse
  <2>3. /\ pending' = Append(pending, new) /\ pending \in Seq(Submissions)
        /\ in_flight' = [in_flight EXCEPT ![slot] =
                           client = "camera" \/ (client = "writer" /\ op # "lut")]
        /\ submitted' = [submitted EXCEPT ![slot] = [op |-> op, frame |-> frame]]
    BY <1>0, <1>7 DEF Submit, Enqueue, Typed
  <2>4. /\ Len(pending') = n + 1 /\ n \in Nat /\ pending'[n + 1] = new
        /\ \A i \in 1..n : pending'[i] = pending[i]
    <3> HIDE DEF new
    <3> QED
      BY <2>3
  <2>5. \A i \in 1..n : pending[i].slot # slot
    BY <1>c, <2>1 DEF SlotOfSubmission
  <2>6. ASSUME NEW i \in 1..n PROVE SlotOfSubmission(pending[i])'
    <3>1. /\ pending'[i] = pending[i] /\ pending[i].slot \in Slots /\ pending[i].slot # slot
          /\ in_flight'[pending[i].slot] = in_flight[pending[i].slot]
          /\ submitted'[pending[i].slot] = submitted[pending[i].slot]
      BY <1>b, <1>c, <2>1, <2>3, <2>4, <2>5
    <3>2. in_flight[pending[i].slot] /\ pending[i].op # "lut"
      BY <1>c, <2>1 DEF SlotOfSubmission
    <3>3. SlotOfSubmission(pending[i])
      BY <1>c
    <3> QED
      BY <2>1, <3>1, <3>2, <3>3 DEF SlotOfSubmission
  <2>7. ASSUME NEW i \in Nat, i = n + 1 PROVE SlotOfSubmission(pending[i])'
    <3>1. in_flight'[slot] \/ Place' = "wait"
      BY <1>b, <2>1, <2>3, ClientNames
    <3>2. in_flight'[slot] => submitted'[slot].op = op /\ submitted'[slot].frame = frame
      BY <1>b, <2>1, <2>3
    <3>3. op = "lut" => Place' = "wait"
      BY <2>1
    <3>4. frame # 0 => frame > 0
      BY <1>b
    <3>5. pending'[i].slot = slot /\ pending'[i].op = op /\ pending'[i].frame = frame
      BY <2>4, <2>7
    <3>6. /\ ~fence'[slot] /\ lost' = lost /\ slot' = slot /\ op' = op /\ frame' = frame
          /\ (op = "lut" <=> frame = 0) /\ Place' \in {"none", "wait"}
      BY <2>1, <2>2
    <3> QED
      BY <3>1, <3>2, <3>3, <3>4, <3>5, <3>6 DEF SlotOfSubmission
  <2>9. \A i \in 1..Len(pending') : i \in 1..n \/ (i \in Nat /\ i = n + 1)
    BY <2>4
  <2>10. \A i, j \in 1..Len(pending') : pending'[i].slot = pending'[j].slot => i = j
    BY <1>0, <2>4, <2>5, <2>9 DEF OneEach
  <2>11. \A i \in 1..Len(pending') : SlotOfSubmission(pending[i])'
    BY <2>6, <2>7, <2>9
  <2> QED
    BY <2>10, <2>11 DEF OneEach
<1>8. CASE Wait
  <2>1. /\ Place = "wait" /\ Place' \in {"none", "read"} /\ slot \in Slots
        /\ slot' = slot /\ op' = op /\ frame' = frame /\ pending' = pending
        /\ fence' = fence /\ lost' = lost /\ submitted' = submitted /\ fence[slot]
    BY <1>8, <1>a, Advances, <1>0 DEF Wait, StepNames, After, queueVars, programVars
  <2>2. \A s \in Slots : s # slot => in_flight'[s] = in_flight[s]
    BY <1>8, <1>b, <2>1 DEF Wait
  <2>3. ASSUME NEW i \in 1..Len(pending) PROVE SlotOfSubmission(pending[i])'
    <3>1. pending[i].slot # slot
      BY <1>c, <2>1 DEF SlotOfSubmission
    <3> QED
      BY <1>c, <2>1, <2>2, <3>1 DEF SlotOfSubmission
  <2> QED
    BY <1>q, <2>1, <2>3
<1>9. CASE ReadResults
  <2>1. /\ Place = "read" /\ Place' = "none"
        /\ slot' = slot /\ op' = op /\ frame' = frame /\ pending' = pending
        /\ fence' = fence /\ lost' = lost /\ submitted' = submitted /\ in_flight' = in_flight
    BY <1>9, <1>a, Advances, <1>0 DEF ReadResults, StepNames, After, queueVars, programVars
  <2> QED
    BY <1>c, <1>q, <2>1 DEF SlotOfSubmission
<1>10. CASE StepFails
  <2>1. /\ Place' = "none" /\ op' = op /\ frame' = frame /\ pending' = pending
        /\ fence' = fence /\ lost' = lost /\ submitted' = submitted /\ in_flight' = in_flight
    BY <1>0, <1>10, Thrown DEF StepFails, queueVars
  <2>2. Place = "wait" => lost
    BY <1>0, <1>10 DEF StepFails, AtStep, Place, Typed
  <2> QED
    BY <1>c, <1>q, <2>1, <2>2 DEF SlotOfSubmission
<1>18. CASE PrepareRejects
  <2>1. thread = "call" /\ Throws /\ fence[slot]
    BY <1>18 DEF PrepareRejects, AtStep, StatusAtHand
  <2>2. /\ Place = "prepare" /\ Place' = "none" /\ op' = op /\ frame' = frame /\ pending' = pending
        /\ fence' = fence /\ lost' = lost /\ submitted' = submitted /\ slot \in Slots
    BY <1>0, <1>18, <2>1, Thrown DEF PrepareRejects, AtStep, Place, Typed, queueVars
  <2>3. \A s \in Slots : s # slot => in_flight'[s] = in_flight[s]
    BY <1>18, <1>b, <2>2 DEF PrepareRejects
  <2>4. ASSUME NEW i \in 1..Len(pending) PROVE SlotOfSubmission(pending[i])'
    <3>1. pending[i].slot # slot
      BY <1>c, <2>1 DEF SlotOfSubmission
    <3> QED
      BY <1>c, <2>2, <2>3, <3>1 DEF SlotOfSubmission
  <2> QED
    BY <1>q, <2>2, <2>4
<1>19. CASE ReadRejects
  <2>1. thread = "call" /\ Throws
    BY <1>19 DEF ReadRejects, AtStep
  <2>2. /\ Place = "read" /\ Place' = "none" /\ op' = op /\ frame' = frame /\ pending' = pending
        /\ fence' = fence /\ lost' = lost /\ submitted' = submitted /\ in_flight' = in_flight
    BY <1>0, <1>19, <2>1, Thrown DEF ReadRejects, AtStep, Place, queueVars
  <2> QED
    BY <1>c, <1>q, <2>2 DEF SlotOfSubmission
<1>11. CASE Destroy
  <2>1. /\ Place = "none" /\ Place' = "none" /\ op' = op /\ frame' = frame /\ pending' = pending
        /\ fence' = fence /\ lost' = lost /\ submitted' = submitted /\ in_flight' = in_flight
    BY <1>11 DEF Destroy, Place, queueVars
  <2> QED
    BY <1>c, <1>q, <2>1 DEF SlotOfSubmission
<1>12. CASE CleanupSlot
  <2>1. /\ Place = "none" /\ Place' = "none" /\ op' = op /\ frame' = frame /\ pending' = pending
        /\ fence' = fence /\ lost' = lost /\ submitted' = submitted /\ slot \in Slots
    BY <1>0, <1>12 DEF CleanupSlot, Place, queueVars, Typed
  <2>2. CleanupWaits => fence[slot] \/ lost
    BY <1>12 DEF CleanupSlot
  <2>3. \A s \in Slots : in_flight'[s] = (in_flight[s] /\ s # slot)
    BY <1>12, <1>b, <2>1 DEF CleanupSlot
  <2>4. ASSUME NEW i \in 1..Len(pending) PROVE SlotOfSubmission(pending[i])'
    <3>1. lost \/ pending[i].slot # slot
      BY <1>0, <1>b, <1>c, <2>1, <2>2, ClientNames
         DEF SlotOfSubmission, CleanupWaits, SlotsInUse
    <3> QED
      BY <1>c, <2>1, <2>3, <3>1 DEF SlotOfSubmission
  <2> QED
    BY <1>q, <2>1, <2>4
<1>20. CASE CleanupGivesUp
  <2>1. /\ Place = "none" /\ Place' = "none" /\ op' = op /\ frame' = frame /\ pending' = pending
        /\ fence' = fence /\ lost' = lost /\ submitted' = submitted /\ slot \in Slots
    BY <1>0, <1>20 DEF CleanupGivesUp, Place, queueVars, Typed
  <2>2. in_flight' = in_flight \/ (fence[slot] /\ in_flight' = [in_flight EXCEPT ![slot] = FALSE])
    BY <1>20 DEF CleanupGivesUp, StatusAtHand
  <2>3. ASSUME NEW i \in 1..Len(pending) PROVE SlotOfSubmission(pending[i])'
    <3>1. in_flight'[pending[i].slot] = in_flight[pending[i].slot]
      BY <1>b, <1>c, <2>1, <2>2 DEF SlotOfSubmission
    <3> QED
      BY <1>c, <2>1, <3>1 DEF SlotOfSubmission
  <2> QED
    BY <1>q, <2>1, <2>3
<1>13. CASE CleanupDestroy
  <2>1. /\ Place = "none" /\ Place' = "none" /\ op' = op /\ frame' = frame /\ pending' = pending
        /\ fence' = fence /\ lost' = lost /\ submitted' = submitted /\ in_flight' = in_flight
    BY <1>13 DEF CleanupDestroy, Place
  <2> QED
    BY <1>c, <1>q, <2>1 DEF SlotOfSubmission
<1>14. CASE Execute(ops) /\ UNCHANGED clientVars
  <2>1. /\ Place' = Place /\ op' = op /\ frame' = frame /\ slot' = slot /\ ops' = ops
        /\ fence' = fence /\ lost' = lost /\ submitted' = submitted /\ in_flight' = in_flight
    BY <1>14 DEF Execute, Place, Steps, clientVars, programVars
  <2>a. PICK i \in 1..Len(pending) : \E k \in Undone(ops, i) :
          pending' = [pending EXCEPT ![i].done = @ \cup {k}]
    BY <1>14 DEF Execute
  <2>2. PICK k \in Undone(ops, i) : pending' = [pending EXCEPT ![i].done = @ \cup {k}]
    BY <2>a
  <2>3. /\ Len(pending') = Len(pending)
        /\ \A a \in 1..Len(pending) : /\ pending'[a].slot = pending[a].slot
                                      /\ pending'[a].op = pending[a].op
                                      /\ pending'[a].frame = pending[a].frame
    <3>1. k \in Nat /\ pending \in Seq(Submissions)
      BY <1>0, <2>2 DEF Undone, Typed
    <3> QED
      BY <2>2, <3>1, ExecutingKeeps
  <2>4. \A a \in 1..Len(pending) : SlotOfSubmission(pending[a])'
    BY <1>c, <2>1, <2>3 DEF SlotOfSubmission
  <2> QED
    BY <1>0, <2>3, <2>4 DEF OneEach
<1>15. CASE Gpu /\ ~(Execute(ops) /\ UNCHANGED clientVars)
  <2>1. Complete(ops, Coherent(client)) /\ UNCHANGED <<programVars, thread, step, op, frame, slot,
          next_slot, in_flight, submitted, live>>
    BY <1>15 DEF Gpu
  <2>2. /\ Place' = Place /\ op' = op /\ frame' = frame /\ slot' = slot
        /\ submitted' = submitted /\ in_flight' = in_flight
    BY <2>1 DEF Place, Steps, programVars
  <2>3. /\ pending # << >> /\ pending \in Seq(Submissions) /\ lost' = lost
        /\ fence' = [fence EXCEPT ![Head(pending).slot] = TRUE] /\ pending' = Tail(pending)
    BY <1>0, <2>1 DEF Complete, Typed
  <2>4. /\ Head(pending) = pending[1] /\ 1 \in 1..Len(pending)
        /\ \A a \in 1..Len(pending') : a + 1 \in 1..Len(pending) /\ pending'[a] = pending[a + 1]
    BY <2>3, TailKeeps
  <2>5. ASSUME NEW a \in 1..Len(pending') PROVE SlotOfSubmission(pending[a])'
    <3>1. a + 1 \in 1..Len(pending) /\ pending'[a] = pending[a + 1] /\ a + 1 # 1
      BY <2>4
    <3>2. pending[a + 1].slot # pending[1].slot
      BY <1>0, <2>4, <3>1 DEF OneEach
    <3>3. fence'[pending[a + 1].slot] = fence[pending[a + 1].slot]
      BY <1>b, <1>c, <2>3, <2>4, <3>1, <3>2
    <3>4. SlotOfSubmission(pending[a + 1])
      BY <1>c, <3>1
    <3> QED
      BY <2>2, <2>3, <3>1, <3>3, <3>4 DEF SlotOfSubmission
  <2>6. \A a, b \in 1..Len(pending') : pending'[a].slot = pending'[b].slot => a = b
    <3> SUFFICES ASSUME NEW a \in 1..Len(pending'), NEW b \in 1..Len(pending'),
                        pending'[a].slot = pending'[b].slot
                 PROVE  a = b
      OBVIOUS
    <3>1. a + 1 = b + 1
      BY <1>0, <2>4 DEF OneEach
    <3> QED
      BY <3>1
  <2> QED
    BY <2>5, <2>6 DEF OneEach
<1>16. CASE DeviceLost /\ UNCHANGED clientVars
  <2>1. /\ Place' = Place /\ op' = op /\ frame' = frame /\ slot' = slot /\ pending' = pending
        /\ fence' = fence /\ lost' /\ submitted' = submitted /\ in_flight' = in_flight
    BY <1>16 DEF DeviceLost, Place, Steps, clientVars, programVars
  <2> QED
    BY <1>c, <1>q, <2>1 DEF SlotOfSubmission
<1>17. CASE UNCHANGED vars
  <2>1. /\ Place' = Place /\ op' = op /\ frame' = frame /\ slot' = slot /\ pending' = pending
        /\ fence' = fence /\ lost' = lost /\ submitted' = submitted /\ in_flight' = in_flight
    BY <1>17 DEF Place, Steps, vars, clientVars, queueVars, programVars
  <2> QED
    BY <1>c, <1>q, <2>1 DEF SlotOfSubmission
<1> QED
  BY <1>1, <1>3, <1>4, <1>5, <1>6, <1>7, <1>8, <1>9, <1>10, <1>11, <1>12, <1>13,
     <1>14, <1>15, <1>16, <1>17, <1>18, <1>19, <1>20 DEF Next, Host, Caller

\* Control is inductive.
LEMMA ControlNext == Control /\ [Next]_vars => Control'
  BY TypedNext, SlotsNext, OneEachNext DEF Control

-----------------------------------------------------------------------------
(* What is in the buffers until cleanup() destroys them.                   *)

\* A cell has its three parts.
Shaped(memory) ==
  /\ DOMAIN memory = Locations
  /\ \A l \in Locations :
       memory[l] = [tag |-> memory[l].tag, kind |-> memory[l].kind, vis |-> memory[l].vis]

Executed ==
  ~lost => \A i \in 1..Len(pending) : ExecutedRight(ops[pending[i].op], pending[i], mem)

LutInPlace ==
  HasLut =>
    /\ thread = "idle" \/ frame > 0 => LutReady(mem)
    /\ Place = "wait" /\ op = "lut" /\ ~Busy(slot) => LutReady(mem)

\* What the host has written is in place, and everything else can be seen.
Uploaded ==
  Place = "submit" \/ (Place = "reset" /\ client # "raw") =>
    /\ \A b \in ops[op].uploads : /\ mem[Home(slot, b)].tag = <<frame, 0>>
                                  /\ mem[Home(slot, b)].kind = "host"
    /\ "image" \in ops[op].results => mem[Home(slot, "image")].kind = "encoder"

\* A slot nobody works on keeps nothing from the next submission.
SlotsRested ==
  ~lost => \A s \in Slots : ~Busy(s) =>
    \A b \in Buffers \ {"image"} : Seen(mem[<<s, b>>])

SharedRested ==
  thread = "construct" \/ (op = "lut" /\ Place \in {"upload", "reset", "submit"}) =>
    \A b \in Shared : Seen(mem[<<NumSlots, b>>])

\* The thread that has waited finds its results, and so does the one that
\* recycles the slot.
AwaitedLanded ==
  Place = "read" \/ (Place = "wait" /\ ~Busy(slot) /\ op # "lut") =>
    \A b \in ops[op].results : Landed(ops[op], frame, b, mem[Home(slot, b)])

RecycledLanded ==
  client = "writer" =>
    \A s \in Slots : in_flight[s] /\ ~Busy(s) =>
      \A b \in ops[submitted[s].op].results \ {"image"} :
        Landed(ops[submitted[s].op], submitted[s].frame, b, mem[Home(s, b)])

NothingWrong == \A f \in Frames : outcome[f] # "garbage"

Memory ==
  /\ Shaped(mem)
  /\ Executed
  /\ LutInPlace
  /\ Uploaded
  /\ SlotsRested
  /\ SharedRested
  /\ AwaitedLanded
  /\ RecycledLanded
  /\ NothingWrong

\* Every command buffer of the class is recorded as it must be.
LEMMA Recorded ==
  ASSUME client \in Clients, ops = Operations[client], NEW name \in DOMAIN ops
  PROVE  Synchronized(ops[name], name, DOMAIN ops, Coherent(client))
  BY RecordingsAssumption DEF Clients

\* What has landed is what the host is to read.
LEMMA LandedIsRead ==
  ASSUME NEW Ops, NEW name, NEW names, NEW coherent, Synchronized(Ops[name], name, names, coherent),
         NEW s, NEW f, NEW bufs,
         \A b \in bufs : Landed(Ops[name], f, b, mem[Home(s, b)])
  PROVE  HostReads(Ops, s, name, f, bufs)
<1> DEFINE o == Ops[name]
           sub == [slot |-> s, op |-> name, frame |-> f]
<1>1. \A x \in o.finds[Len(o.stream) + 1] : x[2] > 0
  BY DEF Synchronized, ResultsVisible
<1>2. \A b \in bufs : "HR" \in mem[Home(s, b)].vis
  BY DEF Landed
<1>3. ASSUME NEW x \in o.finds[Len(o.stream) + 1], x[1] \in bufs
      PROVE  mem[Home(s, x[1])].tag = IF x = <<"lut", 0>> THEN LutTag ELSE <<f, x[2]>>
  <2>1. x # <<"lut", 0>>
    BY <1>1
  <2>2. mem[Home(s, x[1])].tag = <<f, x[2]>>
    BY <1>3 DEF Landed
  <2> QED
    BY <2>1, <2>2
<1>4. Holds(Ops, sub, Len(o.stream) + 1, bufs)
  BY <1>3 DEF Holds
<1> QED
  BY <1>2, <1>4 DEF HostReads

\* The slot that comes round again has left the status it was to leave.
LEMMA StatusIsRead ==
  ASSUME Control, Memory, client = "writer", slot \in Slots, in_flight[slot], ~Busy(slot),
         ReadStatus(slot)
  PROVE  outcome' = outcome
<1> DEFINE old == submitted[slot]
<1>1. old.op \in DOMAIN ops
  BY DEF Control, SlotsInUse
<1>2. \A b \in ops[old.op].results \ {"image"} :
        Landed(ops[old.op], old.frame, b, mem[Home(slot, b)])
  BY DEF Memory, RecycledLanded
<1>3. Synchronized(ops[old.op], old.op, DOMAIN ops, Coherent(client))
  BY <1>1, Recorded DEF Control, Typed
<1>4. HasStatus(slot) => HostReads(ops, slot, old.op, old.frame, {"status"})
  <2> SUFFICES ASSUME "status" \in ops[old.op].results
               PROVE  HostReads(ops, slot, old.op, old.frame, {"status"})
    BY DEF HasStatus
  <2>1. \A b \in {"status"} : Landed(ops[old.op], old.frame, b, mem[Home(slot, b)])
    BY <1>2
  <2> QED
    BY <1>3, <2>1, LandedIsRead
<1> QED
  BY <1>4 DEF ReadStatus

\* Steps that leave the queue and the buffers alone.
Quiet == UNCHANGED <<mem, pending, programVars>> /\ (lost => lost')

\* They keep what is said of the buffers and the submissions alone.
LEMMA QuietKeeps ==
  ASSUME Memory, Quiet
  PROVE  /\ Shaped(mem') /\ Executed' /\ SlotsRested'
         /\ client' = client /\ ops' = ops /\ HasLut' = HasLut /\ mem' = mem
         /\ \A s : Busy(s)' <=> Busy(s)
<1>1. \A s : Busy(s)' <=> Busy(s)
  BY DEF Quiet, Busy
<1> QED
  BY <1>1 DEF Memory, Quiet, programVars, Executed, SlotsRested, HasLut

\* No fence is signaled while the GPU works on the slot.
LEMMA SignaledIsIdle ==
  ASSUME Control, NEW s \in Slots, fence[s]
  PROVE  ~Busy(s)
  BY DEF Control, OneEach, SlotOfSubmission, Busy

\* The steps of an operation that wait for the GPU or look at its results.
LEMMA ThreadSteps ==
  ASSUME Control, Memory, Prepare \/ ResetFence \/ Wait \/ ReadResults
  PROVE  Memory'
<1>0. /\ Typed /\ SlotsInUse /\ OneEach /\ client \in Clients /\ ops = Operations[client]
      /\ in_flight \in [Slots -> BOOLEAN] /\ frame \in Nat
  BY DEF Control, Typed, Frames
<1>1. Quiet /\ UNCHANGED <<op, frame, slot, programVars>> /\ Advance
  BY DEF Prepare, ResetFence, Wait, ReadResults, Quiet, queueVars
<1>2. AtStep(Place) /\ Place \in {"prepare", "reset", "wait", "read"}
  BY DEF Prepare, ResetFence, Wait, ReadResults, AtStep, Place
<1>3. /\ thread = "call" /\ slot \in Slots /\ op \in DOMAIN ops
      /\ Place' = After(Place)
      /\ thread' = IF After(Place) = "none" THEN "idle" ELSE "call"
      /\ Place \in {"prepare", "read"} => op # "lut"
      /\ (op = "lut" <=> frame = 0)
  BY <1>0, <1>1, <1>2, Advances DEF StepNames, programVars, Typed
<1>4. /\ Shaped(mem') /\ Executed' /\ SlotsRested'
      /\ client' = client /\ ops' = ops /\ HasLut' = HasLut /\ mem' = mem
      /\ \A s : Busy(s)' <=> Busy(s)
  BY <1>1, QuietKeeps
<1>5. op # "lut" => frame > 0
  BY <1>0, <1>3
<1>6. Place = "wait" => ~Busy(slot)
  <2>1. Place = "wait" => fence[slot]
    BY <1>2 DEF Prepare, ResetFence, Wait, ReadResults, AtStep, Place
  <2> QED
    BY <1>3, <2>1, SignaledIsIdle
<1>7. LutInPlace'
  <2>1. HasLut /\ (thread' = "idle" \/ frame > 0) => LutReady(mem)
    <3>1. CASE op # "lut"
      BY <1>3, <1>5, <3>1 DEF Memory, LutInPlace
    <3>2. CASE op = "lut"
      <4>1. thread' = "idle" => Place = "wait"
        BY <1>2, <1>3, <3>2 DEF After
      <4> QED
        BY <1>3, <1>6, <3>2, <4>1 DEF Memory, LutInPlace
    <3> QED
      BY <3>1, <3>2
  <2>2. Place' # "wait" /\ frame' = frame
    BY <1>1, <1>2, <1>3 DEF After
  <2> QED
    BY <1>4, <2>1, <2>2 DEF LutInPlace
<1>8. Uploaded'
  <2>1. Place' = "submit" \/ (Place' = "reset" /\ client # "raw") =>
          Place = "reset" /\ client # "raw"
    BY <1>2, <1>3 DEF After
  <2> QED
    BY <1>1, <1>4, <2>1 DEF Memory, Uploaded
<1>9. SharedRested'
  <2>1. Place' \in {"upload", "reset", "submit"} /\ op = "lut" => Place = "reset"
    BY <1>2, <1>3 DEF After
  <2>2. thread' # "construct"
    BY <1>3
  <2> QED
    BY <1>1, <1>4, <2>1, <2>2 DEF Memory, SharedRested
<1>10. AwaitedLanded'
  <2>1. Place' # "wait"
    BY <1>2, <1>3 DEF After
  <2>2. Place' = "read" => Place = "wait" /\ op # "lut"
    BY <1>2, <1>3 DEF After
  <2> QED
    BY <1>1, <1>4, <1>6, <2>1, <2>2 DEF Memory, AwaitedLanded
<1>11. RecycledLanded'
  <2>1. ASSUME NEW s \in Slots, in_flight'[s] PROVE in_flight[s] /\ submitted'[s] = submitted[s]
    BY <1>0, <1>3, <2>1 DEF Prepare, ResetFence, Wait, ReadResults
  <2> QED
    BY <1>4, <2>1 DEF Memory, RecycledLanded
<1>12. NothingWrong'
  <2>1. CASE Prepare
    <3>1. ~(WaitsForSlot /\ client = "writer") => outcome' = outcome
      BY <2>1 DEF Prepare
    <3>2. WaitsForSlot /\ client = "writer" => ReadStatus(slot) /\ in_flight[slot] /\ fence[slot]
      BY <2>1 DEF Prepare, WaitsForSlot
    <3>3. outcome' = outcome
      BY <1>3, <3>1, <3>2, SignaledIsIdle, StatusIsRead
    <3> QED
      BY <3>3 DEF Memory, NothingWrong
  <2>2. CASE ResetFence \/ Wait
    BY <2>2 DEF ResetFence, Wait, Memory, NothingWrong
  <2>3. CASE ReadResults
    <3>1. Place = "read"
      BY <2>3 DEF ReadResults, AtStep, Place
    <3>2. \A b \in ops[op].results : Landed(ops[op], frame, b, mem[Home(slot, b)])
      BY <3>1 DEF Memory, AwaitedLanded
    <3>3. Synchronized(ops[op], op, DOMAIN ops, Coherent(client))
      BY <1>0, <1>3, Recorded
    <3>4. HostReads(ops, slot, op, frame, ops[op].results)
      BY <3>2, <3>3, LandedIsRead
    <3>5. outcome' = [outcome EXCEPT ![frame] = "good"] /\ outcome \in [Frames -> {"none", "good", "garbage"}]
      BY <1>0, <2>3, <3>4 DEF ReadResults, Typed
    <3> QED
      BY <3>5 DEF Memory, NothingWrong
  <2> QED
    BY <2>1, <2>2, <2>3
<1> QED
  BY <1>4, <1>7, <1>8, <1>9, <1>10, <1>11, <1>12 DEF Memory

\* What happens between operations, the failure of a step, a rejected frame
\* and what cleanup() does before it destroys anything.
LEMMA OtherSteps ==
  ASSUME Control, Memory,
         \/ Create \/ CreateFails \/ Call \/ PrepareRejects \/ ReadRejects \/ StepFails
         \/ Destroy \/ CleanupSlot \/ CleanupGivesUp
  PROVE  Memory'
<1>0. /\ Typed /\ SlotsInUse /\ OneEach /\ client \in Clients /\ ops = Operations[client]
      /\ in_flight \in [Slots -> BOOLEAN] /\ frame \in Nat
  BY DEF Control, Typed, Frames
<1>1. Quiet
  BY DEF Create, CreateFails, Call, PrepareRejects, ReadRejects, StepFails, Destroy, CleanupSlot,
            CleanupGivesUp, Quiet, queueVars
<1>2. /\ Shaped(mem') /\ Executed' /\ SlotsRested'
      /\ client' = client /\ ops' = ops /\ HasLut' = HasLut /\ mem' = mem
      /\ \A s : Busy(s)' <=> Busy(s)
  BY <1>1, QuietKeeps
<1>3. \A s \in Slots : in_flight'[s] => in_flight[s] /\ submitted'[s] = submitted[s]
  BY <1>0 DEF Create, CreateFails, Call, PrepareRejects, ReadRejects, StepFails, Destroy, CleanupSlot,
            CleanupGivesUp
<1>4. RecycledLanded'
  BY <1>2, <1>3 DEF Memory, RecycledLanded
<1>5. NothingWrong'
  <2>1. ASSUME client = "writer", slot \in Slots, in_flight[slot], fence[slot], ReadStatus(slot)
        PROVE  outcome' = outcome
    BY <2>1, SignaledIsIdle, StatusIsRead
  <2>2. CASE PrepareRejects
    <3>1. /\ client = "writer" /\ slot \in Slots /\ in_flight[slot] /\ fence[slot]
          /\ ReadStatus(slot)
      BY <1>0, <2>2 DEF PrepareRejects, WaitsForSlot, StatusAtHand, AtStep, Typed
    <3> QED
      BY <2>1, <3>1 DEF Memory, NothingWrong
  <2>3. CASE ReadRejects
    <3>1. Place = "read" /\ op \in DOMAIN ops
      BY <1>0, <2>3 DEF ReadRejects, AtStep, Place, Typed
    <3>2. submitted[slot].op = op /\ submitted[slot].frame = frame
      BY <1>0, <3>1 DEF SlotsInUse
    <3>3. \A b \in ops[op].results : Landed(ops[op], frame, b, mem[Home(slot, b)])
      BY <3>1 DEF Memory, AwaitedLanded
    <3>4. Synchronized(ops[op], op, DOMAIN ops, Coherent(client))
      BY <1>0, <3>1, Recorded
    <3>5. "status" \in ops[op].results
      BY <2>3, <3>2 DEF ReadRejects, HasStatus
    <3>6. \A b \in {"status"} : Landed(ops[op], frame, b, mem[Home(slot, b)])
      BY <3>3, <3>5
    <3>7. HostReads(ops, slot, op, frame, {"status"})
      BY <3>4, <3>6, LandedIsRead
    <3>8. outcome' = outcome
      BY <2>3, <3>2, <3>7 DEF ReadRejects, ReadStatus
    <3> QED
      BY <3>8 DEF Memory, NothingWrong
  <2>4. CASE (CleanupSlot \/ CleanupGivesUp) /\ outcome' # outcome
    <3>1. client = "writer" /\ CleanupWaits /\ slot \in 0..NumSlots /\ slot < NumSlots
      BY <1>0, <2>4 DEF CleanupSlot, CleanupGivesUp, Typed
    <3>2. slot \in Slots /\ in_flight[slot]
      BY <3>1, NumSlotsAssumption DEF CleanupWaits, Slots
    <3>3. fence[slot] /\ ReadStatus(slot)
      BY <2>4, <3>1 DEF CleanupSlot, CleanupGivesUp, StatusAtHand
    <3> QED
      BY <2>1, <2>4, <3>1, <3>2, <3>3
  <2>5. CASE (Create \/ CreateFails \/ Call \/ StepFails \/ Destroy \/ CleanupSlot \/ CleanupGivesUp)
             /\ outcome' = outcome
    BY <2>5 DEF Memory, NothingWrong
  <2>6. Create \/ CreateFails \/ Call \/ StepFails \/ Destroy => outcome' = outcome
    BY DEF Create, CreateFails, Call, StepFails, Destroy
  <2> QED
    BY <2>2, <2>3, <2>4, <2>5, <2>6
<1>6. Place' \in {"none", "upload", "prepare"}
      /\ (thread' = "construct" => thread = "construct")
      /\ (op' = "lut" /\ Place' = "upload" => thread = "construct")
      /\ (HasLut /\ (thread' = "idle" \/ frame' > 0) => thread = "idle" \/ frame > 0)
  <2>1. CASE Create
    <3>1. thread' = "call" => Place' = "upload"
      <4> SUFFICES ASSUME thread' = "call" PROVE Place' = "upload"
        OBVIOUS
      <4>1. op' = "lut" /\ step' = 1
        BY <2>1 DEF Create
      <4> QED
        BY <4>1 DEF Place, Steps, LutSteps
    <3>2. thread' # "call" => Place' = "none"
      BY DEF Place
    <3> QED
      BY <1>0, <2>1, <3>1, <3>2 DEF Create, SlotsInUse
  <2>2. CASE CreateFails
    BY <1>0, <2>2 DEF CreateFails, SlotsInUse, Place
  <2>3. CASE Call
    <3>1. Steps' = IF client = "packer" THEN PackerSteps
                   ELSE IF client = "writer" THEN WriterSteps
                   ELSE IF client = "camera" THEN CameraSteps ELSE RawSteps
      BY <1>0, <2>3, ClientNames DEF Call, Steps, programVars
    <3>2. Steps'[1] = IF client = "packer" THEN "upload" ELSE "prepare"
      BY <3>1 DEF PackerSteps, WriterSteps, CameraSteps, RawSteps
    <3> QED
      BY <2>3, <3>2 DEF Call, Place
  <2>4. CASE PrepareRejects \/ ReadRejects \/ StepFails
    <3>1. thread = "call" /\ Throws /\ op' = op /\ frame' = frame
      BY <2>4 DEF PrepareRejects, ReadRejects, StepFails, AtStep
    <3> QED
      BY <1>0, <3>1, Thrown DEF Typed, Throws
  <2>5. CASE Destroy
    BY <2>5 DEF Destroy, Place
  <2>6. CASE CleanupSlot \/ CleanupGivesUp
    BY <2>6 DEF CleanupSlot, CleanupGivesUp, Place
  <2> QED
    BY <2>1, <2>2, <2>3, <2>4, <2>5, <2>6
<1>7. LutInPlace'
  BY <1>2, <1>6 DEF Memory, LutInPlace
<1>8. Uploaded' /\ AwaitedLanded'
  BY <1>6 DEF Uploaded, AwaitedLanded
<1>9. SharedRested'
  BY <1>2, <1>6 DEF Memory, SharedRested
<1> QED
  BY <1>2, <1>4, <1>5, <1>7, <1>8, <1>9 DEF Memory

-----------------------------------------------------------------------------
(* What the GPU does.                                                      *)

\* The buffers an operation uses.
LEMMA OperationUses ==
  ASSUME Typed, NEW name \in DOMAIN ops
  PROVE  LET o == ops[name]
         IN  /\ Synchronized(o, name, DOMAIN ops, Coherent(client))
             /\ name # "lut" => o.uploads \cup o.results \subseteq Buffers /\ "image" \notin o.uploads
             /\ name = "lut" => o.uploads = {"staging"} /\ o.results = {"lut"}
             /\ \A k \in 1..Len(o.stream) :
                  /\ o.stream[k].writes \subseteq Own(name)
                  /\ \A x \in o.stream[k].scope : x[1] \in Own(name)
<1> DEFINE o == ops[name]
<1>1. Synchronized(o, name, DOMAIN ops, Coherent(client))
  BY Recorded DEF Typed
<1>2. SharesRight(o, name, DOMAIN ops)
  BY <1>1 DEF Synchronized
<1> HIDE DEF o
<1>3. CASE name = "lut"
  BY <1>1, <1>2, <1>3 DEF SharesRight, Own, Shared, o
<1>4. CASE name # "lut"
  BY <1>1, <1>2, <1>4 DEF SharesRight, Own, o
<1> QED
  BY <1>3, <1>4

\* Where a submission does its work, and where the thread then is not.
LEMMA AtWork ==
  ASSUME Control, ~lost, NEW i \in 1..Len(pending)
  PROVE  LET sub == pending[i]
         IN  /\ sub.slot \in Slots /\ sub.op \in DOMAIN ops /\ sub.frame \in Frames
             /\ thread # "construct"
             /\ sub.op = "lut" => /\ Place = "wait" /\ op = "lut" /\ slot = sub.slot
                                  /\ frame = 0 /\ thread = "call"
             /\ Place \in {"upload", "reset", "submit", "read"} =>
                  slot \in Slots /\ slot # sub.slot /\ op # "lut" /\ op \in DOMAIN ops
             /\ Place = "wait" => slot \in Slots /\ op \in DOMAIN ops
             /\ \A a \in 1..Len(pending) : a # i =>
                  pending[a].slot # sub.slot /\ pending[a].op # "lut" /\ sub.op # "lut"
<1>0. Typed /\ SlotsInUse /\ OneEach
  BY DEF Control
<1>1. \A a \in 1..Len(pending) : pending[a] \in Submissions /\ SlotOfSubmission(pending[a])
  BY <1>0, NotBusy DEF OneEach
<1>2. thread # "construct"
  <2>1. pending # << >>
    BY <1>0 DEF Typed
  <2> QED
    BY <1>0, <2>1 DEF SlotsInUse
<1>3. /\ Place # "none" => thread = "call" /\ slot \in Slots /\ op \in DOMAIN ops
      /\ Place # "none" => (op = "lut" <=> frame = 0)
  BY <1>0 DEF Typed, Place
<1>4. \A a \in 1..Len(pending) : pending[a].op = "lut" =>
        Place = "wait" /\ slot = pending[a].slot /\ frame = 0 /\ thread = "call" /\ op = "lut"
  BY <1>1, <1>3 DEF SlotOfSubmission
<1>5. \A a \in 1..Len(pending) : pending[a].op # "lut" => frame > 0
  BY <1>1 DEF SlotOfSubmission
<1>6. Place \in {"upload", "reset", "submit", "read"} =>
        slot \in Slots /\ slot # pending[i].slot /\ op # "lut" /\ op \in DOMAIN ops
  <2>1. Place \in {"upload", "reset", "submit", "read"} => slot # pending[i].slot
    BY <1>1 DEF SlotOfSubmission
  <2>2. Place \in {"upload", "reset", "submit", "read"} => frame > 0
    BY <1>4, <1>5
  <2> QED
    BY <1>3, <2>1, <2>2
<1>7. \A a \in 1..Len(pending) : a # i =>
        pending[a].slot # pending[i].slot /\ pending[a].op # "lut" /\ pending[i].op # "lut"
  <2> SUFFICES ASSUME NEW a \in 1..Len(pending), a # i
               PROVE  pending[a].slot # pending[i].slot /\ pending[a].op # "lut" /\ pending[i].op # "lut"
    OBVIOUS
  <2>1. pending[a].slot # pending[i].slot
    BY <1>0 DEF OneEach
  <2>2. pending[a].op = "lut" <=> pending[i].op = "lut"
    BY <1>4, <1>5
  <2> QED
    BY <1>4, <2>1, <2>2
<1> QED
  BY <1>1, <1>2, <1>3, <1>4, <1>6, <1>7 DEF Submissions

\* Cells of other slots than the submission's.
Elsewhere(l, sub) == l[1] # sub.slot /\ (sub.op = "lut" => l[1] # NumSlots)

\* What is said of those cells still holds after a step of the GPU that
\* changes others.
LEMMA ElsewhereKept ==
  ASSUME Control, Memory, ~lost, NEW i \in 1..Len(pending),
         NEW z, z = pending[i].slot,
         \A l \in Locations : Elsewhere(l, pending[i]) => mem'[l] = mem[l],
         UNCHANGED <<programVars, thread, step, op, frame, slot, in_flight, submitted>>,
         \A s \in Slots \ {z} : Busy(s)' <=> Busy(s)
  PROVE  /\ pending[i].op # "lut" \/ Busy(z)' => LutInPlace'
         /\ Uploaded' /\ SharedRested'
         /\ \A s \in Slots \ {z} : ~Busy(s)' =>
              \A b \in Buffers \ {"image"} : Seen(mem'[<<s, b>>])
         /\ slot # z \/ Busy(slot)' => AwaitedLanded'
         /\ client = "writer" =>
              \A s \in Slots \ {z} : in_flight[s] /\ ~Busy(s)' =>
                \A b \in ops[submitted[s].op].results \ {"image"} :
                  Landed(ops[submitted[s].op], submitted[s].frame, b, mem'[Home(s, b)])
<1> DEFINE sub == pending[i]
<1>0. Typed /\ SlotsInUse /\ NumSlots \in Nat \ {0} /\ Slots = 0..(NumSlots - 1)
  BY NumSlotsAssumption DEF Control, Slots
<1>1. /\ z \in Slots /\ sub.op \in DOMAIN ops
      /\ thread # "construct"
      /\ sub.op = "lut" => /\ Place = "wait" /\ op = "lut" /\ slot = z
                           /\ frame = 0 /\ thread = "call"
      /\ Place \in {"upload", "reset", "submit", "read"} =>
           slot \in Slots /\ slot # z /\ op # "lut" /\ op \in DOMAIN ops
      /\ Place = "wait" => slot \in Slots /\ op \in DOMAIN ops
  BY AtWork
<1>2. /\ client' = client /\ ops' = ops /\ thread' = thread /\ op' = op /\ frame' = frame
      /\ slot' = slot /\ in_flight' = in_flight /\ submitted' = submitted
      /\ Place' = Place /\ HasLut' = HasLut
  BY DEF programVars, Place, Steps, HasLut
<1>3. ASSUME NEW s \in Slots, s # z, NEW b \in Buffers
      PROVE  mem'[Home(s, b)] = mem[Home(s, b)] /\ Home(s, b) = <<s, b>>
  <2>1. Home(s, b) = <<s, b>> /\ Home(s, b) \in Locations
    BY HomeApart DEF Buffer
  <2>2. Elsewhere(<<s, b>>, sub)
    BY <1>0, <1>3 DEF Elsewhere
  <2> QED
    BY <2>1, <2>2
<1>4. sub.op # "lut" => mem'[<<NumSlots, "lut">>] = mem[<<NumSlots, "lut">>]
  <2> SUFFICES ASSUME sub.op # "lut" PROVE mem'[<<NumSlots, "lut">>] = mem[<<NumSlots, "lut">>]
    OBVIOUS
  <2>1. <<NumSlots, "lut">> \in Locations
    BY DEF Locations, Shared
  <2>2. Elsewhere(<<NumSlots, "lut">>, sub)
    BY <1>0, <1>1 DEF Elsewhere
  <2> QED
    BY <2>1, <2>2
<1>5. "image" \in Buffers
  BY DEF Buffers
<1> HIDE DEF sub
<1>6. sub.op # "lut" \/ Busy(z)' => LutInPlace'
  <2>1. CASE sub.op = "lut"
    BY <1>1, <1>2, <2>1 DEF LutInPlace
  <2>2. CASE sub.op # "lut"
    <3>1. slot = z => Place # "wait" \/ op # "lut" \/ frame > 0
      <4>1. frame > 0 \/ thread # "call" \/ op # "lut"
        <5>1. SlotOfSubmission(sub)
          BY DEF Control, OneEach, sub
        <5> QED
          BY <2>2, <5>1 DEF SlotOfSubmission
      <4> QED
        BY <4>1 DEF Place
    <3>2. slot # z /\ Place = "wait" => (Busy(slot)' <=> Busy(slot))
      BY <1>1 DEF sub
    <3>3. LutReady(mem') <=> LutReady(mem)
      BY <1>4, <2>2 DEF LutReady
    <3>4. frame > 0
      <4>1. SlotOfSubmission(sub)
        BY DEF Control, OneEach, sub
      <4> QED
        BY <2>2, <4>1 DEF SlotOfSubmission
    <3> QED
      BY <1>0, <1>2, <3>3, <3>4 DEF Memory, LutInPlace, Place, Typed
  <2> QED
    BY <2>1, <2>2
<1>7. Uploaded'
  <2> SUFFICES ASSUME Place = "submit" \/ (Place = "reset" /\ client # "raw")
               PROVE  /\ \A b \in ops[op].uploads : /\ mem'[Home(slot, b)].tag = <<frame, 0>>
                                                    /\ mem'[Home(slot, b)].kind = "host"
                      /\ "image" \in ops[op].results => mem'[Home(slot, "image")].kind = "encoder"
    BY <1>2 DEF Uploaded
  <2>1. slot \in Slots /\ slot # z /\ ops[op].uploads \subseteq Buffers
    BY <1>0, <1>1, OperationUses
  <2>2. \A b \in Buffers : mem'[Home(slot, b)] = mem[Home(slot, b)]
    BY <1>3, <2>1
  <2>3. Uploaded
    BY DEF Memory
  <2> QED
    BY <1>5, <2>1, <2>2, <2>3 DEF Uploaded
<1>8. SharedRested'
  BY <1>1, <1>2 DEF SharedRested
<1>9. \A s \in Slots \ {z} : ~Busy(s)' =>
        \A b \in Buffers \ {"image"} : Seen(mem'[<<s, b>>])
  <2> SUFFICES ASSUME NEW s \in Slots, s # z, ~Busy(s)', NEW b \in Buffers \ {"image"}
               PROVE  Seen(mem'[<<s, b>>])
    OBVIOUS
  <2>1. ~Busy(s)
    BY DEF sub
  <2>2. Seen(mem[<<s, b>>])
    BY <2>1 DEF Memory, SlotsRested
  <2>3. mem'[<<s, b>>] = mem[<<s, b>>]
    BY <1>3
  <2> QED
    BY <2>2, <2>3
<1>10. slot # z \/ Busy(slot)' => AwaitedLanded'
  <2> SUFFICES ASSUME slot # z \/ Busy(slot)',
                      Place = "read" \/ (Place = "wait" /\ ~Busy(slot)' /\ op # "lut"),
                      NEW b \in ops[op].results
               PROVE  Landed(ops[op], frame, b, mem'[Home(slot, b)])
    BY <1>2 DEF AwaitedLanded
  <2>1. slot \in Slots /\ slot # z /\ op # "lut" /\ op \in DOMAIN ops
    BY <1>1
  <2>2. Place = "wait" => ~Busy(slot)
    BY <2>1 DEF sub
  <2>3. Landed(ops[op], frame, b, mem[Home(slot, b)])
    BY <2>1, <2>2 DEF Memory, AwaitedLanded
  <2>4. b \in Buffers
    BY <1>0, <2>1, OperationUses
  <2>5. mem'[Home(slot, b)] = mem[Home(slot, b)]
    BY <1>3, <2>1, <2>4
  <2> QED
    BY <2>3, <2>5
<1>11. client = "writer" =>
         \A s \in Slots \ {z} : in_flight[s] /\ ~Busy(s)' =>
           \A b \in ops[submitted[s].op].results \ {"image"} :
             Landed(ops[submitted[s].op], submitted[s].frame, b, mem'[Home(s, b)])
  <2> SUFFICES ASSUME client = "writer", NEW s \in Slots, s # z, in_flight[s], ~Busy(s)',
                      NEW b \in ops[submitted[s].op].results \ {"image"}
               PROVE  Landed(ops[submitted[s].op], submitted[s].frame, b, mem'[Home(s, b)])
    OBVIOUS
  <2>1. ~Busy(s)
    BY DEF sub
  <2>2. submitted[s].op \in DOMAIN ops /\ submitted[s].op # "lut"
    BY <1>0 DEF SlotsInUse
  <2>3. Landed(ops[submitted[s].op], submitted[s].frame, b, mem[Home(s, b)])
    BY <2>1 DEF Memory, RecycledLanded
  <2>4. b \in Buffers
    BY <1>0, <2>2, OperationUses
  <2>5. mem'[Home(s, b)] = mem[Home(s, b)]
    BY <1>3, <2>4
  <2> QED
    BY <2>3, <2>5
<1> QED
  BY <1>6, <1>7, <1>8, <1>9, <1>10, <1>11 DEF sub

\* Work leaves its tag in the buffers it writes.
LEMMA WorkWrites ==
  ASSUME Shaped(mem), NEW Ops, NEW sub, sub.slot \in Slots,
         NEW k, Sound(Ops, sub, k), Ops[sub.op].stream[k].writes \subseteq Own(sub.op)
  PROVE  /\ Shaped(Written(Ops, sub, k))
         /\ KeptElsewhere(sub, mem, Written(Ops, sub, k))
         /\ Worked(Ops[sub.op], sub, k, mem, Written(Ops, sub, k))
<1> DEFINE cmd == Ops[sub.op].stream[k]
           cell == [tag |-> <<sub.frame, k>>, kind |-> WriteKind(cmd.stage), vis |-> {}]
           hit(l) == \E b \in cmd.writes : l = Home(sub.slot, b)
           after == Written(Ops, sub, k)
<1>0. Own(sub.op) \subseteq Buffer
  BY DEF Own, Buffer
<1>1. after = [l \in Locations |-> IF hit(l) THEN cell ELSE mem[l]]
  BY DEF Written
<1>2. \A b \in Own(sub.op) : Home(sub.slot, b) \in Locations /\ (hit(Home(sub.slot, b)) <=> b \in cmd.writes)
  BY <1>0, HomeApart
<1>3. \A l : hit(l) => l \in {Home(sub.slot, b) : b \in Own(sub.op)}
  OBVIOUS
<1>4. cell = [tag |-> cell.tag, kind |-> cell.kind, vis |-> cell.vis]
      /\ cell.tag = <<sub.frame, k>> /\ cell.kind = WriteKind(cmd.stage)
  OBVIOUS
<1> HIDE DEF cell, hit, after
<1>5. DOMAIN after = Locations /\ \A l \in Locations : after[l] = IF hit(l) THEN cell ELSE mem[l]
  BY <1>1
<1>6. Shaped(after)
  BY <1>4, <1>5 DEF Shaped
<1>7. \A b \in Own(sub.op) : after[Home(sub.slot, b)] = IF b \in cmd.writes THEN cell ELSE mem[Home(sub.slot, b)]
  BY <1>2, <1>5
<1>8. \A l \in Locations : l \notin {Home(sub.slot, b) : b \in Own(sub.op)} => after[l] = mem[l]
  BY <1>3, <1>5
<1> QED
  BY <1>4, <1>6, <1>7, <1>8 DEF after, Worked, KeptElsewhere, Homes

\* A barrier changes nothing but what is visible.
LEMMA WithVis ==
  ASSUME NEW c, c = [tag |-> c.tag, kind |-> c.kind, vis |-> c.vis], NEW v
  PROVE  [c EXCEPT !.vis = v] = [tag |-> c.tag, kind |-> c.kind, vis |-> v]
  OBVIOUS

\* The same for a barrier: it makes visible and changes nothing else.
LEMMA BarrierShows ==
  ASSUME Shaped(mem), NEW o, NEW sub, sub.slot \in Slots, NEW k,
         \A x \in o.stream[k].scope : x[1] \in Own(sub.op)
  PROVE  /\ Shaped(MadeVisible(sub, o.stream[k]))
         /\ KeptElsewhere(sub, mem, MadeVisible(sub, o.stream[k]))
         /\ Shown(o, sub, k, mem, MadeVisible(sub, o.stream[k]))
<1> DEFINE cmd == o.stream[k]
           to(l) == UNION {x[3] : x \in {y \in cmd.scope :
                                           /\ l = Home(sub.slot, y[1])
                                           /\ mem[l].vis # {} \/ mem[l].kind \in y[2]}}
           after == MadeVisible(sub, o.stream[k])
<1>0. Own(sub.op) \subseteq Buffer
  BY DEF Own, Buffer
<1>1. after = [l \in Locations |-> [mem[l] EXCEPT !.vis = mem[l].vis \cup to(l)]]
  BY DEF MadeVisible
<1>2. \A x \in cmd.scope : \A l : l = Home(sub.slot, x[1]) /\ mem[l].kind \in x[2] => x[3] \subseteq to(l)
  OBVIOUS
<1>3. \A l : l \notin Homes(sub) => to(l) = {}
  BY DEF Homes
<1> HIDE DEF to, after
<1>4. DOMAIN after = Locations
      /\ \A l \in Locations : after[l] = [mem[l] EXCEPT !.vis = mem[l].vis \cup to(l)]
  BY <1>1
<1>5. ASSUME NEW l \in Locations
      PROVE  /\ after[l] = [tag |-> mem[l].tag, kind |-> mem[l].kind, vis |-> mem[l].vis \cup to(l)]
             /\ after[l].tag = mem[l].tag /\ after[l].kind = mem[l].kind
             /\ after[l].vis = mem[l].vis \cup to(l)
  <2>1. mem[l] = [tag |-> mem[l].tag, kind |-> mem[l].kind, vis |-> mem[l].vis]
    BY DEF Shaped
  <2>2. after[l] = [tag |-> mem[l].tag, kind |-> mem[l].kind, vis |-> mem[l].vis \cup to(l)]
    BY <1>4, <2>1, WithVis
  <2> QED
    BY <2>2
<1>6. Shaped(after)
  BY <1>4, <1>5 DEF Shaped
<1>7. ASSUME NEW b \in Own(sub.op)
      PROVE  LET cell == mem[Home(sub.slot, b)]
                 next == after[Home(sub.slot, b)]
             IN  /\ next.tag = cell.tag /\ next.kind = cell.kind
                 /\ cell.vis \subseteq next.vis
                 /\ \A x \in cmd.scope :
                      x[1] = b /\ cell.kind \in x[2] => x[3] \subseteq next.vis
  <2>1. Home(sub.slot, b) \in Locations
    BY <1>0, HomeApart
  <2> QED
    BY <1>2, <1>5, <2>1
<1>8. ASSUME NEW l \in Locations, l \notin Homes(sub)
      PROVE  after[l] = mem[l]
  <2>1. mem[l] = [tag |-> mem[l].tag, kind |-> mem[l].kind, vis |-> mem[l].vis]
    BY DEF Shaped
  <2> QED
    BY <1>3, <1>5, <1>8, <2>1
<1> QED
  BY <1>6, <1>7, <1>8 DEF after, Shown, KeptElsewhere

\* A submission whose buffers are left alone stays executed right.
LEMMA ExecutedElsewhere ==
  ASSUME NEW o, NEW sub, NEW memory, NEW after, ExecutedRight(o, sub, memory),
         \A b \in Own(sub.op) : after[Home(sub.slot, b)] = memory[Home(sub.slot, b)]
  PROVE  ExecutedRight(o, sub, after)
  BY DEF ExecutedRight

\* The GPU executes a command.
LEMMA Executes ==
  ASSUME Control, Memory, Execute(ops), UNCHANGED clientVars
  PROVE  Memory'
<1>0. Typed /\ ~lost /\ lost' = lost /\ pending \in Seq(Submissions)
  BY DEF Control, Typed, Execute
<1>1. PICK i \in 1..Len(pending) : \E k \in Undone(ops, i) :
        LET sub == pending[i]
            cmd == Stream(ops, i)[k]
        IN  /\ MayExecute(ops, i, k)
            /\ mem' = IF cmd.stage = "barrier" THEN MadeVisible(sub, cmd)
                                                ELSE Written(ops, sub, k)
            /\ pending' = [pending EXCEPT ![i].done = @ \cup {k}]
  BY DEF Execute
<1> DEFINE sub == pending[i]
           o == ops[sub.op]
           n == Len(o.stream)
           own == Own(sub.op)
<1>2. PICK k \in Undone(ops, i) :
        /\ MayExecute(ops, i, k)
        /\ mem' = IF o.stream[k].stage = "barrier" THEN MadeVisible(sub, o.stream[k])
                                                   ELSE Written(ops, sub, k)
        /\ pending' = [pending EXCEPT ![i].done = @ \cup {k}]
  BY <1>1 DEF Stream
<1>3. /\ sub.slot \in Slots /\ sub.op \in DOMAIN ops /\ sub.frame \in Frames
      /\ \A a \in 1..Len(pending) : a # i =>
           pending[a].slot # sub.slot /\ pending[a].op # "lut" /\ sub.op # "lut"
      /\ sub.op # "lut" /\ HasLut => LutReady(mem)
  <2>1. /\ sub.slot \in Slots /\ sub.op \in DOMAIN ops /\ sub.frame \in Frames
        /\ \A a \in 1..Len(pending) : a # i =>
             pending[a].slot # sub.slot /\ pending[a].op # "lut" /\ sub.op # "lut"
    BY <1>0, AtWork
  <2>2. SlotOfSubmission(sub)
    BY DEF Control, OneEach
  <2>3. sub.op # "lut" => frame > 0
    BY <2>2 DEF SlotOfSubmission
  <2> QED
    BY <2>1, <2>3 DEF Memory, LutInPlace
<1>4. /\ Synchronized(o, sub.op, DOMAIN ops, Coherent(client))
      /\ n \in Nat /\ ExecutedRight(o, sub, mem) /\ own \subseteq Buffer
      /\ o.stream[k].writes \subseteq own
      /\ \A x \in o.stream[k].scope : x[1] \in own
      /\ k \in 1..n /\ k \notin sub.done /\ k \in Nat
  <2>1. Synchronized(o, sub.op, DOMAIN ops, Coherent(client)) /\ k \in 1..n /\ k \notin sub.done
    BY <1>0, <1>2, <1>3, OperationUses DEF Undone, Stream
  <2>2. n \in Nat
    BY <2>1 DEF Synchronized, WellFormed
  <2>3. o.stream[k].writes \subseteq own /\ \A x \in o.stream[k].scope : x[1] \in own
    BY <1>0, <1>3, <2>1, OperationUses
  <2>4. ExecutedRight(o, sub, mem)
    BY <1>0 DEF Memory, Executed
  <2> QED
    BY <2>1, <2>2, <2>3, <2>4 DEF Own, Buffer
<1>5. \A j \in 1..(k - 1) : Ordered(o.stream[j], o.stream[k]) => j \in sub.done
  <2> SUFFICES ASSUME NEW j \in 1..(k - 1), j \notin sub.done
               PROVE  ~Ordered(o.stream[j], o.stream[k])
    OBVIOUS
  <2>1. j \in Undone(ops, i) /\ j < k /\ i \in 1..i
    BY <1>4 DEF Undone, Stream
  <2> QED
    BY <1>2, <2>1 DEF MayExecute, Stream
<1>6. /\ Len(pending') = Len(pending)
      /\ \A a \in 1..Len(pending) : a # i => pending'[a] = pending[a]
      /\ pending'[i].slot = sub.slot /\ pending'[i].op = sub.op
      /\ pending'[i].frame = sub.frame /\ pending'[i].done = sub.done \cup {k}
  <2> HIDE DEF sub, o
  <2>1. pending' = [pending EXCEPT ![i].done = @ \cup {k}] /\ k \in Nat
    BY <1>2, <1>4
  <2> QED
    BY <1>0, <2>1, ExecutingKeeps DEF sub
<1>7. Shaped(mem') /\ KeptElsewhere(sub, mem, mem') /\ ExecutedRight(o, pending'[i], mem')
  <2> HIDE DEF sub, o, n
  <2>0. Shaped(mem)
    BY DEF Memory
  <2>1. CASE o.stream[k].stage = "barrier"
    <3>1. mem' = MadeVisible(sub, o.stream[k])
      BY <1>2, <2>1
    <3>2. Shaped(mem') /\ KeptElsewhere(sub, mem, mem') /\ Shown(o, sub, k, mem, mem')
      BY <1>3, <1>4, <2>0, <3>1, BarrierShows
    <3> QED
      BY <1>4, <1>5, <1>6, <2>1, <3>2, BarrierExecuted DEF n
  <2>2. CASE o.stream[k].stage # "barrier"
    <3>1. mem' = Written(ops, sub, k)
      BY <1>2, <2>2
    <3>2. Sound(ops, sub, k)
      BY <1>3, <1>4, <1>5, CommandSound DEF HasLut, o, n
    <3>3. Shaped(mem') /\ KeptElsewhere(sub, mem, mem') /\ Worked(o, sub, k, mem, mem')
      BY <1>3, <1>4, <2>0, <3>1, <3>2, WorkWrites DEF o
    <3> QED
      BY <1>4, <1>5, <1>6, <2>2, <3>3, WorkExecuted DEF n
  <2> QED
    BY <2>1, <2>2
<1>8. /\ client' = client /\ ops' = ops /\ outcome' = outcome /\ in_flight' = in_flight
      /\ submitted' = submitted /\ slot' = slot
      /\ \A s : Busy(s)' <=> Busy(s)
  <2>1. \A a \in 1..Len(pending) : pending'[a].slot = pending[a].slot
    BY <1>6
  <2> QED
    BY <1>6, <2>1 DEF clientVars, programVars, Busy
<1>9. Executed'
  <2> SUFFICES ASSUME NEW a \in 1..Len(pending)
               PROVE  ExecutedRight(ops[pending'[a].op], pending'[a], mem')
    BY <1>6, <1>8 DEF Executed
  <2>1. CASE a = i
    BY <1>6, <1>7, <2>1
  <2>2. CASE a # i
    <3>1. pending'[a] = pending[a] /\ pending[a].slot # sub.slot /\ pending[a].op # "lut" /\ sub.op # "lut"
      BY <1>3, <1>6, <2>2
    <3>2. pending[a].slot \in Slots
      BY <1>0, AtWork
    <3>3. \A b \in Own(pending[a].op) : mem'[Home(pending[a].slot, b)] = mem[Home(pending[a].slot, b)]
      <4> SUFFICES ASSUME NEW b \in Buffers
                   PROVE  mem'[Home(pending[a].slot, b)] = mem[Home(pending[a].slot, b)]
        BY <3>1 DEF Own
      <4>1. /\ Home(pending[a].slot, b) \in Locations
            /\ \A c \in own : Home(pending[a].slot, b) # Home(sub.slot, c)
        BY <1>3, <1>4, <3>1, <3>2, HomeApart DEF Buffer
      <4> QED
        BY <1>7, <4>1 DEF KeptElsewhere, Homes
    <3>4. ExecutedRight(ops[pending[a].op], pending[a], mem)
      BY <1>0 DEF Memory, Executed
    <3> QED
      BY <3>1, <3>3, <3>4, ExecutedElsewhere
  <2> QED
    BY <2>1, <2>2
<1>10. \A l \in Locations : Elsewhere(l, sub) => mem'[l] = mem[l]
  <2> SUFFICES ASSUME NEW l \in Locations, Elsewhere(l, sub) PROVE l \notin Homes(sub)
    BY <1>7 DEF KeptElsewhere
  <2>1. \A b \in own : Home(sub.slot, b)[1] = IF sub.op = "lut" THEN NumSlots ELSE sub.slot
    <3>1. \A b \in own : Home(sub.slot, b) = <<IF sub.op = "lut" THEN NumSlots ELSE sub.slot, b>>
      <4>1. Buffers \cap Shared = {}
        BY DEF Buffers, Shared, CameraRgb, RcdScratch
      <4> QED
        BY <4>1 DEF Home, Own
    <3> QED
      BY <3>1
  <2> QED
    BY <2>1 DEF Elsewhere, Homes
<1>11. Busy(sub.slot)
  BY DEF Busy
<1>12. /\ LutInPlace' /\ Uploaded' /\ SharedRested'
       /\ \A s \in Slots \ {sub.slot} : ~Busy(s)' =>
            \A b \in Buffers \ {"image"} : Seen(mem'[<<s, b>>])
       /\ AwaitedLanded'
       /\ client = "writer" =>
            \A s \in Slots \ {sub.slot} : in_flight[s] /\ ~Busy(s)' =>
              \A b \in ops[submitted[s].op].results \ {"image"} :
                Landed(ops[submitted[s].op], submitted[s].frame, b, mem'[Home(s, b)])
  <2>1. PICK z : z = sub.slot
    OBVIOUS
  <2>2. UNCHANGED <<programVars, thread, step, op, frame, slot, in_flight, submitted>>
    BY DEF clientVars
  <2>3. Busy(z)' /\ (slot = z => Busy(slot)')
    BY <1>8, <1>11, <2>1
  <2> HIDE DEF sub
  <2> QED
    BY <1>0, <1>8, <1>10, <2>1, <2>2, <2>3, ElsewhereKept DEF sub
<1>13. SlotsRested' /\ RecycledLanded'
  BY <1>8, <1>11, <1>12 DEF SlotsRested, RecycledLanded
<1>14. NothingWrong'
  BY <1>8 DEF Memory, NothingWrong
<1> QED
  BY <1>7, <1>9, <1>12, <1>13, <1>14 DEF Memory

\* What a submission that has executed leaves is what it was to leave.
LEMMA ResultHolds ==
  ASSUME Typed, NEW sub, sub.op \in DOMAIN ops, ExecutedRight(ops[sub.op], sub, mem),
         sub.done = 1..Len(ops[sub.op].stream), NEW bufs
  PROVE  Holds(ops, sub, Len(ops[sub.op].stream) + 1, bufs)
<1> DEFINE o == ops[sub.op]
           n == Len(o.stream)
<1>1. Synchronized(o, sub.op, DOMAIN ops, Coherent(client))
  BY OperationUses
<1> SUFFICES ASSUME NEW f \in o.finds[n + 1], f[1] \in bufs
             PROVE  mem[Home(sub.slot, f[1])].tag =
                      IF f = <<"lut", 0>> THEN LutTag ELSE <<sub.frame, f[2]>>
  BY DEF Holds
<1>2. f[2] > 0 /\ mem[Home(sub.slot, f[1])].tag = <<sub.frame, f[2]>>
  <2>1. ExecutedRight(o, sub, mem) /\ sub.done = 1..n
    OBVIOUS
  <2> DEFINE after == n + 1
  <2>2. after = Len(o.stream) + 1 /\ f \in o.finds[after]
    OBVIOUS
  <2> HIDE DEF o, after
  <2>3. Left(o, sub, f, mem[Home(sub.slot, f[1])], Coherent(client))
    BY <1>1, <2>1, <2>2, SubmissionResult
  <2> QED
    BY <2>3 DEF Left
<1>3. f # <<"lut", 0>>
  BY <1>2
<1> QED
  BY <1>2, <1>3

\* When the fence is signaled, what the host is to read has landed.
LEMMA ResultLands ==
  ASSUME Typed, NEW sub, sub.op \in DOMAIN ops, NEW memory, NEW after,
         ExecutedRight(ops[sub.op], sub, memory),
         sub.done = 1..Len(ops[sub.op].stream),
         NEW b \in ops[sub.op].results \ {"image", "lut"},
         LET old == memory[Home(sub.slot, b)]
             new == after[Home(sub.slot, b)]
         IN  /\ new.tag = old.tag /\ new.kind = old.kind /\ old.vis \subseteq new.vis
             /\ Coherent(client) => "HR" \in new.vis
  PROVE  Landed(ops[sub.op], sub.frame, b, after[Home(sub.slot, b)])
<1> DEFINE o == ops[sub.op]
           n == Len(o.stream)
           old == memory[Home(sub.slot, b)]
           new == after[Home(sub.slot, b)]
<1>1. Synchronized(o, sub.op, DOMAIN ops, Coherent(client))
  BY OperationUses
<1>2. ASSUME NEW f \in o.finds[n + 1], f[1] = b
      PROVE  /\ old.tag = <<sub.frame, f[2]>> /\ old.kind \in {"W", "TW"}
             /\ Coherent(client) \/ "HR" \in old.vis
  <2>1. ExecutedRight(o, sub, memory) /\ sub.done = 1..n
    OBVIOUS
  <2> DEFINE last == n + 1
  <2>2. last = Len(o.stream) + 1 /\ f \in o.finds[last]
    BY <1>2
  <2> HIDE DEF o, last
  <2>3. Left(o, sub, f, memory[Home(sub.slot, f[1])], Coherent(client))
    BY <1>1, <2>1, <2>2, SubmissionResult
  <2> QED
    BY <1>2, <2>3 DEF Left
<1>3. \E f \in o.finds[n + 1] : f[1] = b
  BY <1>1 DEF Synchronized, ResultsVisible
<1>4. new.tag = old.tag /\ new.kind = old.kind /\ old.vis \subseteq new.vis
      /\ (Coherent(client) => "HR" \in new.vis)
  OBVIOUS
<1> HIDE DEF o, old, new
<1>5. Landed(o, sub.frame, b, new)
  BY <1>2, <1>3, <1>4 DEF Landed, n
<1> QED
  BY <1>5 DEF o, new

\* The oldest submission completes.
LEMMA Completes ==
  ASSUME Control, Memory, Gpu, ~(Execute(ops) /\ UNCHANGED clientVars)
  PROVE  Memory'
<1> DEFINE sub == pending[1]
           o == ops[sub.op]
           n == Len(o.stream)
<1>0. Typed /\ SlotsInUse /\ client \in Clients /\ ops = Operations[client]
  BY DEF Control, Typed
<1>1. /\ Complete(ops, Coherent(client))
      /\ UNCHANGED <<programVars, thread, step, op, frame, slot, next_slot, in_flight, submitted, live>>
  BY DEF Gpu
<1>2. /\ pending # << >> /\ pending \in Seq(Submissions) /\ ~lost /\ lost' = lost
      /\ pending' = Tail(pending)
  BY <1>0, <1>1 DEF Complete, Typed
<1>3. /\ Head(pending) = sub /\ 1 \in 1..Len(pending)
      /\ \A a \in 1..Len(pending') : a + 1 \in 1..Len(pending) /\ pending'[a] = pending[a + 1]
      /\ Len(pending') = Len(pending) - 1 /\ Len(pending) \in Nat
  BY <1>2, TailKeeps
<1>4. /\ sub.slot \in Slots /\ sub.op \in DOMAIN ops /\ sub.frame \in Frames
      /\ sub.op = "lut" => /\ Place = "wait" /\ op = "lut" /\ slot = sub.slot
                           /\ frame = 0 /\ thread = "call"
      /\ Place = "wait" => slot \in Slots /\ op \in DOMAIN ops
      /\ \A a \in 1..Len(pending) : a # 1 =>
           pending[a].slot # sub.slot /\ pending[a].op # "lut" /\ sub.op # "lut"
  <2> HIDE DEF sub
  <2> QED
    BY <1>2, <1>3, AtWork DEF sub
<1>5. /\ sub.done = 1..n
      /\ mem' = [l \in Locations |->
                   IF l[1] = sub.slot
                   THEN [mem[l] EXCEPT !.vis = @ \cup DeviceKinds
                                         \cup (IF Coherent(client) THEN {"HR"} ELSE {})]
                   ELSE mem[l]]
      /\ outcome' = IF "image" \in o.results
                    THEN [outcome EXCEPT ![sub.frame] =
                            IF Computed(ops, "image") THEN "good" ELSE "garbage"]
                    ELSE outcome
  BY <1>1, <1>3 DEF Complete, Gpu, clientVars
<1> DEFINE more == DeviceKinds \cup (IF Coherent(client) THEN {"HR"} ELSE {})
<1>6. /\ DOMAIN mem' = Locations
      /\ \A l \in Locations :
           /\ mem'[l].tag = mem[l].tag /\ mem'[l].kind = mem[l].kind
           /\ mem'[l].vis = IF l[1] = sub.slot THEN mem[l].vis \cup more ELSE mem[l].vis
           /\ mem'[l] = [tag |-> mem'[l].tag, kind |-> mem'[l].kind, vis |-> mem'[l].vis]
           /\ l[1] # sub.slot => mem'[l] = mem[l]
  <2>0. mem' = [l \in Locations |->
                  IF l[1] = sub.slot THEN [mem[l] EXCEPT !.vis = mem[l].vis \cup more] ELSE mem[l]]
    <3>1. \A v : (v \cup DeviceKinds) \cup (IF Coherent(client) THEN {"HR"} ELSE {}) = v \cup more
      OBVIOUS
    <3> HIDE DEF more, sub
    <3> QED
      BY <1>5, <3>1
  <2>1. Shaped(mem)
    BY DEF Memory
  <2> HIDE DEF more, sub
  <2> SUFFICES ASSUME NEW l \in Locations
               PROVE  /\ mem'[l].tag = mem[l].tag /\ mem'[l].kind = mem[l].kind
                      /\ mem'[l].vis = IF l[1] = sub.slot THEN mem[l].vis \cup more ELSE mem[l].vis
                      /\ mem'[l] = [tag |-> mem'[l].tag, kind |-> mem'[l].kind, vis |-> mem'[l].vis]
                      /\ l[1] # sub.slot => mem'[l] = mem[l]
    BY <2>0
  <2>2. mem[l] = [tag |-> mem[l].tag, kind |-> mem[l].kind, vis |-> mem[l].vis]
    BY <2>1 DEF Shaped
  <2>3. CASE l[1] = sub.slot
    <3>1. mem'[l] = [mem[l] EXCEPT !.vis = mem[l].vis \cup more]
      BY <2>0, <2>3
    <3>2. mem'[l] = [tag |-> mem[l].tag, kind |-> mem[l].kind, vis |-> mem[l].vis \cup more]
      BY <2>2, <3>1, WithVis
    <3> QED
      BY <2>3, <3>2
  <2>4. CASE l[1] # sub.slot
    BY <2>0, <2>2, <2>4
  <2> QED
    BY <2>3, <2>4
<1> HIDE DEF more
<1>7. Shaped(mem')
  BY <1>6 DEF Shaped
<1>8. /\ client' = client /\ ops' = ops /\ in_flight' = in_flight /\ Place' = Place /\ op' = op
      /\ submitted' = submitted /\ slot' = slot /\ frame' = frame /\ thread' = thread /\ HasLut' = HasLut
  BY <1>1 DEF programVars, Place, Steps, HasLut
<1>9. PICK z : z = sub.slot
  OBVIOUS
<1>20. /\ ~Busy(z)' /\ Busy(z)
       /\ \A s \in Slots \ {z} : Busy(s)' <=> Busy(s)
  <2> HIDE DEF sub
  <2>1. \A a \in 1..Len(pending') : pending'[a].slot # z
    BY <1>3, <1>4, <1>9
  <2>2. ~Busy(z)' /\ Busy(z)
    BY <1>3, <1>9, <2>1 DEF Busy, sub
  <2>3. ASSUME NEW s \in Slots, s # z PROVE Busy(s)' <=> Busy(s)
    <3>1. ASSUME NEW a \in 1..Len(pending), pending[a].slot = s PROVE Busy(s)'
      <4>1. a # 1 /\ a - 1 \in 1..Len(pending') /\ pending'[a - 1] = pending[a]
        BY <1>3, <1>9, <2>3, <3>1 DEF sub
      <4> QED
        BY <3>1, <4>1 DEF Busy
    <3>2. ASSUME NEW a \in 1..Len(pending'), pending'[a].slot = s PROVE Busy(s)
      BY <1>3, <3>2 DEF Busy
    <3> QED
      BY <3>1, <3>2 DEF Busy
  <2> QED
    BY <2>2, <2>3
<1>10. Executed'
  <2> SUFFICES ASSUME NEW a \in 1..Len(pending')
               PROVE  ExecutedRight(ops[pending'[a].op], pending'[a], mem')
    BY <1>8 DEF Executed
  <2>1. /\ a + 1 \in 1..Len(pending) /\ a + 1 # 1 /\ pending'[a] = pending[a + 1]
    BY <1>3
  <2>2. /\ pending[a + 1].slot # sub.slot /\ pending[a + 1].op # "lut" /\ pending[a + 1].slot \in Slots
        /\ ExecutedRight(ops[pending[a + 1].op], pending[a + 1], mem)
    <3>1. pending[a + 1].slot # sub.slot /\ pending[a + 1].op # "lut"
      BY <1>4, <2>1
    <3>2. pending[a + 1].slot \in Slots
      BY <1>2, <2>1, AtWork
    <3> QED
      BY <1>2, <2>1, <3>1, <3>2 DEF Memory, Executed
  <2>3. \A b \in Own(pending[a + 1].op) : mem'[Home(pending[a + 1].slot, b)] = mem[Home(pending[a + 1].slot, b)]
    <3> SUFFICES ASSUME NEW b \in Buffers
                 PROVE  mem'[Home(pending[a + 1].slot, b)] = mem[Home(pending[a + 1].slot, b)]
      BY <2>2 DEF Own
    <3>1. /\ Home(pending[a + 1].slot, b) \in Locations
          /\ Home(pending[a + 1].slot, b) = <<pending[a + 1].slot, b>>
      BY <2>2, HomeApart DEF Buffer
    <3>2. Home(pending[a + 1].slot, b)[1] # sub.slot
      BY <2>2, <3>1
    <3> QED
      BY <1>6, <3>1, <3>2
  <2> QED
    BY <2>1, <2>2, <2>3, ExecutedElsewhere
<1>11. ExecutedRight(o, sub, mem)
  BY <1>2, <1>3 DEF Memory, Executed
<1>12. /\ sub.op # "lut" => LutInPlace'
       /\ Uploaded' /\ SharedRested'
       /\ \A s \in Slots \ {z} : ~Busy(s)' =>
            \A b \in Buffers \ {"image"} : Seen(mem'[<<s, b>>])
       /\ slot # z => AwaitedLanded'
       /\ client = "writer" =>
            \A s \in Slots \ {z} : in_flight[s] /\ ~Busy(s)' =>
              \A b \in ops[submitted[s].op].results \ {"image"} :
                Landed(ops[submitted[s].op], submitted[s].frame, b, mem'[Home(s, b)])
  <2>1. \A l \in Locations : Elsewhere(l, sub) => mem'[l] = mem[l]
    BY <1>6 DEF Elsewhere
  <2> HIDE DEF sub
  <2> QED
    BY <1>1, <1>2, <1>3, <1>9, <1>20, <2>1, ElsewhereKept DEF sub
<1>13. sub.op # "lut" =>
         /\ o.results \subseteq Buffers
         /\ \A b \in o.results \ {"image"} : Landed(o, sub.frame, b, mem'[Home(z, b)])
  <2> SUFFICES ASSUME sub.op # "lut", NEW b \in o.results
               PROVE  b \in Buffers /\ (b # "image" => Landed(o, sub.frame, b, mem'[Home(z, b)]))
    OBVIOUS
  <2>1. b \in Buffers /\ b # "lut"
    <3>1. b \in Buffers
      BY <1>0, <1>4, OperationUses
    <3> QED
      BY <3>1 DEF Buffers, CameraRgb, RcdScratch
  <2>2. Home(z, b) \in Locations /\ Home(z, b) = <<z, b>>
    BY <1>4, <1>9, <2>1, HomeApart DEF Buffer
  <2>3. LET old == mem[Home(sub.slot, b)]
            new == mem'[Home(sub.slot, b)]
        IN  /\ new.tag = old.tag /\ new.kind = old.kind /\ old.vis \subseteq new.vis
            /\ Coherent(client) => "HR" \in new.vis
    <3> HIDE DEF sub
    <3>1. Coherent(client) => "HR" \in more
      BY DEF more
    <3> DEFINE l == Home(z, b)
    <3>2. l \in Locations /\ l[1] = sub.slot
      BY <1>9, <2>2
    <3> HIDE DEF l
    <3>3. /\ mem'[l].tag = mem[l].tag /\ mem'[l].kind = mem[l].kind
          /\ mem[l].vis \subseteq mem'[l].vis /\ more \subseteq mem'[l].vis
      BY <1>6, <3>2
    <3> QED
      BY <1>9, <3>1, <3>3 DEF l
  <2>4. b # "image" => Landed(o, sub.frame, b, mem'[Home(sub.slot, b)])
    BY <1>0, <1>4, <1>5, <1>11, <2>1, <2>3, ResultLands
  <2> QED
    BY <1>9, <2>1, <2>4
<1>14. LutInPlace'
  <2>1. CASE sub.op = "lut"
    <3>1. LutReady(mem)
      <4>1. /\ Synchronized(o, sub.op, DOMAIN ops, Coherent(client))
            /\ o.finds[n + 1] = {<<"lut", 1>>}
            /\ VisibleAt(o, 1, n + 1, "lut", "R")
        <5>1. Synchronized(o, sub.op, DOMAIN ops, Coherent(client))
          BY <1>0, <1>4, OperationUses
        <5> QED
          BY <2>1, <5>1 DEF Synchronized, SharesRight
      <4>2. <<"lut", 1>> \in o.finds[n + 1]
        BY <4>1
      <4>3. LET cell == mem[Home(sub.slot, "lut")]
            IN  /\ cell.tag = <<sub.frame, 1>>
                /\ \A kind : VisibleAt(o, 1, n + 1, "lut", kind) => kind \in cell.vis
        <5> DEFINE f == <<"lut", 1>>
        <5>1. f[1] = "lut" /\ f[2] = 1 /\ f \in o.finds[n + 1]
          BY <4>2
        <5> DEFINE last == n + 1
        <5>2. last = Len(o.stream) + 1 /\ sub.done = 1..Len(o.stream)
          BY <1>5
        <5>3. f \in o.finds[last]
          BY <5>1
        <5> HIDE DEF f, o, sub, last
        <5>4. Left(o, sub, f, mem[Home(sub.slot, f[1])], Coherent(client))
          BY <1>11, <4>1, <5>2, <5>3, SubmissionResult
        <5> QED
          BY <5>1, <5>4 DEF Left, n
      <4>4. sub.frame = 0
        <5>1. SlotOfSubmission(sub)
          BY <1>3 DEF Control, OneEach
        <5> QED
          BY <2>1, <5>1 DEF SlotOfSubmission
      <4>5. Home(sub.slot, "lut") = <<NumSlots, "lut">>
        BY DEF Home, Shared
      <4> HIDE DEF sub, o, n
      <4> QED
        BY <4>1, <4>3, <4>4, <4>5 DEF LutReady, LutTag
    <3>2. mem'[<<NumSlots, "lut">>] = mem[<<NumSlots, "lut">>]
      <4>1. <<NumSlots, "lut">> \in Locations /\ NumSlots # sub.slot
        BY <1>4, NumSlotsAssumption DEF Locations, Shared, Slots
      <4> QED
        BY <1>6, <4>1
    <3> QED
      BY <3>1, <3>2 DEF LutInPlace, LutReady
  <2>2. CASE sub.op # "lut"
    BY <1>12, <2>2
  <2> QED
    BY <2>1, <2>2
<1>15. SlotsRested'
  <2>1. ASSUME NEW b \in Buffers PROVE Seen(mem'[<<z, b>>])
    <3>1. <<z, b>> \in Locations
      BY <1>4, <1>9, HomeApart DEF Buffer
    <3> QED
      BY <1>6, <1>9, <3>1 DEF more, Seen
  <2> QED
    BY <1>12, <2>1 DEF SlotsRested
<1>16. AwaitedLanded'
  <2> SUFFICES ASSUME slot = z,
                      Place = "read" \/ (Place = "wait" /\ op # "lut"),
                      NEW b \in ops[op].results
               PROVE  Landed(ops[op], frame, b, mem'[Home(slot, b)])
    BY <1>8, <1>12 DEF AwaitedLanded
  <2>1. SlotOfSubmission(sub)
    BY <1>3 DEF Control, OneEach
  <2>2. Place = "wait" /\ sub.op = op /\ sub.frame = frame /\ op # "lut"
    BY <1>9, <2>1 DEF SlotOfSubmission
  <2>3. b # "image"
    <3>1. op \in DOMAIN ops
      BY <1>4, <2>2
    <3>2. "image" \in ops[op].results => client = "writer"
      BY <1>0, <3>1, ImagesAreWriters
    <3>3. client = "writer" => Place # "wait"
      BY <1>0, <2>2 DEF Typed, Place, Steps, WriterSteps
    <3> QED
      BY <2>2, <3>2, <3>3
  <2> QED
    BY <1>9, <1>13, <2>2, <2>3
<1>17. RecycledLanded'
  <2> SUFFICES ASSUME client = "writer", in_flight[z],
                      NEW b \in ops[submitted[z].op].results \ {"image"}
               PROVE  Landed(ops[submitted[z].op], submitted[z].frame, b, mem'[Home(z, b)])
    BY <1>8, <1>12 DEF RecycledLanded
  <2>1. SlotOfSubmission(sub)
    BY <1>3 DEF Control, OneEach
  <2>2. submitted[z].op = sub.op /\ submitted[z].frame = sub.frame
    BY <1>9, <2>1 DEF SlotOfSubmission
  <2>3. submitted[z].op # "lut"
    BY <1>0, <1>4, <1>9 DEF SlotsInUse
  <2> QED
    BY <1>13, <2>2, <2>3
<1>18. NothingWrong'
  <2>1. CASE "image" \in o.results
    <3>1. Holds(ops, sub, n + 1, {"image"})
      <4>1. LET old == mem[Home(sub.slot, "image")]
            IN  /\ old.tag = old.tag /\ old.kind = old.kind /\ old.vis \subseteq old.vis
        OBVIOUS
      <4> HIDE DEF o, sub
      <4> QED
        BY <1>0, <1>4, <1>5, <1>11, <2>1, ResultHolds DEF o, n
    <3>2. Computed(ops, "image")
      BY <1>3, <3>1 DEF Computed
    <3>3. outcome' = [outcome EXCEPT ![sub.frame] = "good"]
      BY <1>5, <2>1, <3>2
    <3>4. outcome \in [Frames -> {"none", "good", "garbage"}]
      BY <1>0 DEF Typed
    <3> HIDE DEF sub
    <3> QED
      BY <1>4, <3>3, <3>4 DEF Memory, NothingWrong
  <2>2. CASE "image" \notin o.results
    <3>1. outcome' = outcome
      BY <1>5, <2>2
    <3> QED
      BY <3>1 DEF Memory, NothingWrong
  <2> QED
    BY <2>1, <2>2
<1> QED
  BY <1>7, <1>10, <1>12, <1>14, <1>15, <1>16, <1>17, <1>18 DEF Memory

\* What the host writes is in place, and nothing else has changed.
LEMMA HostWrites ==
  ASSUME Shaped(mem), slot \in Slots, NEW bufs \in SUBSET Buffer, HostWrite(slot, frame, bufs)
  PROVE  /\ Shaped(mem')
         /\ \A b \in bufs :
              /\ mem'[Home(slot, b)].tag = <<frame, 0>>
              /\ mem'[Home(slot, b)].kind = IF b = "image" THEN "encoder" ELSE "host"
         /\ \A s \in Slots, b \in Buffer :
              b \notin bufs \/ (b \in Buffers /\ s # slot) => mem'[Home(s, b)] = mem[Home(s, b)]
<1> DEFINE hit(l) == \E b \in bufs : l = Home(slot, b)
           cell(l) == [tag |-> <<frame, 0>>, vis |-> {},
                       kind |-> IF l[2] = "image" THEN "encoder" ELSE "host"]
<1>1. mem' = [l \in Locations |-> IF hit(l) THEN cell(l) ELSE mem[l]]
  BY DEF HostWrite
<1>2. \A l : cell(l) = [tag |-> cell(l).tag, kind |-> cell(l).kind, vis |-> cell(l).vis]
             /\ cell(l).tag = <<frame, 0>>
             /\ cell(l).kind = IF l[2] = "image" THEN "encoder" ELSE "host"
  OBVIOUS
<1>3. \A s \in Slots, b \in Buffer :
        /\ Home(s, b) \in Locations /\ Home(s, b)[2] = b
        /\ hit(Home(s, b)) => b \in bufs /\ (b \in Buffers => s = slot)
  <2> SUFFICES ASSUME NEW s \in Slots, NEW b \in Buffer
               PROVE  /\ Home(s, b) \in Locations /\ Home(s, b)[2] = b
                      /\ hit(Home(s, b)) => b \in bufs /\ (b \in Buffers => s = slot)
    OBVIOUS
  <2>1. Home(s, b) \in Locations
    BY HomeApart
  <2>2. Home(s, b)[2] = b
    BY DEF Home
  <2>3. ASSUME NEW c \in bufs, Home(s, b) = Home(slot, c)
        PROVE  b \in bufs /\ (b \in Buffers => s = slot)
    BY <2>3, HomeApart
  <2> QED
    BY <2>1, <2>2, <2>3
<1>4. \A b \in bufs : hit(Home(slot, b))
  OBVIOUS
<1> HIDE DEF hit, cell
<1>5. DOMAIN mem' = Locations /\ \A l \in Locations : mem'[l] = IF hit(l) THEN cell(l) ELSE mem[l]
  BY <1>1
<1>6. Shaped(mem')
  BY <1>2, <1>5 DEF Shaped
<1>7. ASSUME NEW b \in bufs
      PROVE  /\ mem'[Home(slot, b)].tag = <<frame, 0>>
             /\ mem'[Home(slot, b)].kind = IF b = "image" THEN "encoder" ELSE "host"
  <2>1. mem'[Home(slot, b)] = cell(Home(slot, b)) /\ Home(slot, b)[2] = b
    BY <1>3, <1>4, <1>5
  <2> QED
    BY <1>2, <2>1
<1>8. ASSUME NEW s \in Slots, NEW b \in Buffer, b \notin bufs \/ (b \in Buffers /\ s # slot)
      PROVE  mem'[Home(s, b)] = mem[Home(s, b)]
  BY <1>3, <1>5, <1>8
<1> QED
  BY <1>6, <1>7, <1>8

\* The host writes for a slot nothing works on.
LEMMA Uploads == ASSUME Control, Memory, Upload PROVE Memory'
<1> DEFINE o == ops[op]
           bufs == o.uploads \cup (o.results \cap {"image"})
<1>0. Typed /\ SlotsInUse /\ client \in Clients /\ ops = Operations[client] /\ frame \in Nat
  BY DEF Control, Typed, Frames
<1>1. /\ HostWrite(slot, frame, bufs) /\ Advance /\ AtStep("upload")
      /\ UNCHANGED <<pending, fence, available, lost, programVars, op, frame, slot,
                     next_slot, in_flight, submitted, outcome>>
  BY DEF Upload
<1>2. /\ client' = client /\ ops' = ops /\ in_flight' = in_flight /\ op' = op /\ lost' = lost
      /\ submitted' = submitted /\ slot' = slot /\ frame' = frame /\ HasLut' = HasLut
      /\ pending' = pending /\ outcome' = outcome
      /\ \A s : Busy(s)' <=> Busy(s)
  BY <1>1 DEF programVars, HasLut, Busy
<1>3. /\ Place = "upload" /\ thread = "call" /\ slot \in Slots /\ op \in DOMAIN ops
      /\ Place' = IF client = "raw" THEN "submit" ELSE "reset"
      /\ thread' = "call"
      /\ (op = "lut" <=> frame = 0) /\ ~in_flight[slot]
  <2>1. /\ Place = "upload" /\ thread = "call" /\ slot \in Slots /\ op \in DOMAIN ops
        /\ Place' = After("upload")
        /\ thread' = IF After("upload") = "none" THEN "idle" ELSE "call"
    BY <1>0, <1>1, <1>2, Advances DEF StepNames
  <2>2. After("upload") = IF client = "raw" THEN "submit" ELSE "reset"
    BY DEF After
  <2> QED
    BY <1>0, <2>1, <2>2 DEF Typed, SlotsInUse
<1>4. /\ op # "lut" => bufs \subseteq Buffers /\ "image" \notin o.uploads
      /\ op = "lut" => bufs = {"staging"} /\ o.uploads = {"staging"} /\ "image" \notin o.results
      /\ bufs \subseteq Buffer
  BY <1>0, <1>3, OperationUses DEF Buffer, Shared
<1>5. /\ Shaped(mem')
      /\ \A b \in bufs :
           /\ mem'[Home(slot, b)].tag = <<frame, 0>>
           /\ mem'[Home(slot, b)].kind = IF b = "image" THEN "encoder" ELSE "host"
      /\ \A s \in Slots, b \in Buffer :
           b \notin bufs \/ (b \in Buffers /\ s # slot) => mem'[Home(s, b)] = mem[Home(s, b)]
  <2> HIDE DEF bufs
  <2> QED
    BY <1>1, <1>3, <1>4, HostWrites DEF Memory
<1> HIDE DEF o
<1>6. \A s \in Slots, b \in Buffers : Home(s, b) = <<s, b>> /\ b \in Buffer
  BY HomeApart DEF Buffer
<1>7. \A b \in Shared : Home(slot, b) = <<NumSlots, b>> /\ b \in Buffer /\ b \notin Buffers
  BY DEF Home, Buffer, Shared, Buffers, CameraRgb, RcdScratch
<1>8. Executed'
  <2> SUFFICES ASSUME ~lost, NEW i \in 1..Len(pending)
               PROVE  ExecutedRight(ops[pending[i].op], pending[i], mem')
    BY <1>2 DEF Executed
  <2>1. /\ pending[i].slot \in Slots /\ slot # pending[i].slot /\ pending[i].op # "lut"
        /\ op # "lut"
    BY <1>3, AtWork
  <2>2. \A b \in Own(pending[i].op) : mem'[Home(pending[i].slot, b)] = mem[Home(pending[i].slot, b)]
    BY <1>5, <1>6, <2>1 DEF Own
  <2>3. ExecutedRight(ops[pending[i].op], pending[i], mem)
    BY DEF Memory, Executed
  <2> QED
    BY <2>2, <2>3, ExecutedElsewhere
<1>9. LutInPlace'
  <2>1. op # "lut" /\ HasLut => LutReady(mem')
    <3> SUFFICES ASSUME op # "lut", HasLut PROVE LutReady(mem')
      OBVIOUS
    <3>1. LutReady(mem)
      BY <1>0, <1>3 DEF Memory, LutInPlace
    <3>2. mem'[<<NumSlots, "lut">>] = mem[<<NumSlots, "lut">>]
      <4>1. "lut" \in Shared
        BY DEF Shared
      <4> QED
        BY <1>3, <1>4, <1>5, <1>7, <4>1
    <3> QED
      BY <3>1, <3>2 DEF LutReady
  <2> QED
    BY <1>2, <1>3, <2>1 DEF LutInPlace
<1>10. Uploaded'
  <2>1. \A b \in o.uploads : /\ mem'[Home(slot, b)].tag = <<frame, 0>>
                             /\ mem'[Home(slot, b)].kind = "host"
    BY <1>4, <1>5
  <2>2. "image" \in o.results => mem'[Home(slot, "image")].kind = "encoder"
    BY <1>5
  <2> QED
    BY <1>2, <2>1, <2>2 DEF Uploaded, o
<1>11. SlotsRested'
  <2> SUFFICES ASSUME ~lost, NEW s \in Slots, ~Busy(s), NEW b \in Buffers \ {"image"}
               PROVE  Seen(mem'[<<s, b>>])
    BY <1>2 DEF SlotsRested
  <2>1. Seen(mem[<<s, b>>])
    BY DEF Memory, SlotsRested
  <2>2. CASE b \in bufs /\ s = slot
    BY <1>5, <1>6, <2>2 DEF Seen
  <2>3. CASE ~(b \in bufs /\ s = slot)
    BY <1>5, <1>6, <2>1, <2>3
  <2> QED
    BY <2>2, <2>3
<1>12. SharedRested'
  <2> SUFFICES ASSUME op = "lut", NEW b \in Shared PROVE Seen(mem'[<<NumSlots, b>>])
    BY <1>2, <1>3 DEF SharedRested
  <2>1. Seen(mem[<<NumSlots, b>>])
    BY <1>3 DEF Memory, SharedRested
  <2>2. CASE b = "staging"
    BY <1>4, <1>5, <1>7, <2>2 DEF Seen
  <2>3. CASE b # "staging"
    BY <1>3, <1>4, <1>5, <1>7, <2>1, <2>3
  <2> QED
    BY <2>2, <2>3
<1>13. AwaitedLanded'
  BY <1>3 DEF AwaitedLanded
<1>14. RecycledLanded'
  <2> SUFFICES ASSUME client = "writer", NEW s \in Slots, in_flight[s], ~Busy(s),
                      NEW b \in ops[submitted[s].op].results \ {"image"}
               PROVE  Landed(ops[submitted[s].op], submitted[s].frame, b, mem'[Home(s, b)])
    BY <1>2 DEF RecycledLanded
  <2>1. submitted[s].op \in DOMAIN ops /\ submitted[s].op # "lut"
    BY <1>0 DEF SlotsInUse
  <2>2. b \in Buffers /\ s # slot
    BY <1>0, <1>3, <2>1, OperationUses
  <2>3. Landed(ops[submitted[s].op], submitted[s].frame, b, mem[Home(s, b)])
    BY DEF Memory, RecycledLanded
  <2> QED
    BY <1>5, <1>6, <2>2, <2>3
<1>15. NothingWrong'
  BY <1>2 DEF Memory, NothingWrong
<1> QED
  BY <1>5, <1>8, <1>9, <1>10, <1>11, <1>12, <1>13, <1>14, <1>15 DEF Memory

\* A submission finds what the host has written, and nothing of what was
\* there before.
LEMMA Submits == ASSUME Control, Memory, Submit PROVE Memory'
<1> DEFINE o == ops[op]
           new == [slot |-> slot, op |-> op, frame |-> frame, done |-> {}]
           n == Len(pending)
<1>0. Typed /\ SlotsInUse /\ client \in Clients /\ ops = Operations[client] /\ frame \in Nat
      /\ n \in Nat
  BY DEF Control, Typed, Frames
<1>1. /\ pending' = Append(pending, new) /\ ~lost /\ Advance /\ AtStep("submit")
      /\ mem' = [l \in Locations |->
                   IF mem[l].kind = "host" THEN [mem[l] EXCEPT !.vis = DeviceKinds] ELSE mem[l]]
      /\ submitted' = [submitted EXCEPT ![slot] = [op |-> op, frame |-> frame]]
      /\ in_flight' = [in_flight EXCEPT ![slot] =
                         client = "camera" \/ (client = "writer" /\ op # "lut")]
      /\ UNCHANGED <<fence, lost, programVars, op, frame, slot, next_slot, live, outcome>>
  BY DEF Submit, Enqueue
<1>2. /\ client' = client /\ ops' = ops /\ op' = op /\ lost' = lost
      /\ slot' = slot /\ frame' = frame /\ HasLut' = HasLut /\ outcome' = outcome
  BY <1>1 DEF programVars, HasLut
<1>3. /\ Place = "submit" /\ thread = "call" /\ slot \in Slots /\ op \in DOMAIN ops
      /\ Place' \in {"none", "wait"} /\ (op = "lut" => Place' = "wait")
      /\ thread' = IF Place' = "none" THEN "idle" ELSE "call"
      /\ (op = "lut" <=> frame = 0) /\ ~Busy(slot)
  <2>1. /\ Place = "submit" /\ thread = "call" /\ slot \in Slots /\ op \in DOMAIN ops
        /\ Place' = After("submit")
        /\ thread' = IF After("submit") = "none" THEN "idle" ELSE "call"
    BY <1>0, <1>1, <1>2, Advances DEF StepNames
  <2>2. After("submit") = IF client = "writer" /\ op # "lut" THEN "none" ELSE "wait"
    BY DEF After
  <2>3. \A i \in 1..n : slot # pending[i].slot
    BY <1>1, <2>1, AtWork
  <2> QED
    BY <1>0, <2>1, <2>2, <2>3 DEF Typed, Busy
<1>4. /\ Len(pending') = n + 1
      /\ \A i \in 1..n : pending'[i] = pending[i]
      /\ pending'[n + 1] = new
  <2> HIDE DEF new
  <2> QED
    BY <1>0, <1>1 DEF Typed
<1>5. PICK z : z = slot
  OBVIOUS
<1>6. Busy(z)' /\ \A s : s # z => (Busy(s)' <=> Busy(s))
  <2>1. Busy(z)'
    <3>1. n + 1 \in 1..Len(pending') /\ pending'[n + 1].slot = z
      BY <1>0, <1>4, <1>5
    <3> HIDE DEF n
    <3> QED
      BY <3>1 DEF Busy
  <2>2. ASSUME NEW s, s # z PROVE Busy(s)' <=> Busy(s)
    <3>1. \A i \in 1..(n + 1) : i \in 1..n \/ i = n + 1
      BY <1>0
    <3>2. \A i \in 1..n : i \in 1..(n + 1)
      BY <1>0
    <3>3. new.slot # s
      BY <1>5, <2>2
    <3> HIDE DEF new
    <3> QED
      BY <1>4, <3>1, <3>2, <3>3 DEF Busy
  <2> QED
    BY <2>1, <2>2
<1>7. /\ DOMAIN mem' = Locations
      /\ \A l \in Locations :
           /\ mem'[l].tag = mem[l].tag /\ mem'[l].kind = mem[l].kind
           /\ mem'[l].vis = IF mem[l].kind = "host" THEN DeviceKinds ELSE mem[l].vis
           /\ mem'[l] = [tag |-> mem'[l].tag, kind |-> mem'[l].kind, vis |-> mem'[l].vis]
           /\ mem[l].kind # "host" => mem'[l] = mem[l]
  <2>1. Shaped(mem)
    BY DEF Memory
  <2> SUFFICES ASSUME NEW l \in Locations
               PROVE  /\ mem'[l].tag = mem[l].tag /\ mem'[l].kind = mem[l].kind
                      /\ mem'[l].vis = IF mem[l].kind = "host" THEN DeviceKinds ELSE mem[l].vis
                      /\ mem'[l] = [tag |-> mem'[l].tag, kind |-> mem'[l].kind, vis |-> mem'[l].vis]
                      /\ mem[l].kind # "host" => mem'[l] = mem[l]
    BY <1>1
  <2>2. mem[l] = [tag |-> mem[l].tag, kind |-> mem[l].kind, vis |-> mem[l].vis]
    BY <2>1 DEF Shaped
  <2>3. CASE mem[l].kind = "host"
    <3>1. mem'[l] = [mem[l] EXCEPT !.vis = DeviceKinds]
      BY <1>1, <2>3
    <3>2. mem'[l] = [tag |-> mem[l].tag, kind |-> mem[l].kind, vis |-> DeviceKinds]
      BY <2>2, <3>1, WithVis
    <3> QED
      BY <2>3, <3>2
  <2>4. CASE mem[l].kind # "host"
    BY <1>1, <2>2, <2>4
  <2> QED
    BY <2>3, <2>4
<1>8. Shaped(mem')
  BY <1>7 DEF Shaped
<1>9. \A s \in Slots, b \in Buffers : Home(s, b) = <<s, b>> /\ Home(s, b) \in Locations
  BY HomeApart DEF Buffer
<1>10. \A s \in Slots, b \in Shared : Home(s, b) = <<NumSlots, b>> /\ Home(s, b) \in Locations
  BY HomeApart DEF Buffer
<1>11. \A l \in Locations : Seen(mem[l]) => DeviceKinds \subseteq mem'[l].vis
  BY <1>7 DEF Seen
<1>12. Executed'
  <2>1. ASSUME NEW i \in 1..n
        PROVE  ExecutedRight(ops[pending[i].op], pending[i], mem')
    <3> DEFINE sub == pending[i]
               p == ops[sub.op]
    <3>1. ExecutedRight(p, sub, mem)
      BY <1>1 DEF Memory, Executed
    <3>2. sub.slot \in Slots /\ sub.op \in DOMAIN ops
      BY <1>1, AtWork
    <3>3. \A b \in Own(sub.op) : Home(sub.slot, b) \in Locations
      BY <1>9, <1>10, <3>2 DEF Own
    <3>4. "image" \in Own(sub.op) =>
            \A k \in 1..Len(p.stream) : \A x \in p.stream[k].scope :
              x[1] = "image" => "image" \in p.results
      <4>1. SharesRight(p, sub.op, DOMAIN ops)
        BY <1>0, <3>2, OperationUses DEF Synchronized
      <4> QED
        BY <4>1 DEF SharesRight, Own, Shared
    <3>5. sub.done \subseteq 1..Len(p.stream) /\ DownClosed(p, sub.done)
      BY <3>1 DEF ExecutedRight
    <3>6. ASSUME NEW b \in Own(sub.op), NEW j \in 0..Len(p.stream), LastDone(p, sub.done, j, b)
          PROVE  BufferIs(p, sub, j, b, mem'[Home(sub.slot, b)])
      <4> DEFINE cell == mem[Home(sub.slot, b)]
                 next == mem'[Home(sub.slot, b)]
      <4>1. BufferIs(p, sub, j, b, cell)
        BY <3>1, <3>6 DEF ExecutedRight
      <4>2. /\ next.tag = cell.tag /\ next.kind = cell.kind
            /\ next.vis = IF cell.kind = "host" THEN DeviceKinds ELSE cell.vis
            /\ cell.kind # "host" => next = cell
        BY <1>7, <3>3
      <4> HIDE DEF cell, next, p, sub
      <4>3. CASE j > 0
        <5>1. cell.kind # "host"
          BY <4>1, <4>3 DEF BufferIs, KindOf, WriteKind
        <5> QED
          BY <4>1, <4>2, <5>1 DEF next
      <4>4. CASE j = 0 /\ b # "image"
        <5>1. DeviceKinds \subseteq next.vis
          BY <4>1, <4>2, <4>4 DEF BufferIs
        <5> QED
          BY <4>1, <4>2, <4>4, <5>1 DEF BufferIs, next
      <4>5. CASE j = 0 /\ b = "image" /\ b \in p.results
        <5>1. cell.kind # "host"
          BY <4>1, <4>5 DEF BufferIs
        <5> QED
          BY <4>1, <4>2, <5>1 DEF next
      <4>6. CASE j = 0 /\ b = "image" /\ b \notin p.results
        <5>1. \A m \in sub.done : \A x \in p.stream[m].scope : x[1] # b
          BY <3>4, <3>5, <4>6
        <5> QED
          BY <4>1, <4>2, <4>6, <5>1 DEF BufferIs, next
      <4> QED
        BY <4>3, <4>4, <4>5, <4>6
    <3> QED
      BY <3>5, <3>6 DEF ExecutedRight
  <2>2. ExecutedRight(o, new, mem')
    <3>1. DownClosed(o, {}) /\ new.done = {} /\ new.op = op /\ new.slot = slot /\ new.frame = frame
      BY DEF DownClosed
    <3>2. ASSUME NEW b \in Own(op) PROVE BufferIs(o, new, 0, b, mem'[Home(slot, b)])
      <4> DEFINE cell == mem'[Home(slot, b)]
      <4>1. Home(slot, b) \in Locations
        BY <1>3, <1>9, <1>10 DEF Own
      <4>2. b \in o.uploads => cell.tag = <<frame, 0>>
        BY <1>3, <1>7, <4>1 DEF Memory, Uploaded
      <4>3. b = "image" /\ b \in o.results => cell.kind = "encoder"
        BY <1>3, <1>7, <4>1 DEF Memory, Uploaded
      <4>4. b # "image" => DeviceKinds \subseteq cell.vis
        <5> SUFFICES ASSUME b # "image" PROVE Seen(mem[Home(slot, b)])
          BY <1>11, <4>1
        <5>1. CASE op = "lut"
          <6>1. b \in Shared
            BY <5>1 DEF Own
          <6> QED
            BY <1>3, <1>10, <5>1, <6>1 DEF Memory, SharedRested
        <5>2. CASE op # "lut"
          <6>1. b \in Buffers \ {"image"}
            BY <5>2 DEF Own
          <6> QED
            BY <1>1, <1>3, <1>9, <6>1 DEF Memory, SlotsRested
        <5> QED
          BY <5>1, <5>2
      <4> HIDE DEF cell, o, new
      <4> QED
        BY <3>1, <4>2, <4>3, <4>4 DEF BufferIs, cell
    <3>3. \A b, j : LastDone(o, {}, j, b) /\ j \in 0..Len(o.stream) => j = 0
      <4>1. Len(o.stream) \in Nat
        BY <1>0, <1>3, OperationUses DEF Synchronized, WellFormed
      <4> QED
        BY <4>1 DEF LastDone
    <3> HIDE DEF o, new
    <3> QED
      BY <3>1, <3>2, <3>3 DEF ExecutedRight
  <2>3. \A i \in 1..(n + 1) : i \in 1..n \/ i = n + 1
    BY <1>0
  <2>4. new.op = op
    OBVIOUS
  <2> HIDE DEF new, n
  <2> QED
    BY <1>2, <1>4, <2>1, <2>2, <2>3, <2>4 DEF Executed
<1>13. LutInPlace'
  <2>1. op # "lut" /\ HasLut => LutReady(mem')
    <3> SUFFICES ASSUME op # "lut", HasLut PROVE LutReady(mem')
      OBVIOUS
    <3>1. LutReady(mem)
      BY <1>0, <1>3 DEF Memory, LutInPlace
    <3>2. <<NumSlots, "lut">> \in Locations /\ "R" \in DeviceKinds
      BY DEF Locations, Shared, DeviceKinds
    <3> QED
      BY <1>7, <3>1, <3>2 DEF LutReady
  <2>2. Busy(slot)'
    BY <1>2, <1>5, <1>6
  <2> QED
    BY <1>2, <1>3, <2>1, <2>2 DEF LutInPlace
<1>14. Uploaded'
  BY <1>3 DEF Uploaded
<1>15. SlotsRested'
  <2> SUFFICES ASSUME NEW s \in Slots, ~Busy(s)', NEW b \in Buffers \ {"image"}
               PROVE  Seen(mem'[<<s, b>>])
    BY <1>2 DEF SlotsRested
  <2>1. Seen(mem[<<s, b>>])
    BY <1>1, <1>6 DEF Memory, SlotsRested
  <2> QED
    BY <1>9, <1>11, <2>1 DEF Seen
<1>16. SharedRested'
  BY <1>3 DEF SharedRested
<1>17. AwaitedLanded'
  <2>1. Busy(slot)'
    BY <1>2, <1>5, <1>6
  <2> QED
    BY <1>3, <2>1 DEF AwaitedLanded
<1>18. RecycledLanded'
  <2> SUFFICES ASSUME client = "writer", NEW s \in Slots, in_flight'[s], ~Busy(s)',
                      NEW b \in ops[submitted'[s].op].results \ {"image"}
               PROVE  Landed(ops[submitted'[s].op], submitted'[s].frame, b, mem'[Home(s, b)])
    BY <1>2 DEF RecycledLanded
  <2>1. s # slot /\ ~Busy(s)
    BY <1>5, <1>6
  <2>2. in_flight[s] /\ submitted'[s] = submitted[s]
    BY <1>0, <1>1, <2>1 DEF Typed
  <2>3. submitted[s].op \in DOMAIN ops /\ submitted[s].op # "lut"
    BY <1>0, <2>2 DEF SlotsInUse
  <2>4. b \in Buffers
    BY <1>0, <2>2, <2>3, OperationUses
  <2>5. Landed(ops[submitted[s].op], submitted[s].frame, b, mem[Home(s, b)])
    BY <2>1, <2>2 DEF Memory, RecycledLanded
  <2>6. mem'[Home(s, b)] = mem[Home(s, b)]
    BY <1>7, <1>9, <2>4, <2>5 DEF Landed
  <2> QED
    BY <2>2, <2>5, <2>6
<1>19. NothingWrong'
  BY <1>2 DEF Memory, NothingWrong
<1> QED
  BY <1>8, <1>12, <1>13, <1>14, <1>15, <1>16, <1>17, <1>18, <1>19 DEF Memory

\* Memory is inductive, given Control, until cleanup() destroys the buffers.
LEMMA MemoryNext == Control /\ Memory /\ [Next]_vars => Memory' \/ CleanupDestroy
<1> SUFFICES ASSUME Control, Memory, [Next]_vars, ~CleanupDestroy PROVE Memory'
  OBVIOUS
<1>1. CASE Execute(ops) /\ UNCHANGED clientVars
  BY <1>1, Executes
<1>2. CASE Gpu /\ ~(Execute(ops) /\ UNCHANGED clientVars)
  BY <1>2, Completes
<1>3. CASE Prepare \/ ResetFence \/ Wait \/ ReadResults
  BY <1>3, ThreadSteps
<1>4. CASE \/ Create \/ CreateFails \/ Call \/ PrepareRejects \/ ReadRejects \/ StepFails
           \/ Destroy \/ CleanupSlot \/ CleanupGivesUp
  BY <1>4, OtherSteps
<1>5. CASE Upload
  BY <1>5, Uploads
<1>6. CASE Submit
  BY <1>6, Submits
<1>7. CASE (DeviceLost /\ UNCHANGED clientVars) \/ UNCHANGED vars
  <2>1. Quiet /\ UNCHANGED clientVars
    BY <1>7 DEF DeviceLost, Quiet, vars, queueVars, clientVars
  <2>2. /\ Shaped(mem') /\ Executed' /\ SlotsRested'
        /\ client' = client /\ ops' = ops /\ HasLut' = HasLut /\ mem' = mem
        /\ \A s : Busy(s)' <=> Busy(s)
    BY <2>1, QuietKeeps
  <2>3. /\ thread' = thread /\ op' = op /\ frame' = frame /\ slot' = slot
        /\ in_flight' = in_flight /\ submitted' = submitted /\ outcome' = outcome
        /\ Place' = Place
    BY <2>1 DEF clientVars, programVars, Place, Steps
  <2>4. LutInPlace' /\ Uploaded' /\ SharedRested'
    BY <2>2, <2>3 DEF Memory, LutInPlace, Uploaded, SharedRested
  <2>5. AwaitedLanded' /\ RecycledLanded' /\ NothingWrong'
    BY <2>2, <2>3 DEF Memory, AwaitedLanded, RecycledLanded, NothingWrong
  <2> QED
    BY <2>2, <2>4, <2>5 DEF Memory
<1> QED
  BY <1>1, <1>2, <1>3, <1>4, <1>5, <1>6, <1>7 DEF Next, Gpu, Host, Caller

\* Both hold at first.
LEMMA ControlInit == Init => Control
<1> SUFFICES ASSUME Init PROVE Control
  OBVIOUS
<1>1. /\ client \in Clients /\ ops = Operations[client] /\ QueueInit(client = "raw")
      /\ thread = "construct" /\ frame = 0 /\ slot = 0 /\ next_slot = 0
      /\ in_flight = [s \in Slots |-> FALSE] /\ submitted = [s \in Slots |-> None]
      /\ outcome = [f \in Frames |-> "none"]
  BY DEF Init
<1>2. /\ pending = << >> /\ fence = [s \in Slots |-> client = "raw"] /\ lost = FALSE
  BY <1>1 DEF QueueInit
<1>3. Typed
  <2>1. 0 \in Frames /\ 0 \in 0..NumSlots /\ 0 \in Slots
    BY NumSlotsAssumption, MaxCallsAssumption DEF Frames, Slots
  <2>2. pending \in Seq(Submissions)
    BY <1>2
  <2>3. submitted \in [Slots -> [op : DOMAIN ops \cup {"none"}, frame : Frames]]
    BY <1>1, <2>1 DEF None
  <2>4. /\ in_flight \in [Slots -> BOOLEAN] /\ fence \in [Slots -> BOOLEAN] /\ lost \in BOOLEAN
        /\ outcome \in [Frames -> {"none", "good", "garbage"}]
    BY <1>1, <1>2
  <2> QED
    BY <1>1, <2>1, <2>2, <2>3, <2>4 DEF Typed
<1>4. Place = "none"
  BY <1>1 DEF Place
<1>5. SlotsInUse
  BY <1>1, <1>2, <1>4 DEF SlotsInUse
<1>6. OneEach
  BY <1>2 DEF OneEach
<1> QED
  BY <1>3, <1>5, <1>6 DEF Control

\* No frame has an outcome and no buffer hides anything.
LEMMA MemoryInit == Init => Memory
<1> SUFFICES ASSUME Init PROVE Memory
  OBVIOUS
<1>1. /\ thread = "construct" /\ frame = 0 /\ in_flight = [s \in Slots |-> FALSE]
      /\ outcome = [f \in Frames |-> "none"] /\ pending = << >>
      /\ mem = [l \in Locations |-> [tag |-> Garbage, kind |-> "none", vis |-> DeviceKinds]]
      /\ Place = "none"
  BY DEF Init, QueueInit, Place
<1>2. Shaped(mem) /\ \A l \in Locations : Seen(mem[l])
  BY <1>1 DEF Shaped, Seen
<1>3. Executed /\ LutInPlace /\ Uploaded /\ AwaitedLanded /\ RecycledLanded /\ NothingWrong
  BY <1>1 DEF Executed, LutInPlace, Uploaded, AwaitedLanded, RecycledLanded, NothingWrong
<1>4. SlotsRested /\ SharedRested
  BY <1>2 DEF SlotsRested, SharedRested, Locations
<1> QED
  BY <1>2, <1>3, <1>4 DEF Memory

\* What the GPU still completes once the object is gone is right, or belongs
\* to a frame cleanup() has abandoned.
LEMMA GoneNext ==
  Control /\ ResultsAreComputed /\ thread = "gone" /\ [Next]_vars =>
    ResultsAreComputed' /\ thread' = "gone"
<1> SUFFICES ASSUME Control, ResultsAreComputed, thread = "gone", [Next]_vars
             PROVE  ResultsAreComputed' /\ thread' = "gone"
  OBVIOUS
<1>0. Typed /\ SlotsInUse
  BY DEF Control
<1>1. Gpu \/ (DeviceLost /\ UNCHANGED clientVars) \/ UNCHANGED vars
  BY DEF Next, Host, Caller, Create, CreateFails, Prepare, Upload, ResetFence, Submit, Wait,
         ReadResults, PrepareRejects, ReadRejects, StepFails, CleanupSlot, CleanupGivesUp,
         CleanupDestroy, Call, Destroy, AtStep
<1>2. thread' = thread /\ UNCHANGED <<programVars, in_flight, submitted>>
  BY <1>1 DEF Gpu, vars, clientVars
<1>3. \A f \in Frames : Abandoned(f)' <=> Abandoned(f)
  <2>1. \A r : HasStatus(r)' <=> HasStatus(r)
    BY <1>2 DEF HasStatus, programVars
  <2> QED
    BY <1>2, <2>1 DEF Abandoned, programVars
<1>4. CASE outcome' = outcome
  BY <1>2, <1>3, <1>4 DEF ResultsAreComputed
<1>5. CASE outcome' # outcome
  <2> DEFINE sub == pending[1]
  <2>1. Complete(ops, Coherent(client)) /\ pending \in Seq(Submissions)
    BY <1>0, <1>1, <1>5 DEF Gpu, vars, clientVars, Typed
  <2>2. pending # << >> /\ ~lost
    BY <2>1 DEF Complete
  <2>3. Head(pending) = sub /\ 1 \in 1..Len(pending)
    BY <2>1, <2>2, TailKeeps
  <2>4. \E result : outcome' = [outcome EXCEPT ![sub.frame] = result]
    <3> HIDE DEF sub
    <3> QED
      BY <1>1, <1>5, <2>3 DEF Gpu, vars, clientVars
  <2>5. sub.slot \in Slots /\ sub.frame \in Frames /\ SlotOfSubmission(sub)
    BY <2>3, NotBusy DEF Control, OneEach, Submissions
  <2> HIDE DEF sub
  <2>6. ~fence[sub.slot] /\ in_flight[sub.slot] /\ submitted[sub.slot].frame = sub.frame
    BY <2>2, <2>5 DEF SlotOfSubmission, Place
  <2>7. client = "writer" /\ \E r \in 0..(sub.slot - 1) : HasStatus(r)
    BY <1>0, <2>2, <2>5, <2>6 DEF SlotsInUse, DoneWaiting
  <2>8. Abandoned(sub.frame)
    BY <2>5, <2>6, <2>7 DEF Abandoned
  <2>9. \A f \in Frames : f # sub.frame => outcome'[f] = outcome[f]
    BY <1>0, <2>4 DEF Typed
  <2> QED
    BY <1>2, <1>3, <2>8, <2>9 DEF ResultsAreComputed
<1> QED
  BY <1>2, <1>4, <1>5

\* The buffers are as they should be until the object is gone; what the GPU
\* leaves after that has been reckoned with.
Computing == Control /\ ResultsAreComputed /\ (thread # "gone" => Memory)

\* Whatever the class, the number of slots and of calls, and whatever order
\* the GPU executes commands in, every image and every result is what the
\* recorded chain means it to be, but for the frames the writer's cleanup()
\* abandons in flight when it gives up at an earlier slot's status word.
\* (pack_impl, camera_to_dwg_*_for_test, calibrate, demosaic_rcd, pack,
\* submit_and_wait, recycle_slot, cleanup.)
THEOREM AlwaysComputed == Spec => []ResultsAreComputed
<1>1. Memory => ResultsAreComputed
  BY DEF Memory, NothingWrong, ResultsAreComputed
<1>2. Init => Computing
  BY <1>1, ControlInit, MemoryInit DEF Computing
<1>3. Computing /\ [Next]_vars => Computing'
  <2> SUFFICES ASSUME Computing, [Next]_vars PROVE Computing'
    OBVIOUS
  <2>1. Control'
    BY ControlNext DEF Computing
  <2>2. CASE thread = "gone"
    BY <2>1, <2>2, GoneNext DEF Computing
  <2>3. CASE thread # "gone" /\ CleanupDestroy
    <3>1. NothingWrong' /\ thread' = "gone"
      BY <2>3 DEF Computing, Memory, NothingWrong, CleanupDestroy
    <3> QED
      BY <2>1, <3>1 DEF Computing, NothingWrong, ResultsAreComputed
  <2>4. CASE thread # "gone" /\ ~CleanupDestroy
    <3>1. Memory'
      BY <2>4, MemoryNext DEF Computing
    <3>2. ResultsAreComputed'
      BY <3>1 DEF Memory, NothingWrong, ResultsAreComputed
    <3> QED
      BY <2>1, <3>1, <3>2 DEF Computing
  <2> QED
    BY <2>2, <2>3, <2>4
<1>4. Computing => ResultsAreComputed
  BY DEF Computing
<1> QED
  BY <1>2, <1>3, <1>4, PTL DEF Spec
=============================================================================
