---------------------------- MODULE RcdDemosaic ----------------------------
(***************************************************************************)
(* The eight passes of rcd_demosaic.comp.glsl, as what an invocation may   *)
(* touch: one invocation runs per pixel, the invocations of a pass run in  *)
(* any order and at the same time, and a pass ends with a barrier.  The    *)
(* arithmetic is left out; where an invocation reads one of two buffers    *)
(* the choice is kept, and every guard and index is.                       *)
(*                                                                         *)
(* A cell is <<buffer, index>>.  aux_a, aux_b and aux_c hold a value for   *)
(* every two pixels (index / 2).                                           *)
(*                                                                         *)
(* Definitions marked Faulty are not part of the specification: each is    *)
(* the definition after it with one plausible mistake.                     *)
(***************************************************************************)
EXTENDS Integers, FiniteSets

CfaPatterns == 0..3
Passes == 0..7

\* A grid is [w, h, cfa]: the push constants of a dispatch.
At(g, x, y) == y * g.w + x
Pixels(g) == (0..(g.w - 1)) \X (0..(g.h - 1))

\* 0 red, 1 green, 2 blue; the patterns are RGGB, BGGR, GRBG and GBRG.
ColorAt(g, x, y) ==
  LET phase == (y % 2) * 2 + (x % 2) + 1
  IN  CASE g.cfa = 0 -> <<0, 1, 1, 2>>[phase]
        [] g.cfa = 1 -> <<2, 1, 1, 0>>[phase]
        [] g.cfa = 2 -> <<1, 0, 2, 1>>[phase]
        [] OTHER -> <<1, 2, 0, 1>>[phase]

-----------------------------------------------------------------------------
(* Neighbourhoods, as sets of offsets.                                     *)

Centre == {<<0, 0>>}
Across(D) == {<<d, 0>> : d \in D} \cup {<<-d, 0>> : d \in D}
Down(D) == {<<0, d>> : d \in D} \cup {<<0, -d>> : d \in D}
Plus(D) == Across(D) \cup Down(D)
Diagonal(D) == {<<a * d, b * d>> : a \in {-1, 1}, b \in {-1, 1}, d \in D}

\* The cells of buffer b around a pixel.
Around(g, b, x, y, offsets) ==
  {<<b, At(g, x + o[1], y + o[2])>> : o \in offsets}

\* The pixel is at least m pixels from every border.
Inside(g, x, y, m) == x >= m /\ x + m < g.w /\ y >= m /\ y + m < g.h

Access(reads, writes) == [reads |-> reads, writes |-> writes]
NoAccess == Access({}, {})

-----------------------------------------------------------------------------
(* The passes.                                                             *)

Initialize(g, x, y) ==
  LET i == At(g, x, y)
  IN  Access({<<"calibrated", i>>},
             {<<b, i>> : b \in {"cfa", "red", "green", "blue", "vh", "aux_a",
                                "aux_b", "aux_c"}})

DirectionLpf(g, x, y) ==
  LET i == At(g, x, y)
      vh == IF Inside(g, x, y, 4)
            THEN Access(Around(g, "cfa", x, y, Plus(0..4)), {<<"vh", i>>})
            ELSE NoAccess
      lpf == IF Inside(g, x, y, 2) /\ ColorAt(g, x, y) # 1
             THEN Access(Around(g, "cfa", x, y, Plus({0, 1}) \cup Diagonal({1})),
                         {<<"aux_a", i \div 2>>})
             ELSE NoAccess
  IN  Access(vh.reads \cup lpf.reads, vh.writes \cup lpf.writes)

Green(g, x, y) ==
  LET i == At(g, x, y)
      lp == i \div 2
  IN  IF Inside(g, x, y, 4) /\ ColorAt(g, x, y) # 1
      THEN Access(Around(g, "cfa", x, y, Plus(0..4))
                    \cup {<<"aux_a", lp + d>> : d \in {0, -g.w, g.w, -1, 1}}
                    \cup Around(g, "vh", x, y, Centre \cup Diagonal({1})),
                  {<<"green", i>>})
      ELSE NoAccess

\* Faulty: every pixel of a pair computes the value of the pair.
PqHpfEvery(g, x, y) ==
  LET half == At(g, x, y) \div 2
  IN  IF Inside(g, x, y, 3)
      THEN Access(Around(g, "cfa", x, y, Diagonal(0..3)),
                  {<<"aux_b", half>>, <<"aux_c", half>>})
      ELSE NoAccess

PqHpf(g, x, y) ==
  LET half == At(g, x, y) \div 2
  IN  IF Inside(g, x, y, 3) /\ x % 2 = 1
      THEN Access(Around(g, "cfa", x, y, Diagonal(0..3)),
                  {<<"aux_b", half>>, <<"aux_c", half>>})
      ELSE NoAccess

\* The half-size cells of a pixel and of its diagonal neighbours.
HalfCentre(g, x, y) == At(g, x, y) \div 2
HalfNw(g, x, y) == (At(g, x, y) - g.w - 1) \div 2
HalfSw(g, x, y) == (At(g, x, y) + g.w - 1) \div 2

PqDirection(g, x, y) ==
  LET centre == HalfCentre(g, x, y)
      nw == HalfNw(g, x, y)
      sw == HalfSw(g, x, y)
  IN  IF Inside(g, x, y, 4) /\ ColorAt(g, x, y) # 1
      THEN Access({<<"aux_b", c>> : c \in {nw, centre, sw + 1}}
                    \cup {<<"aux_c", c>> : c \in {nw + 1, centre, sw}},
                  {<<"aux_a", centre>>})
      ELSE NoAccess

\* At a red pixel blue is read around it and written, at a blue one red.
OppositeColor(g, x, y) ==
  LET other == IF ColorAt(g, x, y) = 0 THEN "blue" ELSE "red"
      nw == HalfNw(g, x, y)
      sw == HalfSw(g, x, y)
  IN  IF Inside(g, x, y, 4) /\ ColorAt(g, x, y) # 1
      THEN Access({<<"aux_a", c>> : c \in {HalfCentre(g, x, y), nw, nw + 1,
                                           sw, sw + 1}}
                    \cup Around(g, other, x, y, Diagonal({1, 3}))
                    \cup Around(g, "green", x, y, Centre \cup Diagonal({1, 2})),
                  {<<other, At(g, x, y)>>})
      ELSE NoAccess

GreenColor(g, x, y) ==
  IF Inside(g, x, y, 4) /\ ColorAt(g, x, y) = 1
  THEN Access(Around(g, "vh", x, y, Centre \cup Diagonal({1}))
                \cup Around(g, "green", x, y, Centre \cup Plus({1, 2}))
                \cup Around(g, "red", x, y, Plus({1, 3}))
                \cup Around(g, "blue", x, y, Plus({1, 3})),
              {<<"red", At(g, x, y)>>, <<"blue", At(g, x, y)>>})
  ELSE NoAccess

Final(g, x, y) ==
  LET own == {<<b, At(g, x, y)>> : b \in {"red", "green", "blue"}}
      near == {o \in (-1..1) \X (-1..1) :
                 /\ x + o[1] \in 0..(g.w - 1)
                 /\ y + o[2] \in 0..(g.h - 1)}
  IN  IF Inside(g, x, y, 9)
      THEN Access(own, own)
      ELSE Access(Around(g, "calibrated", x, y, near), own)

Pass(n, g, x, y) ==
  CASE n = 0 -> Initialize(g, x, y)
    [] n = 1 -> DirectionLpf(g, x, y)
    [] n = 2 -> Green(g, x, y)
    [] n = 3 -> PqHpf(g, x, y)
    [] n = 4 -> PqDirection(g, x, y)
    [] n = 5 -> OppositeColor(g, x, y)
    [] n = 6 -> GreenColor(g, x, y)
    [] OTHER -> Final(g, x, y)

-----------------------------------------------------------------------------
(* A whole pass over a grid.                                               *)

\* No invocation writes a cell another one reads or writes: every cell has
\* one writer, and of the cells written an invocation reads only its own.
RaceFree(n, g) ==
  LET do == [p \in Pixels(g) |-> Pass(n, g, p[1], p[2])]
      written == UNION {do[p].writes : p \in Pixels(g)}
      writes == UNION {{<<p, c>> : c \in do[p].writes} : p \in Pixels(g)}
  IN  /\ Cardinality(writes) = Cardinality(written)
      /\ \A p \in Pixels(g) : (do[p].reads \cap written) \subseteq do[p].writes

\* Every buffer holds a value per pixel.
InBounds(n, g) ==
  \A p \in Pixels(g) :
    LET do == Pass(n, g, p[1], p[2])
    IN  \A c \in do.reads \cup do.writes : c[2] \in 0..(g.w * g.h - 1)

\* The buffers a pass reads and writes, and those it does not fill whole.
\* A buffer it fills in part keeps earlier values there: that is a read of it.
PassAccess(n, g) ==
  LET do == [p \in Pixels(g) |-> Pass(n, g, p[1], p[2])]
      read == UNION {do[p].reads : p \in Pixels(g)}
      written == UNION {do[p].writes : p \in Pixels(g)}
      names == {c[1] : c \in written}
      partial == {b \in names :
                    Cardinality({c \in written : c[1] = b}) < g.w * g.h}
  IN  Access({c[1] : c \in read} \cup partial, names)
=============================================================================
