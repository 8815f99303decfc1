-------------------------------- MODULE Rects --------------------------------
(***************************************************************************)
(* Axis-aligned rectangles [x, y, w, h] over the integers, the measures of *)
(* rect_math.h and the operations of geometry.cpp.  A ratio is a pair of   *)
(* integers <<numerator, denominator>>, compared without division.         *)
(***************************************************************************)
EXTENDS Integers, Sequences, FiniteSets, FiniteSetsExt

RectRecord == [x : Int, y : Int, w : Int, h : Int]
Rect(x, y, w, h) == [x |-> x, y |-> y, w |-> w, h |-> h]

AtLeast(a, b) == a[1] * b[2] >= b[1] * a[2]
LessThan(a, b) == ~AtLeast(a, b)
SameRatio(a, b) == a[1] * b[2] = b[1] * a[2]
Zero == <<0, 1>>
One == <<1, 1>>

Area(a) == a.w * a.h

\* The length of the overlap of two intervals.
Overlap(begin, length, otherBegin, otherLength) ==
  Max({0, Min({begin + length, otherBegin + otherLength}) - Max({begin, otherBegin})})

IntersectionArea(a, b) == Overlap(a.x, a.w, b.x, b.w) * Overlap(a.y, a.h, b.y, b.h)

Iou(a, b) ==
  LET inter == IntersectionArea(a, b)
      joint == Area(a) + Area(b) - inter
  IN  IF joint > 0 THEN <<inter, joint>> ELSE Zero

\* Twice the center, which is whole.
Center2(a) == <<2 * a.x + a.w, 2 * a.y + a.h>>

CenterInside(outer, inner) ==
  LET c == Center2(inner)
  IN  /\ 2 * outer.x <= c[1] /\ c[1] < 2 * (outer.x + outer.w)
      /\ 2 * outer.y <= c[2] /\ c[2] < 2 * (outer.y + outer.h)

\* Four times the squared distance of the centers.
CenterDistance2(a, b) ==
  LET p == Center2(a)
      q == Center2(b)
  IN  (p[1] - q[1]) * (p[1] - q[1]) + (p[2] - q[2]) * (p[2] - q[2])

Diagonal2(a) == a.w * a.w + a.h * a.h

\* The square root of a perfect square.
Root(n) == CHOOSE r \in 0 .. n : r * r = n

Union(a, b) ==
  LET left == Min({a.x, b.x})
      top == Min({a.y, b.y})
  IN  Rect(left, top, Max({a.x + a.w, b.x + b.w}) - left, Max({a.y + a.h, b.y + b.h}) - top)

(***************************************************************************)
(* Pixel rectangles, whose components are integers of 32 bits.             *)
(***************************************************************************)
CONSTANT IntMax

ASSUME IntMaxIsWhole == IntMax \in Nat

IntMin == -IntMax - 1
Clamp(v, low, high) == Max({low, Min({v, high})})

IsValid(a) == a.w >= 0 /\ a.h >= 0 /\ a.x <= IntMax - a.w /\ a.y <= IntMax - a.h

SaturatedDelta(begin, end) == Min({IntMax, Max({0, end - begin})})

Intersect(a, b) ==
  LET left == Max({a.x, b.x})
      top == Max({a.y, b.y})
  IN  Rect(Clamp(left, IntMin, IntMax), Clamp(top, IntMin, IntMax),
           SaturatedDelta(left, Min({a.x + a.w, b.x + b.w})),
           SaturatedDelta(top, Min({a.y + a.h, b.y + b.h})))

RectContains(outer, inner) ==
  /\ inner.x >= outer.x /\ inner.x + inner.w <= outer.x + outer.w
  /\ inner.y >= outer.y /\ inner.y + inner.h <= outer.y + outer.h

ContainsPoint(a, point) ==
  /\ a.w > 0 /\ a.h > 0
  /\ a.x <= point[1] /\ point[1] < a.x + a.w
  /\ a.y <= point[2] /\ point[2] < a.y + a.h

Corners(a) == <<<<a.x, a.y>>, <<a.x + a.w, a.y>>, <<a.x + a.w, a.y + a.h>>, <<a.x, a.y + a.h>>>>

BoundingRect(points) ==
  IF points = {} THEN Rect(0, 0, 0, 0)
  ELSE LET xs == {p[1] : p \in points}
           ys == {p[2] : p \in points}
       IN  Rect(Min(xs), Min(ys), Max(xs) - Min(xs), Max(ys) - Min(ys))
=============================================================================
