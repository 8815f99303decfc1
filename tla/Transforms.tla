----------------------------- MODULE Transforms -----------------------------
(***************************************************************************)
(* Transform2D of transform.cpp: an affine map between two named spaces.   *)
(*                                                                         *)
(*   x' = (a x + b y + u) / den,   y' = (c x + d y + v) / den,   den > 0   *)
(*                                                                         *)
(* The coefficients are whole numbers over one denominator, so composition *)
(* and inversion are exact.  A fallible operation answers [status, value]. *)
(***************************************************************************)
EXTENDS Rects

Ok(value) == [status |-> "kOk", value |-> value]
Failed(status) == [status |-> status]
Then(result, Next(_)) == IF result.status = "kOk" THEN Next(result.value) ELSE result

FirstFailure(statuses) ==
  LET failed == {i \in DOMAIN statuses : statuses[i] # "kOk"}
  IN  IF failed = {} THEN "kOk" ELSE statuses[Min(failed)]

Requires(condition, failure) == IF condition THEN "kOk" ELSE failure

Transform(from, to, a, b, u, c, d, v, den) ==
  [from |-> from, to |-> to, a |-> a, b |-> b, u |-> u, c |-> c, d |-> d, v |-> v, den |-> den]

MakeIdentity(from, to) == Transform(from, to, 1, 0, 0, 0, 1, 0, 1)

\* Clockwise rotations of a raw image of w x h.
MakeRotation(rotation, w, h, from, to) ==
  CASE rotation = "k0"   -> MakeIdentity(from, to)
    [] rotation = "k90"  -> Transform(from, to, 0, -1, h, 1, 0, 0, 1)
    [] rotation = "k180" -> Transform(from, to, -1, 0, w, 0, -1, h, 1)
    [] rotation = "k270" -> Transform(from, to, 0, 1, 0, -1, 0, w, 1)

\* Scale factors are ratios.
MakeScale(sx, sy, from, to) ==
  Transform(from, to, sx[1] * sy[2], 0, 0, 0, sy[1] * sx[2], 0, sx[2] * sy[2])

MakeTranslation(dx, dy, from, to) == Transform(from, to, 1, 0, dx, 0, 1, dy, 1)

MakeCrop(crop, from, to) == MakeTranslation(-crop.x, -crop.y, from, to)

MakeMirror(horizontal, vertical, w, h, from, to) ==
  Transform(from, to, IF horizontal THEN -1 ELSE 1, 0, IF horizontal THEN w ELSE 0,
                      0, IF vertical THEN -1 ELSE 1, IF vertical THEN h ELSE 0, 1)

\* The scale is the smaller of the two ratios, the padding centers the image.
MakeLetterbox(sw, sh, dw, dh, from, to) ==
  LET scale == IF dw * sh <= dh * sw THEN <<dw, sw>> ELSE <<dh, sh>>
  IN  IF Min({sw, sh, dw, dh}) <= 0 THEN Failed("kInvalidArgument")
      ELSE Ok(Transform(from, to, 2 * scale[1], 0, dw * scale[2] - scale[1] * sw,
                                  0, 2 * scale[1], dh * scale[2] - scale[1] * sh, 2 * scale[2]))

\* The translation of the first map is taken over as it is.
Multiply_unscaled(second, first) ==
  Transform(first.from, second.to,
    second.a * first.a + second.b * first.c, second.a * first.b + second.b * first.d,
    first.u * second.den + second.u * first.den,
    second.c * first.a + second.d * first.c, second.c * first.b + second.d * first.d,
    first.v * second.den + second.v * first.den, first.den * second.den)

\* The matrix product second * first.
Multiply(second, first) ==
  Transform(first.from, second.to,
    second.a * first.a + second.b * first.c,
    second.a * first.b + second.b * first.d,
    second.a * first.u + second.b * first.v + second.u * first.den,
    second.c * first.a + second.d * first.c,
    second.c * first.b + second.d * first.d,
    second.c * first.u + second.d * first.v + second.v * first.den,
    first.den * second.den)

Compose(first, second) ==
  IF first.to # second.from THEN Failed("kCoordinateTransform") ELSE Ok(Multiply(second, first))

Inverse2D(t) ==
  LET det == t.a * t.d - t.b * t.c
      s == IF det < 0 THEN -1 ELSE 1
  IN  IF det = 0 THEN Failed("kCoordinateTransform")
      ELSE Ok(Transform(t.to, t.from,
                s * t.den * t.d, -s * t.den * t.b, s * (t.b * t.v - t.u * t.d),
                -s * t.den * t.c, s * t.den * t.a, s * (t.u * t.c - t.a * t.v), s * det))

TransformPoint(t, point) ==
  <<(t.a * point[1] + t.b * point[2] + t.u) \div t.den,
    (t.c * point[1] + t.d * point[2] + t.v) \div t.den>>

TransformPoints(t, points) == [i \in DOMAIN points |-> TransformPoint(t, points[i])]

\* The bounding box of the mapped corners.
TransformRect(t, rect) == BoundingRect({TransformPoint(t, Corners(rect)[i]) : i \in 1 .. 4})

OrientedSize(rotation, w, h) == IF rotation \in {"k90", "k270"} THEN <<h, w>> ELSE <<w, h>>

\* Undoes OrientedSize: the raw image behind the oriented view of a frame.
RawDimensions(image) == OrientedSize(image.rotation, image.w, image.h)

FrameToOriented(image) ==
  MakeRotation(image.rotation, RawDimensions(image)[1], RawDimensions(image)[2], "kFrame", "kOriented")
=============================================================================
