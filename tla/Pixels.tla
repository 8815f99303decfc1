------------------------------- MODULE Pixels -------------------------------
(***************************************************************************)
(* Images and the primitives of src/image that produce new ones.  An image *)
(* is a record                                                             *)
(*                                                                         *)
(*   format, w, h, rotation                                                *)
(*   pixels  <<x, y>> |-> the channels of the pixel                        *)
(*   chroma  <<byte, row>> |-> byte of the second plane, NV12 only         *)
(*                                                                         *)
(* Row strides are left out: a view is what its rows contain.  The sizes   *)
(* of the perceptual hash (9 x 8 in the code) are parameters.              *)
(***************************************************************************)
EXTENDS Transforms, SequencesExt

CONSTANTS MaxDimension, HashWidth, HashHeight

ASSUME MaxDimensionIsWhole == MaxDimension \in Nat

Formats == {"kGray8", "kRgb8", "kBgr8", "kRgba8", "kBgra8", "kNv12"}
Rotations == {"k0", "k90", "k180", "k270"}

BytesPerPixel(format) ==
  CASE format \in {"kGray8", "kNv12"} -> 1
    [] format \in {"kRgb8", "kBgr8"} -> 3
    [] format \in {"kRgba8", "kBgra8"} -> 4

PlaneCount(format) == IF format = "kNv12" THEN 2 ELSE 1

\* The second plane of NV12 holds a pair of bytes for each two columns.
ChromaBytes(w) == w + (w % 2)
ChromaRows(h) == (h + 1) \div 2

Grid(w, h) == (0 .. w - 1) \X (0 .. h - 1)
ChromaGrid(format, w, h) ==
  IF PlaneCount(format) = 2 THEN Grid(ChromaBytes(w), ChromaRows(h)) ELSE {}

Image(format, w, h, pixels, chroma) ==
  [format |-> format, w |-> w, h |-> h, rotation |-> "k0", pixels |-> pixels, chroma |-> chroma]

ValidImage(image) ==
  /\ image.format \in Formats /\ image.rotation \in Rotations
  /\ image.w \in 1 .. MaxDimension /\ image.h \in 1 .. MaxDimension
  /\ DOMAIN image.pixels = Grid(image.w, image.h)
  /\ DOMAIN image.chroma = ChromaGrid(image.format, image.w, image.h)

\* ImageBuffer::create: a buffer of zeros within the byte budget.
Buffer(format, w, h, max) ==
  IF format \notin Formats \/ w \notin 1 .. MaxDimension \/ h \notin 1 .. MaxDimension
    THEN Failed("kInvalidArgument")
  ELSE IF w * h * BytesPerPixel(format) + Cardinality(ChromaGrid(format, w, h)) > max
    THEN Failed("kBudgetExceeded")
  ELSE Ok(Image(format, w, h,
                [p \in Grid(w, h) |-> [c \in 1 .. BytesPerPixel(format) |-> 0]],
                [p \in ChromaGrid(format, w, h) |-> 0]))

(***************************************************************************)
(* crop: the chroma rows are copied ceil(w / 2) bytes at a time, from the  *)
(* byte x / 2; the rest of the buffer stays zero.                          *)
(***************************************************************************)
CropChroma(image, roi, buffer) ==
  [p \in DOMAIN buffer.chroma |->
     IF p[1] < (roi.w + 1) \div 2 THEN image.chroma[<<roi.x \div 2 + p[1], roi.y \div 2 + p[2]>>]
     ELSE buffer.chroma[p]]

Crop(image, roi, max) ==
  IF ~ValidImage(image) THEN Failed("kInvalidArgument")
  ELSE IF ~IsValid(roi) \/ roi.w <= 0 \/ roi.h <= 0 \/ roi.x < 0 \/ roi.y < 0
          \/ ~RectContains(Rect(0, 0, image.w, image.h), roi)
    THEN Failed("kInvalidArgument")
  ELSE Then(Buffer(image.format, roi.w, roi.h, max), LAMBDA buffer :
         Ok([buffer EXCEPT
               !.pixels = [p \in DOMAIN @ |-> image.pixels[<<roi.x + p[1], roi.y + p[2]>>]],
               !.chroma = CropChroma(image, roi, buffer)]))

(***************************************************************************)
(* convert_color.                                                          *)
(***************************************************************************)
\* Where red, green, blue and alpha live; 0 for no alpha.
Layout(format) ==
  CASE format = "kRgb8" -> <<1, 2, 3, 0>> [] format = "kBgr8" -> <<3, 2, 1, 0>>
    [] format = "kRgba8" -> <<1, 2, 3, 4>> [] format = "kBgra8" -> <<3, 2, 1, 4>>

ToByte(v) == Clamp(v, 0, 255)

\* The red, green, blue and alpha that a conversion reads at p.
Channels(image, p) ==
  LET pixel == image.pixels[p]
      layout == Layout(image.format)
      u == image.chroma[<<(p[1] \div 2) * 2, p[2] \div 2>>] - 128
      v == image.chroma[<<(p[1] \div 2) * 2 + 1, p[2] \div 2>>] - 128
  IN  CASE image.format = "kGray8" -> <<pixel[1], pixel[1], pixel[1], 255>>
        [] image.format = "kNv12" ->
             <<ToByte(pixel[1] + (1436 * v) \div 1024),
               ToByte(pixel[1] - (352 * u + 731 * v) \div 1024),
               ToByte(pixel[1] + (1815 * u) \div 1024), 255>>
        [] OTHER -> [c \in 1 .. 4 |-> IF layout[c] = 0 THEN 255 ELSE pixel[layout[c]]]

Luma(image, p) ==
  LET rgb == Channels(image, p)
  IN  IF image.format = "kNv12" THEN image.pixels[p][1]
      ELSE (77 * rgb[1] + 150 * rgb[2] + 29 * rgb[3] + 128) \div 256

Placed(rgba, format) ==
  [b \in 1 .. BytesPerPixel(format) |-> rgba[CHOOSE c \in 1 .. 4 : Layout(format)[c] = b]]

ConvertColor(image, format, max) ==
  IF ~ValidImage(image) \/ format \notin Formats THEN Failed("kInvalidArgument")
  ELSE IF format = "kNv12" /\ image.format # format THEN Failed("kUnsupportedFormat")
  ELSE Then(Buffer(format, image.w, image.h, max), LAMBDA buffer :
         Ok(IF image.format = format
              THEN [buffer EXCEPT !.pixels = image.pixels, !.chroma = image.chroma]
            ELSE IF format = "kGray8"
              THEN [buffer EXCEPT !.pixels = [p \in DOMAIN @ |-> <<Luma(image, p)>>]]
            ELSE [buffer EXCEPT !.pixels = [p \in DOMAIN @ |-> Placed(Channels(image, p), format)]]))

(***************************************************************************)
(* resize_area: exact area weights, rounded to the nearest value.          *)
(***************************************************************************)
\* The share of source index s in destination d, scaled by the sizes.
Coverage(d, s, source, destination) == Overlap(d * source, source, s * destination, destination)

AreaMean(image, d, w, h, c) ==
  LET Share(p) == Coverage(d[1], p[1], image.w, w) * Coverage(d[2], p[2], image.h, h)
                    * image.pixels[p][c]
      total == image.w * image.h
  IN  ToByte((MapThenSumSet(Share, DOMAIN image.pixels) + (total \div 2)) \div total)

ResizeArea(image, w, h, max) ==
  LET format == IF image.format = "kNv12" THEN "kGray8" ELSE image.format
  IN  IF ~ValidImage(image) \/ w \notin 1 .. MaxDimension \/ h \notin 1 .. MaxDimension
        THEN Failed("kInvalidArgument")
      ELSE Then(Buffer(format, w, h, max), LAMBDA buffer :
             Ok([buffer EXCEPT !.pixels =
                   IF image.w = w /\ image.h = h THEN image.pixels
                   ELSE [d \in DOMAIN @ |-> [c \in 1 .. BytesPerPixel(format) |->
                                               AreaMean(image, d, w, h, c)]]]))

\* letterbox: the resized content, centered on a canvas of pad values, and the
\* transform that the executed pixels went through.
RoundedSize(size, ratio, limit) == Clamp((2 * size * ratio[1] + ratio[2]) \div (2 * ratio[2]), 1, limit)

Letterbox(image, w, h, pad, from, to, max) ==
  LET ratio == IF w * image.h <= h * image.w THEN <<w, image.w>> ELSE <<h, image.h>>
      rw == RoundedSize(image.w, ratio, w)
      rh == RoundedSize(image.h, ratio, h)
      offset == <<(w - rw) \div 2, (h - rh) \div 2>>
      Pasted(canvas, content) ==
        [p \in DOMAIN canvas |->
           LET q == <<p[1] - offset[1], p[2] - offset[2]>>
           IN  IF q \in DOMAIN content THEN content[q] ELSE [c \in DOMAIN canvas[p] |-> pad]]
  IN  IF ~ValidImage(image) THEN Failed("kInvalidArgument")
      ELSE IF image.format = "kNv12" THEN Failed("kUnsupportedFormat")
      ELSE IF w \notin 1 .. MaxDimension \/ h \notin 1 .. MaxDimension THEN Failed("kInvalidArgument")
      ELSE Then(ResizeArea(image, rw, rh, max), LAMBDA resized :
           Then(Buffer(image.format, w, h, max), LAMBDA buffer :
           Then(Compose(MakeScale(<<rw, image.w>>, <<rh, image.h>>, from, to),
                        MakeTranslation(offset[1], offset[2], to, to)), LAMBDA transform :
             Ok([buffer |-> [buffer EXCEPT !.pixels = Pasted(@, resized.pixels)],
                 w |-> rw, h |-> rh, transform |-> transform]))))

(***************************************************************************)
(* The perceptual hash, as the set of thumbnail pixels whose right         *)
(* neighbour is brighter.                                                  *)
(***************************************************************************)
Unbounded == MaxDimension * MaxDimension * 8

GrayThumbnail(image, w, h) ==
  Then(ResizeArea(image, w, h, Unbounded), LAMBDA small : ConvertColor(small, "kGray8", Unbounded))

Dhash(gray) ==
  {p \in Grid(HashWidth - 1, HashHeight) :
     gray.pixels[<<p[1] + 1, p[2]>>][1] > gray.pixels[p][1]}

Fingerprint(image) ==
  Then(GrayThumbnail(image, HashWidth, HashHeight), LAMBDA gray : Ok(Dhash(gray)))

HammingDistance(first, second) == Cardinality((first \ second) \cup (second \ first))

Similarity(first, second) ==
  LET bits == (HashWidth - 1) * HashHeight
  IN  <<bits - HammingDistance(first, second), bits>>

\* The square thumbnail that stands for its content hash, and its print.
PatchFingerprint(patch, side, max) ==
  IF ~ValidImage(patch) \/ side < 1 THEN Failed("kInvalidArgument")
  ELSE IF patch.w * patch.h + side * side > max THEN Failed("kBudgetExceeded")
  ELSE Then(ConvertColor(patch, "kGray8", max), LAMBDA gray :
       Then(ResizeArea(gray, side, side, max), LAMBDA thumbnail :
       Then(Fingerprint(thumbnail), LAMBDA print :
         Ok([thumbnail |-> thumbnail.pixels, dhash |-> print]))))
=============================================================================
