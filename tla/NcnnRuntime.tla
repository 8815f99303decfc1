----------------------------- MODULE NcnnRuntime -----------------------------
(***************************************************************************)
(* The wrapper of the inference runtime (integrations/common) and what the *)
(* PP-OCR stages do around a forward (integrations/ocr_ppocr).             *)
(*                                                                         *)
(* A tensor is [channels, w, h, data], data from <<channel, x, y>> to a    *)
(* number.  A network is [blobs, forward, outputs]: the blobs it has, what *)
(* its forward answers, and a tensor for each output blob.  A context is   *)
(* the status that a poll of it would report: kOk, kCancelled or kTimeout. *)
(***************************************************************************)
EXTENDS Pixels

\* A loop that polls for cancellation alone goes on past a deadline.
CancelledOnly(context) == IF context = "kCancelled" THEN context ELSE "kOk"

Cells(channels, w, h) == (1 .. channels) \X (0 .. w - 1) \X (0 .. h - 1)

Tensor(channels, w, h, data) == [channels |-> channels, w |-> w, h |-> h, data |-> data]

TensorOk(tensor) ==
  /\ tensor.channels > 0 /\ tensor.w > 0 /\ tensor.h > 0
  /\ DOMAIN tensor.data = Cells(tensor.channels, tensor.w, tensor.h)

\* Inputs and wanted outputs are sequences; an input is [blob, tensor].
CheckRunMultiArgs(net, inputs, wanted, context) ==
  LET fed == [i \in DOMAIN inputs |-> inputs[i].blob]
  IN  FirstFailure(<<
        Requires(inputs # <<>> /\ wanted # <<>>, "kInvalidArgument"),
        Requires(\A i \in DOMAIN inputs : fed[i] # "" /\ TensorOk(inputs[i].tensor), "kInvalidArgument"),
        Requires(IsInjective(fed) /\ IsInjective(wanted), "kInvalidArgument"),
        context,
        Requires(Range(fed) \cup Range(wanted) \subseteq net.blobs, "kInvalidArgument")>>)

\* The forward itself is atomic: `before' and `after' are the context on its
\* two sides.
RunMulti(net, inputs, wanted, before, after) ==
  LET status == FirstFailure(<<CheckRunMultiArgs(net, inputs, wanted, before), net.forward, after>>)
  IN  IF status # "kOk" THEN Failed(status) ELSE Ok([i \in DOMAIN wanted |-> net.outputs[wanted[i]]])

Run(net, blob, tensor, wanted, before, after) ==
  Then(RunMulti(net, <<[blob |-> blob, tensor |-> tensor]>>, <<wanted>>, before, after),
       LAMBDA outputs : Ok(outputs[1]))

\* The packed pixels as planes.
PackImage(image, context) ==
  IF ~ValidImage(image) THEN Failed("kInvalidArgument")
  ELSE IF image.format \notin {"kGray8", "kRgb8", "kRgba8"} THEN Failed("kUnsupportedFormat")
  ELSE IF CancelledOnly(context) # "kOk" THEN Failed(context)
  ELSE LET channels == BytesPerPixel(image.format)
       IN  Ok(Tensor(channels, image.w, image.h,
             [cell \in Cells(channels, image.w, image.h) |-> image.pixels[<<cell[2], cell[3]>>][cell[1]]]))

SwapPlanesToBgr(tensor) ==
  IF tensor.channels # 3 THEN tensor
  ELSE [tensor EXCEPT !.data = [cell \in DOMAIN @ |-> @[<<4 - cell[1], cell[2], cell[3]>>]]]

\* v / 127.5 - 1, as a number of 255ths.
NormalizePpOcr(tensor, context) ==
  IF CancelledOnly(context) # "kOk" THEN Failed(context)
  ELSE Ok([tensor EXCEPT !.data = [cell \in DOMAIN @ |-> 2 * @[cell] - 255]])

Preprocessed(image, context) ==
  Then(PackImage(image, context), LAMBDA tensor : NormalizePpOcr(SwapPlanesToBgr(tensor), context))

(***************************************************************************)
(* The detection canvas: the image is never enlarged, fits `side', and     *)
(* lies in the middle of a canvas whose sides are multiples of `stride'.   *)
(***************************************************************************)
DetPadValue == 114

DetCanvas(image, side, stride, budget) ==
  LET long == Max({image.w, image.h})
      scale == IF long > side THEN <<side, long>> ELSE One
      rw == RoundedSize(image.w, scale, side)
      rh == RoundedSize(image.h, scale, side)
      cw == ((rw + stride - 1) \div stride) * stride
      ch == ((rh + stride - 1) \div stride) * stride
      left == (cw - rw) \div 2
      top == (ch - rh) \div 2
      Content(content, p) ==
        LET q == <<p[1] - left, p[2] - top>>
        IN  IF q \in DOMAIN content THEN content[q] ELSE [c \in 1 .. 3 |-> DetPadValue]
  IN  Then(ResizeArea(image, rw, rh, budget), LAMBDA resized :
      Then(Buffer("kRgb8", cw, ch, budget), LAMBDA buffer :
        Ok([scale |-> scale, left |-> left, top |-> top,
            buffer |-> [buffer EXCEPT !.pixels = [p \in DOMAIN @ |-> Content(resized.pixels, p)]]])))

\* Back to the prepared image and clipped to it.
UnpadBounds(bounds, canvas, image) ==
  LET Back(v, pad) == ((v - pad) * canvas.scale[2]) \div canvas.scale[1]
      left == Max({0, Back(bounds.x, canvas.left)})
      top == Max({0, Back(bounds.y, canvas.top)})
      right == Min({image.w, Back(bounds.x + bounds.w, canvas.left)})
      bottom == Min({image.h, Back(bounds.y + bounds.h, canvas.top)})
  IN  IF right <= left \/ bottom <= top THEN Failed("kCoordinateTransform")
      ELSE Ok(Rect(left, top, right - left, bottom - top))

(***************************************************************************)
(* The recognition of one line.                                            *)
(***************************************************************************)
LineCropRoi(bounds, image) ==
  LET x == Clamp(bounds.x, 0, image.w - 1)
      y == Clamp(bounds.y, 0, image.h - 1)
  IN  Rect(x, y, Clamp(bounds.w, 1, image.w - x), Clamp(bounds.h, 1, image.h - y))

RecInput(image, bounds, height, width, budget, context) ==
  Then(Crop(image, LineCropRoi(bounds, image), budget), LAMBDA line :
    LET fitting == Clamp((2 * line.w * height + line.h) \div (2 * line.h), 1, width)
    IN  Then(ResizeArea(line, fitting, height, budget), LAMBDA resized : Preprocessed(resized, context)))

\* Scores: a sequence of steps, each a function from classes 0 .. n - 1.
\* The class of a step is the first of the greatest scores; a run of one class
\* counts once and the blank (class 0) not at all.
BestClass(step) ==
  Min({c \in DOMAIN step : \A other \in DOMAIN step : step[c] >= step[other]})

CtcDecodeGreedy(steps) ==
  LET best == [t \in DOMAIN steps |-> BestClass(steps[t])]
      emitted == SelectSeq([t \in DOMAIN steps |-> t],
                   LAMBDA t : best[t] # 0 /\ (t = 1 \/ best[t] # best[t - 1]))
  IN  IF steps = <<>> \/ Cardinality(DOMAIN steps[1]) < 2 THEN Failed("kInvalidArgument")
      ELSE Ok([k \in DOMAIN emitted |-> best[emitted[k]]])

\* Class i is the i-th character of the charset.
DecodeLine(steps, charset) ==
  Then(CtcDecodeGreedy(steps), LAMBDA classes :
    IF Range(classes) \subseteq DOMAIN charset THEN Ok([k \in DOMAIN classes |-> charset[classes[k]]])
    ELSE Failed("kBackendFailure"))
=============================================================================
