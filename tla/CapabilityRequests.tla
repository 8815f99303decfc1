------------------------- MODULE CapabilityRequests -------------------------
(***************************************************************************)
(* What the capability entries of a session share (perception_session.cpp): *)
(* the checks of a frame and a request, the image that is prepared for the *)
(* model, and the way back of its regions to the space of the caller.      *)
(***************************************************************************)
EXTENDS Pixels, Transforms

CONSTANT SourceId   \* the image source of the session

\* A table that has been compared is computed once by TLC.
Table(f) == IF f = f THEN f ELSE <<>>

Polled(stop, poll) == IF stop = poll THEN "kTimeout" ELSE "kOk"

\* A frame may name no source ("").
CheckFrame(frame) ==
  Requires(ValidImage(frame.image) /\ frame.source \in {"", SourceId}, "kInvalidArgument")

(***************************************************************************)
(* Requests: [kind, roi, roi_space, output_space, max_side, params, policy].*)
(* Rectangles are whole, so the enclosing rectangle is the rectangle.  The *)
(* region of interest is a set of at most one.                             *)
(***************************************************************************)
NoRoi == {}

ValidRequest(request) ==
  Requires(/\ request.max_side >= 0
           /\ request.roi_space \in {"kOriented", "kFrame"}
           /\ request.output_space \in {"kOriented", "kFrame", "kCropped"}
           /\ \A roi \in request.roi : roi.w >= 0 /\ roi.h >= 0,
           "kInvalidArgument")

ExecutedRoi(image, request) ==
  LET whole == Rect(0, 0, image.w, image.h)
      roi == CHOOSE roi \in request.roi : TRUE
      requested == IF request.roi = NoRoi THEN whole
                   ELSE IF request.roi_space = "kOriented" THEN roi
                   ELSE TransformRect(FrameToOriented(image), roi)
      clipped == Intersect(requested, whole)
  IN  IF IsValid(requested) /\ clipped.w > 0 /\ clipped.h > 0 THEN Ok(clipped)
      ELSE Failed("kInvalidArgument")

WorkBudget(image) == 2 * image.w * image.h * BytesPerPixel(image.format) + 65536

\* The crop's own format when the backend takes it, else the first of its
\* formats that the converter reaches.
AcceptedBuffer(cropped, accepts, budget) ==
  LET converted == [i \in DOMAIN accepts |-> ConvertColor(cropped, accepts[i], budget)]
      reached == {i \in DOMAIN accepts : converted[i].status = "kOk"}
  IN  IF cropped.format \in Range(accepts) THEN Ok(cropped)
      ELSE IF reached # {} THEN converted[Min(reached)]
      ELSE IF accepts = <<>> THEN Failed("kUnsupportedFormat")
      ELSE converted[Len(accepts)]

\* The prepared image: its pixels and the transforms into it from the crop,
\* from the oriented view and from the raw frame.
Prepared(buffer, cropped, oriented, frame) ==
  [buffer |-> buffer, from_cropped |-> cropped, from_oriented |-> oriented, from_frame |-> frame]

Scaled(prepared, max_side, budget) ==
  LET w == prepared.buffer.w
      h == prepared.buffer.h
      long == Max({w, h})
      dw == Max({1, (w * max_side) \div long})
      dh == Max({1, (h * max_side) \div long})
      scale == MakeScale(<<dw, w>>, <<dh, h>>, "kCropped", "kModelInput")
  IN  IF max_side <= 0 \/ long <= max_side THEN Ok(prepared)
      ELSE Then(ResizeArea(prepared.buffer, dw, dh, budget), LAMBDA resized :
           Then(Compose(prepared.from_oriented, scale), LAMBDA oriented :
           Then(Compose(prepared.from_frame, scale), LAMBDA frame :
             Ok(Prepared(resized, scale, oriented, frame)))))

PrepareChain(cropped, roi, max_side, accepts, image) ==
  LET crop == MakeCrop(roi, "kOriented", "kCropped")
      budget == WorkBudget(image)
  IN  Then(Compose(FrameToOriented(image), crop), LAMBDA frame :
      Then(AcceptedBuffer(cropped, accepts, budget), LAMBDA buffer :
        Scaled(Prepared(buffer, MakeIdentity("kCropped", "kModelInput"), crop, frame), max_side, budget)))

RecoveryTo(prepared, space) ==
  Inverse2D(CASE space = "kCropped" -> prepared.from_cropped
              [] space = "kOriented" -> prepared.from_oriented
              [] space = "kFrame" -> prepared.from_frame)

Recovered(regions, recovery) ==
  [i \in DOMAIN regions |-> [regions[i] EXCEPT !.bounds = TransformRect(recovery, @)]]

ValidBackendInfo(backend) ==
  backend.name # "" /\ backend.accepts # <<>> /\ Range(backend.accepts) \subseteq Formats
=============================================================================
