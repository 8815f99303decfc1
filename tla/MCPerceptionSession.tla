------------------------ MODULE MCPerceptionSession ------------------------
(* Values for the model-checking runs of PerceptionSession. *)
EXTENDS PerceptionSession

(***************************************************************************)
(* Capability calls: gray images of two pixels.                            *)
(***************************************************************************)
Gray(left, right, rotation) ==
  [Image("kGray8", 2, 1, (<<0, 0>> :> <<left>>) @@ (<<1, 0>> :> <<right>>), <<>>)
     EXCEPT !.rotation = rotation]

Frame(source, sequence, image) == [source |-> source, sequence |-> sequence, image |-> image]

Rising == Frame("screen", 1, Gray(10, 20, "k90"))
Steeper == Frame("", 2, Gray(10, 200, "k90"))
Falling == Frame("screen", 1, Gray(20, 10, "k0"))

Request(kind, roi, roi_space, output_space, max_side, policy) ==
  [kind |-> kind, roi |-> roi, roi_space |-> roi_space, output_space |-> output_space,
   max_side |-> max_side, params |-> "p", policy |-> policy]

ReadAll == Request("kOcr", NoRoi, "kOriented", "kFrame", 1, "kReadWrite")
LookOnly == [ReadAll EXCEPT !.policy = "kReadOnly"]
DetectPart == Request("kDetection", {Rect(0, 0, 1, 1)}, "kFrame", "kCropped", 0, "kRefresh")
Outside == [DetectPart EXCEPT !.roi = {Rect(5, 5, 1, 1)}]

Backend(revision, accepts, answers) ==
  [present |-> TRUE, name |-> "model", revision |-> revision, accepts |-> accepts, answers |-> answers]

Model1 == Backend("r1", <<"kGray8">>, "kOk")
Model2 == Backend("r2", <<"kNv12", "kRgb8">>, "kOk")
Failing == Backend("r1", <<"kGray8">>, "kBackendFailure")

SessionFrames == {Rising, Steeper, Falling}
SessionRequests == {ReadAll, LookOnly, DetectPart, Outside}
SessionBackends == {Model1, Model2, Failing}
SessionArtifacts == {[key |-> "a", size |-> 40]}

\* Bound: a run of the session analyzes changes, or asks models and keeps
\* artifacts, or fuses; the state that they share is the last change report.
OneTopic ==
  Cardinality({topic \in {"changes", "caches", "fusion"} :
    CASE topic = "changes" -> last_change # NoReport
      [] topic = "caches" -> result_cache.entries # <<>> \/ frame_cache.entries # <<>>
      [] topic = "fusion" -> stable_tracker # NewTracker}) <= 1

(***************************************************************************)
(* Change analysis.                                                        *)
(***************************************************************************)
Params(size, early_exit, ignored) ==
  [similarity |-> One, size |-> size, block |-> 1, difference |-> 30, area |-> <<3, 4>>,
   ignored |-> ignored, early_exit |-> early_exit]

SessionChangeParams == {Params(2, TRUE, {})}

(***************************************************************************)
(* Fusion: two targets, a group that covers both, and a displaced one.     *)
(***************************************************************************)
Region(x, w, text, class, label) ==
  [bounds |-> Rect(x, 0, w, 8), text |-> text, class |-> class, label |-> label, confidence |-> 50]

Item(id, kind, region) ==
  [id |-> id, kind |-> kind, space |-> "kOriented", source |-> SourceOf(kind, FALSE), region |-> region]

LeftRegion == Item(1, "kText", Region(0, 6, <<"a">>, -1, ""))
RightRegion == Item(2, "kDetection", Region(9, 6, <<>>, 1, "button"))
FarRegion == Item(3, "kExternal", Region(40, 6, <<>>, -1, "link"))
GroupRegion == Item(4, "kText", Region(0, 15, <<>>, -1, ""))

Layouts ==
  {<<>>, <<LeftRegion>>, <<LeftRegion, RightRegion>>, <<GroupRegion>>, <<GroupRegion, FarRegion>>,
   <<LeftRegion, RightRegion, FarRegion>>}

FusionDefaults ==
  [target |-> "kOriented", display |-> {}, iou |-> <<1, 2>>, containment |-> <<9, 10>>,
   weights |-> [external |-> 10, ocr |-> 9, detector |-> 8, template |-> 7], max_regions |-> 3]
MCFusionOptions == {FusionDefaults}

StableDefaults ==
  [iou |-> <<1, 2>>, center |-> <<1, 10>>, weight_iou |-> 5, weight_center |-> 3, weight_text |-> 2,
   retention |-> <<1, 2>>, max_regions |-> 3]
MCStableOptions == {StableDefaults}

IdentityFrames == {Rising, Falling}
IdentityFaults == {NoFault, "report", "work", "commit", "publish"}
=============================================================================
