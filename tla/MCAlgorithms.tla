---------------------------- MODULE MCAlgorithms ----------------------------
(* The jobs of the model-checking run of Algorithms. *)
EXTENDS Algorithms

(***************************************************************************)
(* Evidence: chains of overlaps, classes that differ, a region inside      *)
(* another, a failed allocation, and every target space.                   *)
(***************************************************************************)
Region(x, w, class, label) ==
  [bounds |-> Rect(x, 0, w, 4), text |-> <<"t">>, class |-> class, label |-> label, confidence |-> 50]

Addition(region, kind, space, fault) ==
  [region |-> region, kind |-> kind, space |-> space, cached |-> TRUE, fault |-> fault]

Additions ==
  {Addition(Region(0, 6, 1, "button"), "kDetection", "kOriented", FALSE),
   Addition(Region(2, 6, 2, "icon"), "kDetection", "kOriented", FALSE),
   Addition(Region(4, 6, -1, ""), "kText", "kOriented", FALSE),
   Addition(Region(6, 6, 1, "button"), "kTemplate", "kOriented", TRUE),
   Addition(Region(7, 2, -1, "link"), "kExternal", "kOriented", FALSE)}

Upright == Image("kGray8", 8, 4, <<>>, <<>>)

FusionDefaults ==
  [target |-> "kOriented", display |-> {}, iou |-> <<1, 2>>, containment |-> <<9, 10>>,
   weights |-> [external |-> 10, ocr |-> 9, detector |-> 8, template |-> 7], max_regions |-> 4]

FuseJob(additions, image, options) ==
  [kind |-> "fuse", additions |-> additions, max |-> 4, image |-> image, options |-> options, stop |-> "kOk"]

Spaces == {"kFrame", "kOriented", "kDisplay"}
Display == MakeTranslation(3, 2, "kOriented", "kDisplay")
Mixed == <<Addition(Region(0, 6, 1, "button"), "kDetection", "kFrame", FALSE),
           Addition(Region(2, 6, -1, ""), "kText", "kOriented", FALSE),
           Addition(Region(5, 6, -1, ""), "kText", "kDisplay", FALSE)>>

FuseJobs ==
  {FuseJob(additions, Upright, FusionDefaults) : additions \in [1 .. 4 -> Additions]}
  \cup {FuseJob(Mixed, [Upright EXCEPT !.rotation = rotation],
                [FusionDefaults EXCEPT !.target = target, !.display = display]) :
          rotation \in Rotations, target \in Spaces, display \in {{}, {Display}}}
  \cup {[FuseJob(Mixed, Upright, [FusionDefaults EXCEPT !.max_regions = max, !.display = {Display}])
           EXCEPT !.stop = stop] : stop \in Context, max \in {1, 4}}

(***************************************************************************)
(* Maps, boxes of text and detections.                                     *)
(***************************************************************************)
Maps(w, h) == {Image("kGray8", w, h, pixels, <<>>) : pixels \in [Grid(w, h) -> {<<0>>, <<200>>}]}

BoxParams(min_pixels, max_boxes) ==
  [threshold |-> 100, min_pixels |-> min_pixels, max_boxes |-> max_boxes, budget |-> 8,
   unclip |-> <<3, 2>>, min_score |-> <<1, 2>>]

BoxJobs ==
  {[kind |-> "boxes", map |-> map, params |-> BoxParams(pixels, boxes)] :
     map \in Maps(3, 2) \cup Maps(5, 1), pixels \in {1, 2}, boxes \in {1, 3}}

Line(x, y, h, text, confidence) ==
  [bounds |-> Rect(x, y, 4, h), text |-> text, confidence |-> confidence]

Lines == {Line(0, 0, 4, <<"a">>, 30), Line(5, 1, 4, <<"b">>, 20), Line(10, 2, 4, <<"c">>, 40),
          Line(4, 3, 2, <<"d">>, 10), Line(20, 0, 4, <<"e">>, 50)}

LineJobs ==
  {[kind |-> "lines", lines |-> lines,
    params |-> [center |-> <<1, 2>>, gap |-> <<1, 1>>, max_lines |-> 4, separator |-> <<" ">>]] :
     lines \in {lines \in [1 .. 4 -> Lines] : IsInjective(lines)}}

Detection(x, class, confidence) ==
  [bounds |-> Rect(x, 0, 3, 2), class |-> class, label |-> "", confidence |-> confidence]

Detections == {Detection(0, 1, 20), Detection(1, 1, 30), Detection(2, 2, 35), Detection(3, 1, 40)}

SuppressJobs ==
  {[kind |-> "suppress", regions |-> regions,
    nms |-> [iou |-> iou, class_aware |-> aware, max_output |-> max],
    filter |-> [min_confidence |-> 25, classes |-> classes, labels |-> {}]] :
     regions \in [1 .. 3 -> Detections], iou \in {<<1, 5>>, <<1, 2>>}, aware \in BOOLEAN,
     max \in {0, 2}, classes \in {{}, {1}}}

(***************************************************************************)
(* The visual index.                                                       *)
(***************************************************************************)
Stamp(same, hash, ncc) == [same |-> same, hash |-> hash, ncc |-> ncc]

Prints == {Stamp(TRUE, 64, 64), Stamp(FALSE, 60, 50), Stamp(FALSE, 40, 62), Stamp(FALSE, 40, 50)}

LookUpJobs ==
  {[kind |-> "lookup", side |-> 2, budget |-> 3 * EntryBytes(2),
    entries |-> [i \in 1 .. 3 |-> [id |-> i, print |-> prints[i]]],
    another |-> [id |-> 4, print |-> Stamp(FALSE, 0, 0)],
    thresholds |-> [hash |-> 55, ncc |-> ncc], limit |-> limit] :
     prints \in [1 .. 3 -> Prints], ncc \in {45, 64}, limit \in {1, 2, 4}}

(***************************************************************************)
(* Images that differ, and images that are padded or turned.               *)
(***************************************************************************)
ChangeParams(size, block, ignored, early_exit) ==
  [similarity |-> One, size |-> size, block |-> block, difference |-> 100, area |-> <<3, 4>>,
   ignored |-> ignored, early_exit |-> early_exit]

CompareJob(previous, current, params) ==
  [kind |-> "compare", previous |-> previous, current |-> current, params |-> params]

CompareJobs ==
  {CompareJob(previous, current, params) :
     previous \in {image \in Maps(3, 2) : image.pixels[<<2, 0>>] = image.pixels[<<1, 1>>]},
     current \in {image \in Maps(3, 2) : image.pixels[<<0, 1>>] = image.pixels[<<1, 1>>]},
     params \in {ChangeParams(2, 1, {}, FALSE), ChangeParams(3, 2, {Rect(0, 0, 2, 2)}, TRUE)}}
  \cup {CompareJob(previous, current, ChangeParams(3, 1, {}, FALSE)) :
          previous \in {image \in Maps(5, 1) : image.pixels[<<1, 0>>] = image.pixels[<<3, 0>>]},
          current \in Maps(5, 1)}

Shades(w, h) == Image("kGray8", w, h, [p \in Grid(w, h) |-> <<10 + 7 * p[1] + 31 * p[2]>>], <<>>)

PadJobs ==
  {[kind |-> "pad", image |-> Shades(size[1], size[2]), w |-> to[1], h |-> to[2], value |-> 0] :
     size \in (1 .. 4) \X (1 .. 4), to \in (1 .. 5) \X (1 .. 5)}

ReorientJobs ==
  {[kind |-> "reorient", rotation |-> rotation, w |-> w, h |-> h, horizontal |-> horizontal,
    vertical |-> vertical, crop |-> Rect(x, 1, 1, 1)] :
     rotation \in Rotations, w \in {2, 3}, h \in {1, 4}, horizontal \in BOOLEAN, vertical \in BOOLEAN,
     x \in {0, 2}}

(***************************************************************************)
(* Proposals to refine, small and large, inside and outside of the image.  *)
(***************************************************************************)
Proposal(label, bounds, confidence) ==
  [bounds |-> bounds, class |-> 1, label |-> label, confidence |-> confidence]

RefineDefaults ==
  [expand |-> <<1, 4>>, side |-> 0, confidence_below |-> 50, area_below |-> <<1, 8>>,
   max_candidates |-> 4, min_refined |-> 10, budget |-> 64]

Backend(accepted, answers) == [accepted |-> accepted, answers |-> answers]

RefineJob(source, backends, initial, params, polls) ==
  [kind |-> "refine", source |-> source, backends |-> backends, initial |-> initial,
   params |-> params, polls |-> polls]

Calm == <<"kOk", "kOk", "kOk", "kOk">>
Coloured(w, h) == Image("kRgb8", w, h, [p \in Grid(w, h) |-> <<p[1], p[2], 9>>], <<>>)
Findings == {"nothing", "whole", "corners", "failure"}

\* One proposal, so that nothing moves.
RefineJobs ==
  {RefineJob(Shades(6, 4), {Backend(accepted, [one |-> found])},
             <<Proposal("one", Rect(x, y, 2, 1), confidence)>>,
             [RefineDefaults EXCEPT !.expand = expand, !.side = side], Calm) :
     accepted \in {<<"kGray8">>, <<"kNv12", "kRgb8">>, <<"kNv12">>}, found \in Findings,
     x \in {-3, 0, 3, 5, 7}, y \in {0, 3}, confidence \in {20, 80},
     expand \in {<<1, 4>>, <<1, 1>>}, side \in {0, 3, 6}}
  \cup {RefineJob(Coloured(6, 4), {Backend(<<"kBgra8">>, [one |-> "whole"])},
                  <<Proposal("one", Rect(1, 1, 2, 2), 20)>>,
                  [RefineDefaults EXCEPT !.budget = budget, !.max_candidates = candidates], polls) :
          budget \in {4, 8, 32, 64}, candidates \in {0, 1},
          polls \in {Calm, <<"kCancelled", "kOk">>, <<"kOk", "kTimeout">>}}
  \cup {RefineJob(source, {}, <<>>, RefineDefaults, Calm) : source \in {Shades(2, 2)}}

\* Three proposals, of which each may vanish, stay or split.
RefineManyJobs ==
  {RefineJob(Shades(6, 4), {Backend(<<"kGray8">>, [a |-> a, b |-> b, c |-> c])},
             <<Proposal("a", Rect(0, 0, 2, 2), first), Proposal("b", Rect(2, 0, 2, 2), second),
               Proposal("c", Rect(4, 2, 2, 2), third)>>, RefineDefaults, Calm) :
     a \in Findings, b \in Findings, c \in Findings,
     first \in {20, 40, 80}, second \in {30, 80}, third \in {10, 80}}

(***************************************************************************)
(* Patterns that move, further than the search looks too.                  *)
(***************************************************************************)
Pattern(kind, x, y) ==
  CASE kind = "flat" -> 7 [] kind = "stripes" -> 60 * ((x + 8) % 2)
    [] kind = "spot" -> (IF x = 1 /\ y = 2 THEN 200 ELSE 0)
    [] kind = "mixed" -> (37 * (x + 8) * (x + 8) + 91 * (y + 8)) % 251

Shown(kind, w, h, dx, dy) ==
  Image("kGray8", w, h, [p \in Grid(w, h) |-> <<Pattern(kind, p[1] - dx, p[2] - dy)>>], <<>>)

ShiftJobs ==
  {[kind |-> "shift", previous |-> Shown(kind, size[1], size[2], 0, 0),
    current |-> Shown(other, size[1], size[2], dx, dy),
    params |-> [size |-> 4, max_shift |-> shift, budget |-> budget], polls |-> polls] :
     kind \in {"flat", "stripes", "spot", "mixed"}, other \in {"stripes", "mixed"},
     size \in {<<4, 4>>, <<6, 4>>}, dx \in {-2, -1, 0, 1}, dy \in {-1, 0, 1}, shift \in {0, 1},
     budget \in {16}, polls \in {<<"kOk", "kOk", "kOk", "kOk">>}}
  \cup {[kind |-> "shift", previous |-> Shown("mixed", 4, 4, 0, 0), current |-> Shown("mixed", 4, 4, 1, 1),
         params |-> [size |-> 4, max_shift |-> shift, budget |-> budget], polls |-> polls] :
          shift \in {1, 2}, budget \in {8, 16},
          polls \in {<<"kCancelled", "kOk", "kOk", "kOk">>, <<"kOk", "kOk", "kTimeout", "kOk">>}}

(***************************************************************************)
(* Grids, and marks that have to make room for each other.                 *)
(***************************************************************************)
GridJobs == {[kind |-> "grid", w |-> w, h |-> h, side |-> side] : w \in 0 .. 7, h \in 1 .. 4, side \in 0 .. 5}

Marked == {Rect(1, 8, 4, 4), Rect(2, 8, 4, 4), Rect(0, 0, 12, 18), Rect(10, 0, 6, 3), Rect(20, 20, 2, 2),
           Rect(4, 9, 5, 8)}

MarkJob(regions, options, polls) ==
  [kind |-> "marks", background |-> Shades(12, 18), regions |-> regions, options |-> options, polls |-> polls]

MarkDefaults == [max_bytes |-> 1000, thickness |-> 2, label_height |-> 6, max_marks |-> 3]

MarkJobs ==
  {MarkJob(regions, [MarkDefaults EXCEPT !.label_height = height], <<"kOk", "kOk">>) :
     regions \in [1 .. 3 -> Marked], height \in {0, 6, 14}}
  \cup {MarkJob(<<Rect(1, 8, 4, 4), Rect(2, 8, 4, 4)>>,
                [MarkDefaults EXCEPT !.max_bytes = bytes, !.max_marks = marks], polls) :
          bytes \in {0, 100, 1000}, marks \in {1, 2},
          polls \in {<<"kOk", "kOk">>, <<"kOk", "kTimeout">>, <<"kCancelled", "kOk">>}}

(***************************************************************************)
(* Segments: on one line or beside it, and chains that close or do not.    *)
(***************************************************************************)
Segment(x, y, u, v, confidence) == [begin |-> <<x, y>>, end |-> <<u, v>>, confidence |-> confidence]

Distinct(n, segments) == {sequence \in [1 .. n -> segments] : IsInjective(sequence)}

OnLines == {Segment(0, 0, 3, 0, 10), Segment(5, 0, 8, 0, 20), Segment(10, 0, 7, 0, 30), Segment(2, 1, 6, 1, 40),
            Segment(0, 4, 0, 0, 50), Segment(1, 1, 1, 1, 60)}

MergeJobs ==
  {[kind |-> "merge", segments |-> segments, filter |-> filter,
    params |-> [cosine2 |-> One, distance |-> 0, gap |-> gap, max_segments |-> 4]] :
     segments \in Distinct(4, OnLines), gap \in {0, 2},
     filter \in {[min_length |-> 0, max_length |-> 0, min_angle |-> <<1, 0>>, max_angle |-> <<-1, 0>>, min_confidence |-> 0],
                  [min_length |-> 0, max_length |-> 3, min_angle |-> <<-1, 1>>, max_angle |-> <<1, 1>>, min_confidence |-> 20]}}

Strokes == {Segment(0, 0, 6, 0, 1), Segment(6, 0, 6, 4, 1), Segment(6, 4, 0, 4, 1), Segment(0, 5, 0, 1, 1),
            Segment(0, 0, 3, 4, 1), Segment(20, 0, 24, 0, 1), Segment(6, 0, 6, 1, 1)}

ProposalDefaults ==
  [radius |-> 1, cosine2 |-> <<3, 4>>, max_openness2 |-> One, min_segments |-> 2, max_segments |-> 4,
   max_proposals |-> 1, context |-> <<1, 4>>, min_padding |-> 1, max_padding |-> 2]

ProposeJob(segments, params, stop) ==
  [kind |-> "propose", segments |-> segments, params |-> params, stop |-> stop]

ProposeJobs ==
  {ProposeJob(segments, ProposalDefaults, [at |-> 0, status |-> "kOk"]) :
     segments \in {segments \in Distinct(3, Strokes) : segments[1] \in {Segment(0, 0, 6, 0, 1), Segment(0, 0, 3, 4, 1)}}
                 \cup {segments \in Distinct(4, Strokes) :
                        segments[1] = Segment(6, 0, 6, 4, 1) /\ segments[4] = Segment(0, 0, 6, 0, 1)}}
  \cup {ProposeJob(<<Segment(0, 0, 6, 0, 1), Segment(6, 0, 6, 8, 1), Segment(6, 8, 2, 5, 1)>>,
                   [ProposalDefaults EXCEPT !.max_openness2 = openness, !.max_segments = max],
                   [at |-> at, status |-> "kCancelled"]) :
          openness \in {Zero, <<1, 16>>, <<1, 2>>}, max \in {2, 3}, at \in 0 .. 2}

\* Chains of three strokes of one length, in all directions.
Steps == {<<5, 0>>, <<4, 3>>, <<3, 4>>, <<0, 5>>, <<-3, 4>>, <<-4, 3>>}

ChainJobs ==
  {ProposeJob(<<Segment(0, 0, one[1], one[2], 1),
                Segment(one[1], one[2], one[1] + two[1], one[2] + two[2], 1),
                Segment(one[1] + two[1], one[2] + two[2],
                        one[1] + two[1] + three[1], one[2] + two[2] + three[2], 1)>>,
              ProposalDefaults, [at |-> 0, status |-> "kOk"]) :
     one \in Steps, two \in Steps, three \in Steps}

(***************************************************************************)
(* Regions that duplicate, contain and overlap each other.                 *)
(***************************************************************************)
Seen(id, bounds, label, confidence) ==
  [id |-> id, bounds |-> bounds, text |-> "", label |-> label, confidence |-> confidence,
   source |-> {"ocr"}, evidence |-> {id}]

Looks ==
  {[bounds |-> bounds, label |-> label, confidence |-> confidence] :
     bounds \in {Rect(0, 0, 10, 10), Rect(0, 0, 10, 9), Rect(0, 0, 9, 9), Rect(1, 1, 4, 4), Rect(3, 3, 10, 10)},
     label \in {"", "a"}, confidence \in {80}}
  \cup {[bounds |-> Rect(0, 0, 10, 10), label |-> "b", confidence |-> 20],
        [bounds |-> Rect(2, 2, 2, 2), label |-> "b", confidence |-> 80],
        [bounds |-> Rect(20, 0, 4, 0), label |-> "", confidence |-> 80]}

Rule == [duplicate_iou |-> <<17, 20>>, duplicate_containment |-> <<19, 20>>,
         part_of_containment |-> <<9, 10>>, part_of_size |-> <<1, 2>>]

Caps == [entities |-> 8, relations |-> 8, size |-> 40]
RelationDefaults ==
  [max_entities |-> 8, max_relations |-> 8, max_size |-> 40, min_merge |-> 50, generation |-> {}, rule |-> Rule]

Snapshot(regions, space) ==
  [generation |-> 1, space |-> space, regions |-> regions, change |-> "kNone", changed |-> <<>>]

RelateJob(looks, options, stop) ==
  [kind |-> "relate", caps |-> Caps, options |-> options, stop |-> stop,
   snapshot |-> Snapshot([i \in DOMAIN looks |-> Seen(i, looks[i].bounds, looks[i].label, looks[i].confidence)],
                         "kFrame")]

RelateJobs ==
  {RelateJob(looks, RelationDefaults, "kOk") :
     looks \in [1 .. 3 -> Looks] \cup [1 .. 4 -> {look \in Looks : look.label = ""}]}
  \cup {RelateJob(looks, [RelationDefaults EXCEPT !.max_entities = entities, !.max_relations = relations,
                                                 !.max_size = size, !.generation = generation], stop) :
          looks \in [1 .. 2 -> {look \in Looks : look.label = "a"}], entities \in {1, 9},
          relations \in {0, 1}, size \in {5, 40}, generation \in {{1}, {2}}, stop \in Context}

(***************************************************************************)
(* Tracks and conditions that a change may concern.                        *)
(***************************************************************************)
Track(state, bounds2) ==
  [state |-> state, bounds2 |-> bounds2, center2 |-> <<bounds2.x + bounds2.w \div 2, bounds2.y + bounds2.h \div 2>>,
   templates |-> <<>>, baseline |-> {}]

Condition(roi, id, generation, label) ==
  [roi |-> roi, space |-> "kOriented", bind |-> id # 0, id |-> id, generation |-> generation, text |-> "",
   label |-> label]

NoRect == Rect(0, 0, 0, 0)
Corner == Condition(Rect(0, 0, 1, 1), 0, 0, "")
Followed == Condition(NoRect, 1, 1, "")
Stale == Condition(NoRect, 1, 2, "")
Gone == Condition(NoRect, 2, 1, "")
Visible == Condition(NoRect, 3, 1, "")
Labelled == Condition(NoRect, 0, 0, "a")
Unseen == Condition(NoRect, 0, 0, "z")
Empty == Condition(NoRect, 0, 0, "")
Elsewhere == [Corner EXCEPT !.space = "kDisplay"]

ReactJob(current, tracks, conditions, bootstrap, polls) ==
  [kind |-> "react", previous |-> Image("kGray8", 3, 3, [p \in Grid(3, 3) |-> <<0>>], <<>>), current |-> current,
   params |-> ChangeParams(3, 1, {}, FALSE), tracks |-> tracks, conditions |-> conditions,
   bootstrap |-> bootstrap, polls |-> polls,
   snapshot |-> Snapshot(<<Seen(3, Rect(1, 1, 1, 1), "a", 50)>>, "kOriented")]

Pools == {<<Track("kTracking", Rect(0, 0, 2, 2)), Track("kLost", Rect(0, 0, 6, 6))>>,
          <<Track("kTracking", Rect(3, 2, 2, 2)), Track("kTerminated", Rect(2, 2, 2, 2))>>}

ReactJobs ==
  {ReactJob(current, tracks, conditions, FALSE, Calm) :
     current \in {map \in Maps(3, 3) : map.pixels[<<2, 0>>] = map.pixels[<<0, 2>>] /\ map.pixels[<<0, 1>>] = map.pixels[<<2, 1>>]},
     tracks \in Pools, conditions \in {<<Unseen, Corner>>, <<Followed>>}}
  \cup {ReactJob(current, tracks, <<one, other>>, bootstrap, polls) :
          current \in {map \in Maps(3, 3) : \A p \in Grid(3, 3) : map.pixels[p] # map.pixels[<<0, 0>>] => p = <<1, 1>>},
          tracks \in Pools, one \in {Corner, Followed, Stale, Gone, Unseen}, other \in {Visible, Labelled, Empty, Elsewhere},
          bootstrap \in BOOLEAN, polls \in {Calm, <<"kOk", "kTimeout", "kOk">>, <<"kCancelled", "kOk", "kOk">>}}

(***************************************************************************)
(* Views in which a target was moved, and templates of two of its looks.   *)
(***************************************************************************)
Texture(x, y) == LET u == x \div 2 v == y \div 2 IN (u * u + 3 * v + u * v) % 7

Moved(kind, w, h, dx, dy) ==
  Image("kGray8", w, h, [p \in Grid(w, h) |->
    <<IF kind = "flat" THEN 2 ELSE Texture(p[1] - dx + 10, p[2] - dy + 10)>>], <<>>)

Textured == Moved("textured", 8, 8, 0, 0)

LookAt(view, rect) == ResizeArea(Crop(view, rect, Unbounded).value, 2, 2, Unbounded).value.pixels

Looked == <<LookAt(Textured, Rect(1, 1, 3, 4)), LookAt(Textured, Rect(4, 2, 3, 4))>>

VerifyDefaults ==
  [ratio |-> <<2, 5>>, side |-> 2, budget |-> 1500, sidelobes |-> <<3, 5>>, min_quality |-> 2,
   strong |-> <<16, 25>>, weak |-> <<9, 25>>, tolerance |-> <<1, 4>>]

VerifyJob(view, track, descriptors, options, polls) ==
  [kind |-> "verify", view |-> view, track |-> track, descriptors |-> descriptors, options |-> options,
   polls |-> polls]

Target(bounds2, shift) ==
  [state |-> "kTracking", bounds2 |-> bounds2,
   center2 |-> <<bounds2.x + bounds2.w \div 2 + shift[1], bounds2.y + bounds2.h \div 2 + shift[2]>>,
   templates |-> Looked,
   baseline |-> {[closure |-> 80, rectangularity |-> 0, edges |-> 100]}]

Long == [p \in 1 .. 9 |-> "kOk"]

VerifyJobs ==
  {VerifyJob(Moved(kind, 8, 8, dx, dy), Target(bounds2, shift), {}, VerifyDefaults, Long) :
     kind \in {"flat", "textured"}, dx \in {-1, 0, 2}, dy \in {-1, 1},
     bounds2 \in {Rect(2, 2, 6, 8), Rect(5, 3, 6, 8), Rect(-3, 4, 6, 8), Rect(8, 8, 8, 6)},
     shift \in {<<0, 0>>, <<3, -1>>}}
  \cup {VerifyJob(Textured, [Target(Rect(2, 2, 6, 8), <<0, 0>>) EXCEPT !.state = state, !.baseline = baseline],
                  descriptors, [VerifyDefaults EXCEPT !.budget = budget], polls) :
          state \in {"kLost", "kTerminated"}, budget \in {50, 1500}, baseline \in {{}, {[closure |-> 80, rectangularity |-> 0, edges |-> 100]}},
          descriptors \in {{}, {[closure |-> 60, rectangularity |-> 0, edges |-> 100]},
                           {[closure |-> 80, rectangularity |-> 1, edges |-> 100]},
                           {[closure |-> 101, rectangularity |-> 0, edges |-> 100]}},
          polls \in {Long, [Long EXCEPT ![1] = "kCancelled"], [Long EXCEPT ![3] = "kTimeout"]}}

MCJobs ==
  FuseJobs \cup BoxJobs \cup LineJobs \cup SuppressJobs \cup LookUpJobs \cup CompareJobs
    \cup PadJobs \cup ReorientJobs \cup RefineJobs \cup ShiftJobs \cup GridJobs
    \cup MarkJobs \cup MergeJobs \cup ProposeJobs \cup RelateJobs \cup ReactJobs \cup VerifyJobs
=============================================================================
