------------------------------- MODULE Geometry -------------------------------
(***************************************************************************)
(* Line segments: their filters and the merge of collinear ones            *)
(* (line_filter.cpp), and the structures that segments form with their     *)
(* ends (geometric_proposal.cpp).  A segment is [begin, end, confidence]   *)
(* with whole points.  Lengths, distances and scores that the code takes   *)
(* the root of are kept squared, an angle is a direction or the square of  *)
(* a cosine, so that every comparison is exact.                            *)
(***************************************************************************)
EXTENDS Fusion

Minus(p, q) == <<p[1] - q[1], p[2] - q[2]>>
Dot(p, q) == p[1] * q[1] + p[2] * q[2]
Cross(p, q) == p[1] * q[2] - p[2] * q[1]
Square(v) == Dot(v, v)

Along(s) == Minus(s.end, s.begin)
HasLength(s) == Square(Along(s)) > 0
Ends(s) == {s.begin, s.end}

\* The orientation, as the direction in the upper half plane: a segment and its
\* reversal have the same.
Upward(v) == IF v[2] < 0 \/ (v[2] = 0 /\ v[1] < 0) THEN <<-v[1], -v[2]>> ELSE v

NotAfter(u, v) == Cross(u, v) >= 0

\* The cosine between two directions has at least this square.
WithinAngle(u, v, cosine2) == AtLeast(<<Dot(u, v) * Dot(u, v), Square(u) * Square(v)>>, cosine2)

(***************************************************************************)
(* Filters and the collinear merge.                                        *)
(***************************************************************************)
\* A window whose bounds are reversed wraps through the horizontal.
AngleInWindow(angle, low, high) ==
  IF NotAfter(low, high) THEN NotAfter(low, angle) /\ NotAfter(angle, high)
  ELSE NotAfter(low, angle) \/ NotAfter(angle, high)

PassesFilter(s, params) ==
  /\ params.min_length = 0 \/ Square(Along(s)) >= params.min_length * params.min_length
  /\ params.max_length = 0 \/ Square(Along(s)) <= params.max_length * params.max_length
  /\ AngleInWindow(Upward(Along(s)), params.min_angle, params.max_angle)
  /\ s.confidence >= params.min_confidence

FilterSegments(segments, params) ==
  IF params.min_length < 0 \/ params.max_length < 0 \/ params.min_confidence \notin 0 .. 100
    THEN Failed("kInvalidArgument")
  ELSE Ok(SelectSeq(segments, LAMBDA s : PassesFilter(s, params)))

\* Distance of p from the line through s, and the span of other along s, both
\* times the length of s.
OffLine(p, s) == Cross(Minus(p, s.begin), Along(s))
SpanAlong(other, s) ==
  LET ts == {Dot(Minus(p, s.begin), Along(s)) : p \in Ends(other)}
  IN  <<Min(ts), Max(ts)>>

CanMerge(reference, candidate, params) ==
  LET Near(p, s) == OffLine(p, s) * OffLine(p, s) <= params.distance * params.distance * Square(Along(s))
      a == SpanAlong(reference, reference)
      b == SpanAlong(candidate, reference)
      gap == Max({b[1] - a[2], a[1] - b[2]})
  IN  /\ WithinAngle(Along(reference), Along(candidate), params.cosine2)
      /\ \A p \in Ends(candidate) : Near(p, reference)
      /\ \A p \in Ends(reference) : Near(p, candidate)
      /\ gap <= 0 \/ gap * gap <= params.gap * params.gap * Square(Along(reference))

\* The line of the reference, over both spans.
Covering(reference, candidate) ==
  LET d == Along(reference)
      a == SpanAlong(reference, reference)
      b == SpanAlong(candidate, reference)
      At(t) == <<reference.begin[1] + (d[1] * t) \div Square(d),
                 reference.begin[2] + (d[2] * t) \div Square(d)>>
  IN  [begin |-> At(Min({a[1], b[1]})), end |-> At(Max({a[2], b[2]})),
       confidence |-> Max({reference.confidence, candidate.confidence})]

\* A round passes over all candidates; it ends when a round absorbs nothing,
\* which as many rounds as there are segments reach.
AbsorbSeed(segments, seed, consumed, params) ==
  LET Visit(state, i) ==
        IF i \in state.consumed \/ ~HasLength(segments[i]) \/ ~CanMerge(state.current, segments[i], params)
          THEN state
        ELSE [current |-> Covering(state.current, segments[i]), consumed |-> state.consumed \cup {i}]
      indices == [i \in DOMAIN segments |-> i]
      Round(state, round) == FoldLeft(Visit, state, indices)
  IN  FoldLeft(Round, [current |-> segments[seed], consumed |-> consumed], indices)

MergeCollinear(segments, params) ==
  LET Visit(state, seed) ==
        IF seed \in state.consumed THEN state
        ELSE IF ~HasLength(segments[seed]) THEN [state EXCEPT !.consumed = @ \cup {seed}]
        ELSE LET grown == AbsorbSeed(segments, seed, state.consumed \cup {seed}, params)
             IN  [merged |-> Append(state.merged, grown.current), consumed |-> grown.consumed]
  IN  IF Len(segments) > params.max_segments THEN Failed("kBudgetExceeded")
      ELSE IF params.distance < 0 \/ params.gap < 0 THEN Failed("kInvalidArgument")
      ELSE Ok(FoldLeft(Visit, [merged |-> <<>>, consumed |-> {}], [i \in DOMAIN segments |-> i]).merged)

(***************************************************************************)
(* Clusters and junctions.  A partition of 1 .. n maps each member to the  *)
(* smallest one of its class; `links' are the pairs that are united.       *)
(***************************************************************************)
Close(p, q, radius) == Square(Minus(p, q)) <= radius * radius

Pairs(n) == {pair \in (1 .. n) \X (1 .. n) : pair[1] < pair[2]}

Partition(n, links) ==
  FoldSet(LAMBDA pair, root : Unite(root, pair[1], pair[2]), [i \in 1 .. n |-> i], links)

\* The classes in the order of their smallest members, members in order.
OrderedClusters(root) ==
  LET indices == [i \in DOMAIN root |-> i]
      Members(r) == SelectSeq(indices, LAMBDA i : root[i] = r)
      roots == SelectSeq(indices, LAMBDA i : root[i] = i)
  IN  [k \in DOMAIN roots |-> Members(roots[k])]

CollectClusters(segments, radius) ==
  LET Linked(i, j) == \E p \in Ends(segments[i]), q \in Ends(segments[j]) : Close(p, q, radius)
  IN  OrderedClusters(Partition(Len(segments), {p \in Pairs(Len(segments)) : Linked(p[1], p[2])}))

\* The ends of segment k are the slots 2k - 1 and 2k.  A junction is named by
\* its smallest slot, whose point stands for it: the code takes the root of its
\* union, which is that slot wherever the point is used, in a junction that
\* belongs to one segment.
Slots(segments) ==
  [slot \in 1 .. 2 * Len(segments) |->
     LET s == segments[(slot + 1) \div 2] IN IF slot % 2 = 1 THEN s.begin ELSE s.end]

BuildJunctionGraph(segments, radius) ==
  LET points == Slots(segments)
      close == {p \in Pairs(Len(points)) : Close(points[p[1]], points[p[2]], radius)}
      junction == Partition(Len(points), close)
      At(k) == {junction[2 * k - 1], junction[2 * k]}
      Members(j) == {k \in DOMAIN segments : j \in At(k)}
      junctions == {junction[slot] : slot \in DOMAIN junction}
      shared == {j \in junctions : Cardinality(Members(j)) >= 2}
  IN  [junctions |-> junctions,
       edges |-> {k \in DOMAIN segments : Cardinality(At(k)) = 2},
       dangling |-> {points[j] : j \in {j \in junctions : Cardinality(Members(j)) = 1}},
       dangling_count |-> Cardinality({j \in junctions : Cardinality(Members(j)) = 1}),
       shared_segments |-> {k \in DOMAIN segments : At(k) \cap shared # {}}]

\* What is open of a structure, squared: 1 - closure_score = gap / diagonal.
Openness2(graph, points) ==
  LET rank == Cardinality(graph.edges) - Cardinality(graph.junctions) + 1
      bounds == BoundingRect(ToSet(points))
      gap2 == Max({Square(Minus(p, q)) : p \in graph.dangling, q \in graph.dangling})
  IN  IF rank >= 1 THEN Zero
      ELSE IF graph.dangling_count # 2 \/ Diagonal2(bounds) = 0 THEN One
      ELSE <<Min({gap2, Diagonal2(bounds)}), Diagonal2(bounds)>>

(***************************************************************************)
(* Rectangularity.  Lengths are whole here.                                *)
(***************************************************************************)
LengthOf(s) == Root(Square(Along(s)))

\* The direction at twice the angle, as long as the square of v.
Doubled(v) == <<v[1] * v[1] - v[2] * v[2], 2 * v[1] * v[2]>>

\* The weighted sum of the doubled directions, up to a common factor.
PrincipalDoubled(segments) ==
  LET lengths == {LengthOf(segments[k]) : k \in DOMAIN segments}
      Times(m, k) == LET v == Doubled(Along(segments[k])) IN <<m * v[1], m * v[2]>>
      Whole(m) == \A k \in DOMAIN segments : \A c \in 1 .. 2 : Times(m, k)[c] % LengthOf(segments[k]) = 0
      factor == Min({m \in 1 .. FoldSet(LAMBDA l, product : l * product, 1, lengths) : Whole(m)})
      Weighted(k) == <<Times(factor, k)[1] \div LengthOf(segments[k]),
                       Times(factor, k)[2] \div LengthOf(segments[k])>>
      sum == FoldLeft(LAMBDA total, k : <<total[1] + Weighted(k)[1], total[2] + Weighted(k)[2]>>,
                      <<0, 0>>, [k \in DOMAIN segments |-> k])
  IN  IF sum = <<0, 0>> THEN <<1, 0>> ELSE sum

\* Close to the principal direction or to its perpendicular.
NearAxes(s, principal, cosine2) == WithinAngle(Doubled(Along(s)), principal, cosine2)

\* The principal angle is in (-90, 90] and an orientation in [0, 180): when
\* they differ by more than 180 degrees the folded difference is negative, and
\* no tolerance is smaller.
FoldsBelowZero(s, principal) ==
  LET doubled == Doubled(Along(s))
  IN  principal[2] < 0 /\ doubled[2] < 0 /\ Cross(principal, doubled) > 0

TotalLength(segments, Counts(_)) ==
  FoldLeft(LAMBDA total, s : IF Counts(s) THEN total + LengthOf(s) ELSE total, 0, segments)

RectangularityDegree(segments, cosine2) ==
  LET principal == PrincipalDoubled(segments)
      Aligned(s) == FoldsBelowZero(s, principal) \/ NearAxes(s, principal, cosine2)
  IN  <<TotalLength(segments, Aligned), TotalLength(segments, LAMBDA s : TRUE)>>

(***************************************************************************)
(* The smallest rectangle of any direction around the ends.                *)
(***************************************************************************)
InOrder(points, Before(_, _)) ==
  LET First(left) == CHOOSE p \in left : \A q \in left \ {p} : Before(p, q)
  IN  FoldSet(LAMBDA round, seq : Append(seq, First(points \ ToSet(seq))), <<>>, points)

\* One pass of the monotone chain: the chain keeps the longest prefix that
\* turns left towards the new point.
Chain(sorted) ==
  LET Extend(chain, point) ==
        LET Turns(k) == k = 1 \/ Cross(Minus(chain[k], chain[k - 1]), Minus(point, chain[k - 1])) > 0
        IN  IF chain = <<>> THEN <<point>>
            ELSE Append(SubSeq(chain, 1, Max({k \in DOMAIN chain : Turns(k)})), point)
  IN  FoldLeft(Extend, <<>>, sorted)

\* Counter-clockwise, without points on an edge.  Repeated points change nothing.
ConvexHull(points) ==
  LET sorted == InOrder(points, LAMBDA p, q : p[1] < q[1] \/ (p[1] = q[1] /\ p[2] < q[2]))
      lower == Chain(sorted)
      upper == Chain(Reverse(sorted))
  IN  SubSeq(lower, 1, Len(lower) - 1) \o SubSeq(upper, 1, Len(upper) - 1)

\* The extents along an axis and across it, times its length.
Extents(points, origin, axis) ==
  LET u == {Dot(Minus(p, origin), axis) : p \in points}
      v == {Cross(axis, Minus(p, origin)) : p \in points}
  IN  [origin |-> origin, axis |-> axis, u |-> <<Min(u), Max(u)>>, v |-> <<Min(v), Max(v)>>]

OrientedArea(rect) ==
  <<(rect.u[2] - rect.u[1]) * (rect.v[2] - rect.v[1]), Square(rect.axis)>>

\* Rotating calipers: the first edge of the hull with the least area.
MinimumOrientedRect(hull) ==
  LET Beside(i) == Extents(ToSet(hull), hull[i], Minus(hull[(i % Len(hull)) + 1], hull[i]))
      Visit(best, i) == IF LessThan(OrientedArea(Beside(i)), OrientedArea(best)) THEN Beside(i) ELSE best
  IN  FoldLeft(Visit, Beside(1), [i \in DOMAIN hull |-> i])

(***************************************************************************)
(* propose_regions.                                                        *)
(***************************************************************************)
ValidProposalParams(params) ==
  /\ params.radius > 0 /\ params.min_segments >= 1
  /\ params.max_segments >= 1 /\ params.max_proposals >= 1
  /\ AtLeast(params.context, Zero)
  /\ 0 <= params.min_padding /\ params.min_padding <= params.max_padding

FitsInt32(rect) ==
  /\ rect.x >= IntMin /\ rect.y >= IntMin /\ rect.w <= IntMax /\ rect.h <= IntMax
  /\ rect.x + rect.w <= IntMax /\ rect.y + rect.h <= IntMax

ContextBounds(tight, params) ==
  LET Padding(extent) ==
        Clamp((params.context[1] * extent) \div params.context[2], params.min_padding, params.max_padding)
      px == Padding(tight.w)
      py == Padding(tight.h)
  IN  Rect(tight.x - px, tight.y - py, tight.w + 2 * px, tight.h + 2 * py)

Proposed(members, graph, params) ==
  LET points == ToSet(Slots(members))
      tight == BoundingRect(points)
  IN  [openness2 |-> Openness2(graph, Slots(members)),
       rectangularity |-> RectangularityDegree(members, params.cosine2),
       support |-> <<Cardinality(graph.shared_segments), Len(members)>>,
       tight |-> tight, context |-> ContextBounds(tight, params),
       oriented |-> MinimumOrientedRect(ConvexHull(points)), segments |-> members]

\* A quadratic pass over n rows polls the context every 64 rows; stop is the
\* number of the poll that finds the status, 0 for none.
PollsOf(n) == (n + 63) \div 64
Polled(state, polls, stop) ==
  [state EXCEPT !.polls = @ + polls,
                !.status = IF stop.at \in state.polls + 1 .. state.polls + polls THEN stop.status ELSE @]

Keep(state, proposal, params) ==
  IF Len(state.value) >= params.max_proposals THEN [state EXCEPT !.status = "kBudgetExceeded"]
  ELSE IF ~FitsInt32(proposal.tight) \/ ~FitsInt32(proposal.context)
    THEN [state EXCEPT !.status = "kInvalidArgument"]
  ELSE [state EXCEPT !.value = Append(@, proposal)]

\* A structure needs three junctions and little openness.
Consider(state, members, graph, params, stop) ==
  LET polled == Polled(state, PollsOf(2 * Len(members)), stop)
  IN  IF state.status # "kOk" \/ Len(members) < params.min_segments THEN state
      ELSE IF polled.status # "kOk" \/ Cardinality(graph.junctions) < 3
              \/ LessThan(params.max_openness2, Openness2(graph, Slots(members)))
        THEN polled
      ELSE Keep(polled, Proposed(members, graph, params), params)

ProposeRegions(segments, params, stop) ==
  LET prepared == SelectSeq(segments, HasLength)
      Visit(state, indices) ==
        LET members == [k \in DOMAIN indices |-> prepared[indices[k]]]
        IN  Consider(state, members, BuildJunctionGraph(members, params.radius), params, stop)
      begun == Polled([status |-> "kOk", value |-> <<>>, polls |-> 0], PollsOf(Len(prepared)), stop)
      refusal == FirstFailure(<<Requires(ValidProposalParams(params), "kInvalidArgument"),
                                Requires(Len(segments) <= params.max_segments, "kBudgetExceeded"),
                                begun.status>>)
      Answer(state) == IF state.status = "kOk" THEN Ok(state.value) ELSE Failed(state.status)
  IN  IF refusal # "kOk" THEN Failed(refusal)
      ELSE Answer(FoldLeft(Visit, begun, CollectClusters(prepared, params.radius)))
=============================================================================
