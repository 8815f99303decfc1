----------------------------- MODULE MCNanoTrack -----------------------------
(* Values for the model-checking runs of NanoTrack. *)
EXTENDS NanoTrack

Picture(w, h, tint) == Image("kRgb8", w, h, [p \in Grid(w, h) |-> <<tint + 10 * p[1], 10 * p[2], tint>>], <<>>)

Small == Picture(6, 4, 0)
Other == Picture(4, 4, 90)
Gray == Image("kGray8", 6, 4, [p \in Grid(6, 4) |-> <<10 * p[1]>>], <<>>)

Undisturbed == [from |-> AfterDecode + 1, status |-> "kOk"]
Stop(point, status) == [from |-> point, status |-> status]

\* Response maps: a logit for each cell and the four distances.
Maps(Logit(_), Distance(_, _)) ==
  [blobs |-> {"input1", "input2", "output1", "output2"}, forward |-> "kOk",
   cls |-> Tensor(2, ScoreSize, ScoreSize,
             [c \in Cells(2, ScoreSize, ScoreSize) |-> IF c[1] = 1 THEN 0 ELSE Logit(<<c[2], c[3]>>)]),
   box |-> Tensor(4, ScoreSize, ScoreSize,
             [c \in Cells(4, ScoreSize, ScoreSize) |-> Distance(c[1], <<c[2], c[3]>>)])]

Middle == <<1, 1>>

Still == Maps(LAMBDA cell : IF cell = Middle THEN MaxLogit ELSE -MaxLogit, LAMBDA k, cell : 1)
Growing == Maps(LAMBDA cell : IF cell = Middle THEN MaxLogit ELSE -MaxLogit, LAMBDA k, cell : IF k \in {1, 3} THEN 2 ELSE 1)
Shrinking == Maps(LAMBDA cell : IF cell = Middle THEN MaxLogit ELSE -MaxLogit, LAMBDA k, cell : IF k < 3 THEN 1 ELSE 0)
Leaving == Maps(LAMBDA cell : IF cell = <<2, 1>> THEN MaxLogit ELSE -MaxLogit, LAMBDA k, cell : 2)
Gone == Maps(LAMBDA cell : IF cell = <<2, 2>> THEN MaxLogit ELSE -MaxLogit,
             LAMBDA k, cell : IF cell = <<2, 2>> THEN IF k < 3 THEN -9 ELSE 10 ELSE 0)
\* All cells alike, those of the first row broken.
Flat == Maps(LAMBDA cell : 0, LAMBDA k, cell : IF cell[2] = 0 THEN NaN ELSE 1)
NoCell == Maps(LAMBDA cell : 0, LAMBDA k, cell : IF k = 4 THEN -1 ELSE 1)
NaNScore == Maps(LAMBDA cell : NaN, LAMBDA k, cell : 1)
Renamed == [Still EXCEPT !.blobs = @ \ {"output2"}]
Misshaped == [Still EXCEPT !.box = Tensor(2, ScoreSize, ScoreSize, <<>>)]
Failing == [Still EXCEPT !.forward = "kBackendFailure"]

Asked(image, bounds, context, backbone, head) ==
  [image |-> image, bounds |-> bounds, context |-> context, backbone |-> backbone, head |-> head]

First == Asked(Small, Rect(2, 1, 2, 2), Undisturbed, "healthy", Still)
AtTheEdge == Asked(Small, Rect(4, 0, 2, 4), Undisturbed, "healthy", Still)
Elsewhere == Asked(Other, Rect(0, 0, 4, 2), Undisturbed, "healthy", Still)

MCRequests ==
  {[asked EXCEPT !.head = head] : asked \in {First, AtTheEdge, Elsewhere},
                                  head \in {Still, Growing, Shrinking, Leaving, Flat}}
  \cup {[First EXCEPT !.head = head] : head \in {Gone, NoCell, NaNScore, Renamed, Misshaped, Failing}}
  \cup {[First EXCEPT !.context = Stop(point, IF point % 2 = 0 THEN "kCancelled" ELSE "kTimeout")] :
          point \in AtEntry .. AfterDecode}
  \cup {[Elsewhere EXCEPT !.backbone = health] : health \in {"renamed", "failing", "empty", "wide"}}
  \cup {Asked(Gray, First.bounds, Stop(AtEntry, "kCancelled"), "healthy", Still),
        [First EXCEPT !.bounds = Rect(5, 1, 2, 2), !.context = Stop(AtEntry, "kTimeout")],
        [First EXCEPT !.bounds = Rect(2, 1, 0, 2)],
        [First EXCEPT !.image.w = 0],
        Asked(Picture(8, 8, 0), Rect(0, 0, 8, 8), Undisturbed, "healthy", Growing)}

MCContextAmount == <<1, 2>>
=============================================================================
