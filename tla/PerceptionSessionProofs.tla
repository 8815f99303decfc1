------------------------ MODULE PerceptionSessionProofs ------------------------
(***************************************************************************)
(* Proofs about PerceptionSession for every value of its constants.        *)
(***************************************************************************)
EXTENDS PerceptionSession, CommonProofs, SequenceTheorems, TLAPS

-----------------------------------------------------------------------------
(* The tracker's part of a fusion *)

\* Only a step that succeeds, or one that runs out of memory, moves the tracker.
LEMMA CommitFailsByBudgetOnly ==
  ASSUME NEW tracker, NEW current, NEW match, NEW fault, NEW assigned, NEW bump
  PROVE  Commit(tracker, current, match, fault, assigned, bump).status \in {"kOk", "kBudgetExceeded"}
<1>1. CASE fault = "commit"
  BY <1>1 DEF Commit, Unadvanced
<1>2. CASE fault # "commit"
  BY <1>2 DEF Commit
<1> QED
  BY <1>1, <1>2

\* advance() answers with anything but success or an exhausted budget only
\* before it has written anything.
LEMMA AdvanceIsAtomicForRefusals ==
  ASSUME NEW tracker, NEW regions, NEW options, NEW stop, NEW associations, NEW fault,
         Advance(tracker, regions, options, stop, associations, fault).status
           \notin {"kOk", "kBudgetExceeded"}
  PROVE  Advance(tracker, regions, options, stop, associations, fault).tracker = tracker
<1> DEFINE current == [c \in DOMAIN regions |->
                         [bounds |-> regions[c].bounds, text |-> NormalizedText(regions[c].text)]]
           reassigned == Reassigned(tracker, current,
                           Matched(tracker, current, PreMatch(tracker.previous, associations), options),
                           options, fault)
<1>1. reassigned.status \in {"kOk", "kBudgetExceeded"}
  BY CommitFailsByBudgetOnly DEF Reassigned, Transition
<1> HIDE DEF reassigned
<1>2. \/ \E status : Advance(tracker, regions, options, stop, associations, fault) = Unadvanced(tracker, status)
      \/ Advance(tracker, regions, options, stop, associations, fault) = reassigned
  BY DEF Advance, reassigned
<1>3. \A status : Unadvanced(tracker, status).tracker = tracker
  BY DEF Unadvanced
<1> QED
  BY <1>1, <1>2, <1>3

\* The same of what fuse() asks of the tracker.
LEMMA AdvancedTrackerIsAtomicForRefusals ==
  ASSUME NEW fused, NEW stable, NEW stop, NEW fault,
         AdvancedTracker(fused, stable, stop, fault).status \notin {"kOk", "kBudgetExceeded"}
  PROVE  AdvancedTracker(fused, stable, stop, fault).tracker = stable_tracker
<1>1. CASE fused.status = "kOk"
  BY <1>1, AdvanceIsAtomicForRefusals DEF AdvancedTracker
<1>2. CASE fused.status # "kOk"
  BY <1>2 DEF AdvancedTracker, Unadvanced
<1> QED
  BY <1>1, <1>2

-----------------------------------------------------------------------------
(* What a failed call may have written *)

\* The action of ErrorsPublishNothing.
ErrorsPublish ==
  /\ verdict' # "kOk" => UNCHANGED <<latest_snapshot, last_change>>
  /\ verdict' \notin {"kOk", "kBudgetExceeded"} => UNCHANGED <<previous_signature, stable_tracker, generation>>

\* A step that neither analyses nor fuses writes none of it.
LEMMA OtherStepsPublishNothing ==
  ASSUME UNCHANGED <<changeVars, fusionVars>>
  PROVE  ErrorsPublish
BY DEF changeVars, fusionVars, ErrorsPublish

\* analyze_change: the report is kept last, the signature just before it.
LEMMA AnalyzeChangePublishes ==
  ASSUME NEW frame, NEW params, NEW stop, NEW fault, AnalyzeChange(frame, params, stop, fault)
  PROVE  ErrorsPublish
<1> DEFINE analyzed == Analyzed(frame, params, stop)
           torn == /\ fault = "report"
                   /\ previous_signature # NoSignature
                   /\ analyzed.status = "kOk"
                   /\ analyzed.value.report.regions # <<>>
<1> HIDE DEF analyzed, torn
<1>1. /\ verdict' = IF torn THEN "kBudgetExceeded" ELSE analyzed.status
      /\ analyzed.status # "kOk" => UNCHANGED changeVars
      /\ analyzed.status = "kOk" => last_change' = IF torn THEN last_change ELSE analyzed.value.report
      /\ UNCHANGED fusionVars
  BY DEF AnalyzeChange, analyzed, torn
<1>2. torn => analyzed.status = "kOk"
  BY DEF torn
<1> QED
  BY <1>1, <1>2 DEF changeVars, fusionVars, ErrorsPublish

\* fuse: the tracker, the generation and the snapshot, in this order.
LEMMA FusePublishes ==
  ASSUME NEW frame, NEW items, NEW options, NEW stable, NEW stop, NEW fault,
         Fuse(frame, items, options, stable, stop, fault)
  PROVE  ErrorsPublish
<1> DEFINE fused == Fused(frame, items, options, stop, fault)
           ids == AdvancedTracker(fused, stable, stop, fault)
           published == ids.status = "kOk" /\ fault # "publish"
<1>1. Publish(frame, fused, options, ids, fault)
  BY DEF Fuse
<1>2. ids.status \notin {"kOk", "kBudgetExceeded"} => ids.tracker = stable_tracker
  BY AdvancedTrackerIsAtomicForRefusals
<1> HIDE DEF fused, ids
<1>3. /\ verdict' = IF ids.status = "kOk" /\ ~published THEN "kBudgetExceeded" ELSE ids.status
      /\ stable_tracker' = ids.tracker
      /\ ids.status # "kOk" => generation' = generation
      /\ ~published => latest_snapshot' = latest_snapshot
      /\ UNCHANGED changeVars
  BY <1>1 DEF Publish
<1> QED
  BY <1>2, <1>3 DEF changeVars, ErrorsPublish

\* A call of the session that fails publishes no snapshot and no report; one
\* that the context or the validation ends leaves the signature, the identities
\* and the generation as they were, whatever the models, options and frames.
THEOREM FailedCallsPublishNothing == Spec => ErrorsPublishNothing
<1>1. ASSUME [Next]_vars PROVE [ErrorsPublish]_vars
  <2>1. ASSUME NEW frame, NEW params, NEW stop, NEW fault, AnalyzeChange(frame, params, stop, fault)
        PROVE  ErrorsPublish
    BY <2>1, AnalyzeChangePublishes
  <2>2. ASSUME NEW frame, NEW backend, NEW request, NEW stop, NEW fault,
               RunCapability(frame, backend, request, stop, fault)
        PROVE  ErrorsPublish
    BY <2>2, OtherStepsPublishNothing DEF RunCapability
  <2>3. ASSUME NEW frame, NEW items, NEW options, NEW stable, NEW stop, NEW fault,
               Fuse(frame, items, options, stable, stop, fault)
        PROVE  ErrorsPublish
    BY <2>3, FusePublishes
  <2>4. ASSUME ClearResults PROVE ErrorsPublish
    BY <2>4, OtherStepsPublishNothing DEF ClearResults
  <2>5. ASSUME NEW artifact, NEW fault, KeepArtifact(artifact, fault) PROVE ErrorsPublish
    BY <2>5, OtherStepsPublishNothing DEF KeepArtifact
  <2>6. ASSUME NEW artifact, TakeArtifact(artifact) PROVE ErrorsPublish
    BY <2>6, OtherStepsPublishNothing DEF TakeArtifact
  <2> QED
    BY <1>1, <2>1, <2>2, <2>3, <2>4, <2>5, <2>6 DEF Next, RunOcr, RunDetector
<1> QED
  BY <1>1, PTL DEF Spec, ErrorsPublishNothing, ErrorsPublish

-----------------------------------------------------------------------------
(* Change reports *)

\* A comparison reports the two signatures it was given.
LEMMA ComparisonNamesItsFrames ==
  ASSUME NEW previous, NEW current, NEW params
  PROVE  LET report == CompareSignatures(previous, current, params)
         IN  report.previous = previous.fingerprint /\ report.current = current.fingerprint
BY DEF CompareSignatures, Report

\* A first report and a comparison, seen from the session.
LEMMA AnalysisNamesItsFrames ==
  ASSUME NEW frame, NEW params, NEW stop, Analyzed(frame, params, stop).status = "kOk"
  PROVE  LET found == Analyzed(frame, params, stop).value
         IN  /\ found.report.current = found.signature.fingerprint
             /\ found.report.reason # "kFirstFrame" =>
                  found.report.previous = previous_signature.fingerprint
<1> DEFINE made == MakeChangeSignature(frame.image, params)
           signature == made.value
           compared == IF previous_signature = NoSignature THEN Ok(FirstReport(signature))
                       ELSE DetectChange(previous_signature, signature, params)
<1>1. /\ made.status = "kOk" /\ compared.status = "kOk"
      /\ Analyzed(frame, params, stop).value = [signature |-> signature, report |-> compared.value]
  <2> HIDE DEF made
  <2>1. made.status # "kOk" => Analyzed(frame, params, stop).status # "kOk"
    BY DEF Analyzed, Then, Failed, made
  <2>2. made.status = "kOk" => compared.status = "kOk"
    BY DEF Analyzed, Then, Failed, made
  <2> QED
    BY <2>1, <2>2 DEF Analyzed, Then, Failed, Ok, made
<1> HIDE DEF made, signature
<1>2. CASE previous_signature = NoSignature
  BY <1>1, <1>2 DEF Ok, FirstReport, Report
<1>3. CASE previous_signature # NoSignature
  <2>1. compared = Ok(CompareSignatures(previous_signature, signature, params))
    BY <1>1, <1>3 DEF DetectChange, Failed
  <2>2. compared.value = CompareSignatures(previous_signature, signature, params)
    BY <2>1 DEF Ok
  <2> HIDE DEF compared
  <2> QED
    BY <1>1, <2>2, ComparisonNamesItsFrames
<1> QED
  BY <1>2, <1>3

\* The last report ended on the frame whose signature the session remembers,
\* unless that report was lost.
Chained == reported = LostReport \/ reported = previous_signature.fingerprint

\* The action of ReportsChain.
ReportContinues ==
  last_change' # last_change /\ last_change'.reason # "kFirstFrame"
    => reported = LostReport \/ last_change'.previous = reported

\* A step that does not analyse leaves the chain alone.
LEMMA OtherStepsKeepTheChain ==
  ASSUME Chained, UNCHANGED changeVars
  PROVE  Chained' /\ ReportContinues
BY DEF changeVars, Chained, ReportContinues

\* analyze_change continues it, or breaks it and says so.
LEMMA AnalyzeChangeContinuesTheChain ==
  ASSUME Chained, NEW frame, NEW params, NEW stop, NEW fault, AnalyzeChange(frame, params, stop, fault)
  PROVE  Chained' /\ ReportContinues
<1> DEFINE analyzed == Analyzed(frame, params, stop)
           torn == /\ fault = "report"
                   /\ previous_signature # NoSignature
                   /\ analyzed.status = "kOk"
                   /\ analyzed.value.report.regions # <<>>
<1>1. analyzed.status = "kOk" =>
        /\ analyzed.value.report.current = analyzed.value.signature.fingerprint
        /\ analyzed.value.report.reason # "kFirstFrame" =>
             analyzed.value.report.previous = previous_signature.fingerprint
  BY AnalysisNamesItsFrames
<1> HIDE DEF analyzed, torn
<1>2. /\ analyzed.status # "kOk" => UNCHANGED changeVars
      /\ analyzed.status = "kOk" =>
           /\ previous_signature' = analyzed.value.signature
           /\ last_change' = IF torn THEN last_change ELSE analyzed.value.report
           /\ reported' = IF torn THEN LostReport ELSE analyzed.value.report.current
  BY DEF AnalyzeChange, analyzed, torn
<1>3. CASE analyzed.status # "kOk"
  BY <1>2, <1>3, OtherStepsKeepTheChain
<1>4. CASE analyzed.status = "kOk" /\ torn
  BY <1>2, <1>4 DEF Chained, ReportContinues
<1>5. CASE analyzed.status = "kOk" /\ ~torn
  BY <1>1, <1>2, <1>5 DEF Chained, ReportContinues
<1> QED
  BY <1>3, <1>4, <1>5

\* Each report starts where the one before it ended: whatever calls are refused
\* or stopped in between, no change between two analysed frames goes unreported
\* unless its own call said that it ran out of memory.
THEOREM NoChangeIsSkipped == Spec => ReportsChain
<1>1. Init => Chained
  BY DEF Init, Chained, NoSignature
<1>2. ASSUME Chained, [Next]_vars PROVE Chained' /\ [ReportContinues]_vars
  <2>1. ASSUME NEW frame, NEW params, NEW stop, NEW fault, AnalyzeChange(frame, params, stop, fault)
        PROVE  Chained' /\ ReportContinues
    BY <1>2, <2>1, AnalyzeChangeContinuesTheChain
  <2>2. ASSUME NEW frame, NEW backend, NEW request, NEW stop, NEW fault,
               RunCapability(frame, backend, request, stop, fault)
        PROVE  UNCHANGED changeVars
    BY <2>2 DEF RunCapability
  <2>3. ASSUME NEW frame, NEW items, NEW options, NEW stable, NEW stop, NEW fault,
               Fuse(frame, items, options, stable, stop, fault)
        PROVE  UNCHANGED changeVars
    BY <2>3 DEF Fuse, Publish
  <2>4. ASSUME ClearResults PROVE UNCHANGED changeVars
    BY <2>4 DEF ClearResults
  <2>5. ASSUME NEW artifact, NEW fault, KeepArtifact(artifact, fault) PROVE UNCHANGED changeVars
    BY <2>5 DEF KeepArtifact
  <2>6. ASSUME NEW artifact, TakeArtifact(artifact) PROVE UNCHANGED changeVars
    BY <2>6 DEF TakeArtifact
  <2>7. ASSUME UNCHANGED vars PROVE UNCHANGED changeVars
    BY <2>7 DEF vars, changeVars
  <2>8. ASSUME UNCHANGED changeVars PROVE Chained' /\ ReportContinues
    BY <1>2, <2>8, OtherStepsKeepTheChain
  <2>9. ASSUME Next PROVE Chained' /\ ReportContinues
    <3>1. CASE \E frame \in Frames, params \in ChangeParams, mishap \in Mishaps(1) :
                 AnalyzeChange(frame, params, mishap[1], mishap[2])
      BY <2>1, <3>1
    <3>2. CASE RunOcr \/ RunDetector
      BY <2>2, <2>8, <3>2 DEF RunOcr, RunDetector
    <3>3. CASE \E frame \in Frames, items \in EvidenceSets, options \in FusionOptionSets,
                  stable \in StableOptionSets, mishap \in Mishaps(3) :
                 Fuse(frame, items, options, stable, mishap[1], mishap[2])
      BY <2>3, <2>8, <3>3
    <3>4. CASE \/ ClearResults
               \/ \E artifact \in Artifacts, fault \in Faults \ {"index"} : KeepArtifact(artifact, fault)
               \/ \E artifact \in Artifacts : TakeArtifact(artifact)
      BY <2>4, <2>5, <2>6, <2>8, <3>4
    <3> QED
      BY <2>9, <3>1, <3>2, <3>3, <3>4 DEF Next
  <2> QED
    BY <1>2, <2>7, <2>8, <2>9
<1> QED
  BY <1>1, <1>2, PTL DEF Spec, ReportsChain, ReportContinues

-----------------------------------------------------------------------------
(* The bytes of a list of entries *)

\* What the fold of Footprint does with the next entry.
AddBytes(given, sum, entry) == sum + entry.bytes

Bytes == INSTANCE FoldSteps WITH Op <- AddBytes

\* A set of entries that stays the same when the index forgets some of them.
Nodes(S) ==
  \A e \in S : /\ e.bytes \in Nat /\ e.live \in BOOLEAN
               /\ [e EXCEPT !.live = FALSE] \in S
               /\ [e EXCEPT !.live = FALSE].bytes = e.bytes
               /\ [e EXCEPT !.live = e.live] = e

\* The bytes of a list, added to what was counted before.
Weight(base, entries) == Bytes!Folded(0, base, entries)

\* Footprint is that sum.
LEMMA FootprintIsWeight ==
  ASSUME NEW cache
  PROVE  Footprint(cache) = Weight(0, cache.entries)
BY DEF Footprint, Weight, Bytes!Folded, AddBytes, FoldLeft, Bytes!FoldLeft, MapThenFoldSet,
       Bytes!MapThenFoldSet, Max, Bytes!Max

\* The sum starts from what was counted before.
LEMMA WeightStartsAtBase ==
  ASSUME NEW S, Nodes(S), NEW entries \in Seq(S), NEW base \in Int
  PROVE  Weight(0, entries) \in Nat /\ Weight(base, entries) = base + Weight(0, entries)
<1> DEFINE n == Len(entries)
<1>1. n \in Nat /\ DOMAIN entries = 1 .. n /\ \A i \in 1 .. n : entries[i].bytes \in Nat
  <2>1. n \in Nat /\ DOMAIN entries = 1 .. n
    BY LenProperties
  <2>2. ASSUME NEW i \in 1 .. n PROVE entries[i].bytes \in Nat
    <3>1. entries[i] \in S
      BY ElementOfSeq
    <3> QED
      BY <3>1 DEF Nodes
  <2> QED
    BY <2>1, <2>2
<1>2. PICK a : Bytes!Trace(0, 0, entries, n, a) /\ Weight(0, entries) = a[n]
  BY <1>1, Bytes!FoldTrace DEF Weight
<1>3. PICK b : Bytes!Trace(0, base, entries, n, b) /\ Weight(base, entries) = b[n]
  BY <1>1, Bytes!FoldTrace DEF Weight
<1> HIDE DEF n
<1> DEFINE S1 == {i \in 0 .. n : a[i] \in Nat /\ b[i] = base + a[i]}
<1>4. 0 \in S1
  BY <1>1, <1>2, <1>3 DEF Bytes!Trace
<1>5. ASSUME NEW i \in 1 .. n, i - 1 \in S1 PROVE i \in S1
  <2> DEFINE w == entries[i].bytes
             a0 == a[i - 1]
             b0 == b[i - 1]
  <2>1. a[i] = a0 + w /\ b[i] = b0 + w
    BY <1>2, <1>3 DEF Bytes!Trace, AddBytes
  <2>2. w \in Nat /\ a0 \in Nat /\ b0 = base + a0
    BY <1>1, <1>5
  <2> HIDE DEF w, a0, b0
  <2>3. a0 + w \in Nat /\ b0 + w = base + (a0 + w)
    BY <2>2
  <2>4. i \in 0 .. n
    BY <1>1
  <2> QED
    BY <2>1, <2>3, <2>4
<1> HIDE DEF S1
<1>6. \A i \in 0 .. n : i \in S1
  BY <1>1, <1>4, <1>5, Bytes!BoundedInduction
<1>7. n \in S1
  BY <1>1, <1>6
<1> QED
  BY <1>2, <1>3, <1>7 DEF S1

\* Two lists, one after the other, weigh what they weigh together.
LEMMA WeightOfConcat ==
  ASSUME NEW S, Nodes(S), NEW s \in Seq(S), NEW t \in Seq(S)
  PROVE  /\ s \o t \in Seq(S)
         /\ Weight(0, s) \in Nat /\ Weight(0, t) \in Nat
         /\ Weight(0, s \o t) = Weight(0, s) + Weight(0, t)
<1>1. Weight(0, s \o t) = Weight(Weight(0, s), t)
  BY Bytes!FoldConcat DEF Weight
<1>2. Weight(0, s) \in Nat
  BY WeightStartsAtBase
<1>3. Weight(0, t) \in Nat /\ Weight(Weight(0, s), t) = Weight(0, s) + Weight(0, t)
  <2> DEFINE base == Weight(0, s)
  <2>1. base \in Int
    BY <1>2
  <2> HIDE DEF base
  <2>2. Weight(0, t) \in Nat /\ Weight(base, t) = base + Weight(0, t)
    BY <2>1, WeightStartsAtBase
  <2> QED
    BY <2>2 DEF base
<1> QED
  BY <1>1, <1>2, <1>3, ConcatProperties

\* No entry weighs nothing, and one entry weighs its bytes.
LEMMA WeightOfShort ==
  ASSUME NEW S, Nodes(S), NEW e \in S
  PROVE  <<e>> \in Seq(S) /\ Weight(0, <<e>>) = e.bytes /\ Weight(0, <<>>) = 0
<1>1. Weight(0, <<e>>) = 0 + e.bytes /\ Weight(0, <<>>) = 0
  BY Bytes!FoldShort DEF Weight, AddBytes
<1>2. e.bytes \in Nat
  BY DEF Nodes
<1> QED
  BY <1>1, <1>2

\* An entry that leaves the list takes its bytes along.
LEMMA WeightOfRemoveAt ==
  ASSUME NEW S, Nodes(S), NEW entries \in Seq(S), NEW i \in DOMAIN entries
  PROVE  /\ entries[i] \in S /\ RemoveAt(entries, i) \in Seq(S)
         /\ Weight(0, RemoveAt(entries, i)) \in Nat
         /\ Weight(0, entries) = Weight(0, RemoveAt(entries, i)) + entries[i].bytes
<1> DEFINE n == Len(entries)
           before == SubSeq(entries, 1, i - 1)
           after == SubSeq(entries, i + 1, n)
           one == <<entries[i]>>
<1>1. n \in Nat /\ i \in 1 .. n /\ entries[i] \in S
  BY LenProperties, ElementOfSeq
<1>2. before \in Seq(S) /\ after \in Seq(S) /\ one \in Seq(S)
  <2>1. \A j \in 1 .. i - 1 : entries[j] \in S
    BY <1>1, ElementOfSeq
  <2>2. \A j \in i + 1 .. n : entries[j] \in S
    BY <1>1, ElementOfSeq
  <2>3. i - 1 \in Int /\ i + 1 \in Int /\ 1 \in Int /\ n \in Int
    BY <1>1
  <2> QED
    BY <1>1, <2>1, <2>2, <2>3, SubSeqProperties
<1>3. entries = (before \o one) \o after
  <2>1. 1 \in 1 .. n + 1 /\ i - 1 \in 0 .. n /\ i \in i - 1 .. n /\ n \in i - 1 .. n /\ n \in i .. n
    BY <1>1
  <2>2. SubSeq(entries, 1, i) = before \o one
    <3>1. 1 \in 1 .. Len(entries) /\ i \in 1 .. Len(entries)
      BY <1>1
    <3> QED
      BY <3>1, SubSeqRecursiveSecond
  <2>3. SubSeq(entries, 1, i) \o after = SubSeq(entries, 1, n)
    <3>1. i \in 1 - 1 .. n /\ 1 \in 1 .. n + 1 /\ n \in i .. n
      BY <1>1
    <3> QED
      BY <3>1, ConcatAdjacentSubSeq
  <2>4. SubSeq(entries, 1, n) = entries
    BY SubSeqFull
  <2> QED
    BY <2>2, <2>3, <2>4
<1>4. RemoveAt(entries, i) = before \o after
  BY DEF RemoveAt
<1> HIDE DEF before, after, one, n
<1>5. before \o one \in Seq(S) /\ Weight(0, before \o one) = Weight(0, before) + Weight(0, one)
  BY <1>2, WeightOfConcat
<1>6. Weight(0, entries) = Weight(0, before \o one) + Weight(0, after)
  BY <1>2, <1>3, <1>5, WeightOfConcat
<1>7. /\ before \o after \in Seq(S) /\ Weight(0, before) \in Nat /\ Weight(0, after) \in Nat
      /\ Weight(0, before \o after) = Weight(0, before) + Weight(0, after)
  BY <1>2, WeightOfConcat
<1>8. Weight(0, one) = entries[i].bytes /\ entries[i].bytes \in Nat
  BY <1>1, WeightOfShort DEF one, Nodes
<1> DEFINE wb == Weight(0, before)
           wa == Weight(0, after)
           w == entries[i].bytes
<1>9. Weight(0, entries) = (wb + w) + wa /\ Weight(0, RemoveAt(entries, i)) = wb + wa
  BY <1>4, <1>5, <1>6, <1>7, <1>8
<1>10. wb \in Nat /\ wa \in Nat /\ w \in Nat
  BY <1>7, <1>8
<1> HIDE DEF wb, wa, w
<1>11. (wb + w) + wa = (wb + wa) + w /\ wb + wa \in Nat
  BY <1>10
<1>12. RemoveAt(entries, i) \in Seq(S)
  BY <1>4, <1>7
<1> QED
  BY <1>1, <1>9, <1>11, <1>12 DEF w

\* An entry put in front adds its bytes.
LEMMA WeightOfFront ==
  ASSUME NEW S, Nodes(S), NEW entries \in Seq(S), NEW e \in S
  PROVE  /\ <<e>> \o entries \in Seq(S) /\ Weight(0, entries) \in Nat
         /\ Weight(0, <<e>> \o entries) = Weight(0, entries) + e.bytes
         /\ (<<e>> \o entries)[1] = e
<1> DEFINE one == <<e>>
<1>1. one \in Seq(S) /\ Weight(0, one) = e.bytes /\ e.bytes \in Nat
  BY WeightOfShort DEF Nodes
<1>2. (<<e>> \o entries)[1] = e
  OBVIOUS
<1> HIDE DEF one
<1>3. one \o entries \in Seq(S) /\ Weight(0, entries) \in Nat
      /\ Weight(0, one \o entries) = Weight(0, one) + Weight(0, entries)
  BY <1>1, WeightOfConcat
<1> QED
  BY <1>1, <1>2, <1>3 DEF one

-----------------------------------------------------------------------------
(* The operations of a cache *)

\* A cache of entries from S whose account misses `err' bytes.
Balanced(S, cache, max, err) ==
  /\ cache = [entries |-> cache.entries, used |-> cache.used, max |-> cache.max]
  /\ cache.entries \in Seq(S) /\ cache.used \in Int /\ cache.max = max
  /\ Weight(0, cache.entries) = cache.used + err

\* An empty cache is.
LEMMA EmptyIsBalanced ==
  ASSUME NEW S, NEW max
  PROVE  Balanced(S, EmptyCache(max), max, 0)
<1>1. Weight(0, <<>>) = 0
  BY Bytes!FoldShort DEF Weight
<1>2. <<>> \in Seq(S)
  BY EmptySeq
<1> QED
  BY <1>1, <1>2 DEF Balanced, EmptyCache

\* The index points into the list.
LEMMA LiveIsListed ==
  ASSUME NEW cache, NEW key, Holds(cache, key)
  PROVE  LET i == CHOOSE i \in LiveAt(cache, key) : TRUE
         IN  i \in DOMAIN cache.entries /\ cache.entries[i].live /\ cache.entries[i].key = key
<1> DEFINE i == CHOOSE i \in LiveAt(cache, key) : TRUE
<1>1. i \in LiveAt(cache, key)
  BY DEF Holds
<1> QED
  BY <1>1 DEF LiveAt

\* Erasing a key takes its bytes out of the list and of the account.
LEMMA ErasedIsBalanced ==
  ASSUME NEW S, Nodes(S), NEW max, NEW err \in Int, NEW cache, Balanced(S, cache, max, err), NEW key
  PROVE  Balanced(S, Erased(cache, key), max, err) /\ Erased(cache, key).used <= cache.used
<1>1. CASE ~Holds(cache, key)
  BY <1>1 DEF Erased, Balanced
<1>2. CASE Holds(cache, key)
  <2> DEFINE i == CHOOSE i \in LiveAt(cache, key) : TRUE
             w == cache.entries[i].bytes
             rest == RemoveAt(cache.entries, i)
             used == cache.used
             next == [entries |-> rest, used |-> used - w, max |-> max]
  <2>1. i \in DOMAIN cache.entries
    BY <1>2, LiveIsListed
  <2>2. Erased(cache, key) = [cache EXCEPT !.entries = rest, !.used = @ - w]
    BY <1>2 DEF Erased
  <2>3. Erased(cache, key) = next
    BY <2>2 DEF Balanced
  <2> HIDE DEF i
  <2>4. /\ cache.entries[i] \in S /\ rest \in Seq(S) /\ Weight(0, rest) \in Nat
        /\ Weight(0, cache.entries) = Weight(0, rest) + w
    BY <2>1, WeightOfRemoveAt DEF Balanced
  <2> DEFINE left == Weight(0, rest)
  <2>5. w \in Nat /\ used \in Int /\ left \in Nat /\ left + w = used + err
    BY <2>4 DEF Nodes, Balanced
  <2>6. next.entries = rest /\ next.used = used - w /\ next.max = max
    OBVIOUS
  <2> HIDE DEF left, used, w
  <2>7. used - w \in Int /\ used - w <= used /\ left = (used - w) + err
    BY <2>5
  <2> HIDE DEF rest
  <2>8. Balanced(S, next, max, err)
    BY <2>4, <2>6, <2>7 DEF Balanced, left
  <2> QED
    BY <2>3, <2>6, <2>7, <2>8 DEF used
<1> QED
  BY <1>1, <1>2

\* Dropping the tail as well, whichever entries the index forgets with it.
LEMMA DropTailIsBalanced ==
  ASSUME NEW S, Nodes(S), NEW max, NEW err \in Int, NEW cache, Balanced(S, cache, max, err),
         cache.entries # <<>>
  PROVE  /\ Balanced(S, DropTail(cache), max, err)
         /\ Len(DropTail(cache).entries) = Len(cache.entries) - 1
<1> DEFINE entries == cache.entries
           n == Len(entries)
           tail == Last(entries)
           rest == Front(entries)
           Unindexed(entry) == [entry EXCEPT !.live = @ /\ entry.key # tail.key]
           kept == [i \in DOMAIN rest |-> Unindexed(rest[i])]
           next == [entries |-> kept, used |-> cache.used - tail.bytes, max |-> max]
<1>1. DropTail(cache) = next
  <2>1. DropTail(cache) = [cache EXCEPT !.used = @ - tail.bytes, !.entries = kept]
    BY DEF DropTail
  <2> HIDE DEF kept, tail
  <2> QED
    BY <2>1 DEF Balanced
<1>2. n \in Nat \ {0} /\ n \in DOMAIN entries /\ entries \in Seq(S)
  BY EmptySeq, LenProperties DEF Balanced
<1>3. /\ RemoveAt(entries, n) \in Seq(S) /\ Weight(0, RemoveAt(entries, n)) \in Nat
      /\ entries[n] \in S
      /\ Weight(0, entries) = Weight(0, RemoveAt(entries, n)) + entries[n].bytes
  BY <1>2, WeightOfRemoveAt
<1>4. RemoveAt(entries, n) = rest /\ tail = entries[n]
  <2>1. SubSeq(entries, n + 1, n) = <<>>
    BY <1>2, SubSeqEmpty
  <2>2. \A j \in 1 .. n - 1 : entries[j] \in S
    BY <1>2, ElementOfSeq
  <2>3. SubSeq(entries, 1, n - 1) \in Seq(S)
    BY <1>2, <2>2, SubSeqProperties
  <2> QED
    BY <2>1, <2>3, ConcatEmptySeq DEF RemoveAt, Front, Last
<1>5. Len(rest) = n - 1
  <2>1. \A j \in 1 .. n - 1 : entries[j] \in S
    BY <1>2, ElementOfSeq
  <2>2. Len(SubSeq(entries, 1, n - 1)) = IF 1 <= n - 1 THEN (n - 1) - 1 + 1 ELSE 0
    BY <1>2, <2>1, SubSeqProperties
  <2> QED
    BY <1>2, <2>2 DEF Front
<1> HIDE DEF entries, n, tail, rest
<1> DEFINE m == n - 1
<1>6. rest \in Seq(S) /\ m \in Nat /\ Len(rest) = m /\ DOMAIN rest = 1 .. m
  BY <1>2, <1>3, <1>4, <1>5, LenProperties
<1> HIDE DEF m
<1>7. ASSUME NEW i \in 1 .. m
      PROVE  kept[i] \in S /\ kept[i].bytes = rest[i].bytes
  <2> DEFINE entry == rest[i]
  <2>1. entry \in S
    BY <1>6, ElementOfSeq
  <2>2. kept[i] = Unindexed(entry)
    BY <1>6
  <2> HIDE DEF entry
  <2>3. \/ entry.live /\ Unindexed(entry) = [entry EXCEPT !.live = entry.live]
        \/ Unindexed(entry) = [entry EXCEPT !.live = FALSE]
    <3> DEFINE mark == entry.live /\ entry.key # tail.key
    <3>1. entry.live \in BOOLEAN
      BY <2>1 DEF Nodes
    <3>2. mark = FALSE \/ (entry.live /\ mark = entry.live)
      BY <3>1
    <3>3. Unindexed(entry) = [entry EXCEPT !.live = mark]
      OBVIOUS
    <3> HIDE DEF mark
    <3> QED
      BY <3>2, <3>3
  <2> HIDE DEF Unindexed, kept
  <2>4. Unindexed(entry) \in S /\ Unindexed(entry).bytes = entry.bytes
    BY <2>1, <2>3 DEF Nodes
  <2> QED
    BY <2>2, <2>4 DEF entry
<1>8. DOMAIN kept = 1 .. m /\ kept = [i \in 1 .. m |-> kept[i]]
  BY <1>6
<1> HIDE DEF kept, Unindexed
<1>9. kept \in Seq(S) /\ Len(kept) = m
  <2>1. kept \in [1 .. m -> S]
    BY <1>7, <1>8
  <2>2. kept \in Seq(S)
    BY <1>6, <2>1, SeqDef
  <2> QED
    BY <1>6, <1>8, <2>2, LenProperties
<1>10. Weight(0, kept) = Weight(0, rest)
  <2>1. ASSUME NEW i \in 1 .. m, NEW acc PROVE AddBytes(0, acc, kept[i]) = AddBytes(0, acc, rest[i])
    BY <1>7 DEF AddBytes
  <2> QED
    BY <1>6, <1>8, <2>1, Bytes!FoldAlike DEF Weight
<1> DEFINE w == tail.bytes
           left == Weight(0, rest)
           used == cache.used
<1>11. w \in Nat /\ used \in Int /\ left \in Nat /\ left + w = used + err
  BY <1>3, <1>4 DEF Nodes, Balanced, entries
<1>12. next.entries = kept /\ next.used = used - w /\ next.max = max
  OBVIOUS
<1> HIDE DEF w, left, used
<1>13. used - w \in Int /\ left = (used - w) + err
  BY <1>11
<1>14. Balanced(S, next, max, err)
  BY <1>9, <1>10, <1>12, <1>13 DEF Balanced, left
<1> HIDE DEF next
<1> QED
  BY <1>1, <1>9, <1>12, <1>14 DEF m, n, entries

\* Dropping tails one after the other.
DropNext(given, cache, n) == DropTail(cache)

Drops == INSTANCE FoldSteps WITH Op <- DropNext

\* Making room drops tails until the bytes fit or nothing is left to drop.
LEMMA MadeRoomIsBalanced ==
  ASSUME NEW S, Nodes(S), NEW max, NEW err \in Int, NEW cache, Balanced(S, cache, max, err),
         NEW bytes
  PROVE  LET room == MadeRoom(cache, bytes)
         IN  Balanced(S, room, max, err) /\ (room.used + bytes <= max \/ room.entries = <<>>)
<1> DEFINE Dropping(f) == f = [n \in Nat |-> IF n = 0 THEN cache ELSE DropTail(f[n - 1])]
           Drop == CHOOSE f : Dropping(f)
           len == Len(cache.entries)
           Enough(n) == Drop[n].used + bytes <= cache.max \/ Drop[n].entries = <<>>
           First(n) == n \in 0 .. len /\ Enough(n) /\ \A m \in 0 .. n - 1 : ~Enough(m)
           stop == CHOOSE n \in 0 .. len : Enough(n) /\ \A m \in 0 .. n - 1 : ~Enough(m)
<1>1. MadeRoom(cache, bytes) = Drop[stop]
  BY DEF MadeRoom
<1>2. Dropping(Drop)
  <2>1. PICK f : Drops!Recursion(0, cache, f)
    BY Drops!RecursionExists
  <2>2. Dropping(f)
    BY <2>1 DEF Drops!Recursion, DropNext
  <2> HIDE DEF Dropping
  <2> QED
    BY <2>2
<1> HIDE DEF Drop
<1>3. len \in Nat
  BY LenProperties DEF Balanced
<1> DEFINE Sound(n) == Balanced(S, Drop[n], max, err) /\ Len(Drop[n].entries) = len - n
           P == {n \in 0 .. len : Sound(n)}
<1>4. 0 \in P
  BY <1>2, <1>3
<1>5. ASSUME NEW n \in 1 .. len, n - 1 \in P PROVE n \in P
  <2>1. Drop[n] = DropTail(Drop[n - 1])
    BY <1>2, <1>3
  <2> DEFINE before == Drop[n - 1]
  <2>2. Balanced(S, before, max, err) /\ Len(before.entries) = len - (n - 1)
    BY <1>5
  <2> HIDE DEF before
  <2>3. before.entries # <<>>
    BY <1>3, <2>2, EmptySeq
  <2>4. Balanced(S, DropTail(before), max, err) /\ Len(DropTail(before).entries) = len - n
    <3> DEFINE some == Len(before.entries)
    <3>1. /\ Balanced(S, DropTail(before), max, err)
          /\ Len(DropTail(before).entries) = some - 1
      BY <2>2, <2>3, DropTailIsBalanced
    <3>2. some = len - (n - 1)
      BY <2>2
    <3> HIDE DEF some
    <3>3. some - 1 = len - n
      BY <1>3, <3>2
    <3> QED
      BY <3>1, <3>3
  <2> QED
    BY <1>3, <2>1, <2>4 DEF before
<1> HIDE DEF P
<1>6. \A n \in 0 .. len : n \in P
  BY <1>3, <1>4, <1>5, Drops!BoundedInduction
<1> USE DEF P
<1>7. Enough(len)
  <2>1. Drop[len].entries \in Seq(S) /\ Len(Drop[len].entries) = 0
    <3>1. len \in P
      BY <1>3, <1>6
    <3> DEFINE all == Drop[len].entries
    <3>2. Balanced(S, Drop[len], max, err) /\ Len(all) = len - len
      BY <3>1
    <3> HIDE DEF all
    <3> QED
      BY <1>3, <3>2 DEF Balanced, all
  <2> QED
    BY <2>1, EmptySeq
<1> HIDE DEF P, Sound
<1>8. \E n \in Nat : First(n)
  <2> DEFINE Q == {n \in Nat : n <= len => ~Enough(n)}
  <2> HIDE DEF Enough
  <2> SUFFICES ASSUME \A n \in Nat : ~First(n) PROVE FALSE
    OBVIOUS
  <2> DEFINE R == {n \in Nat : \A m \in 0 .. n : m \in 0 .. len => ~Enough(m)}
  <2>1. 0 \in R
    BY <1>3
  <2>2. ASSUME NEW n \in Nat, n \in R PROVE n + 1 \in R
    <3>1. \A m \in 0 .. n : m \in 0 .. len => ~Enough(m)
      BY <2>2
    <3>2. n + 1 \in 0 .. len => ~Enough(n + 1)
      <4> SUFFICES ASSUME n + 1 \in 0 .. len, Enough(n + 1) PROVE FALSE
        OBVIOUS
      <4>1. \A m \in 0 .. (n + 1) - 1 : ~Enough(m)
        BY <1>3, <3>1
      <4> QED
        BY <4>1
    <3>3. \A m \in 0 .. n + 1 : m \in 0 .. n \/ m = n + 1
      BY <2>2
    <3> QED
      BY <3>1, <3>2, <3>3
  <2> HIDE DEF R
  <2>3. \A n \in Nat : n \in R
    BY <2>1, <2>2, Drops!SetInduction
  <2>4. ~Enough(len)
    <3>1. len \in R /\ len \in 0 .. len
      BY <1>3, <2>3
    <3> QED
      BY <3>1 DEF R
  <2> QED
    BY <1>7, <2>4
<1>9. First(stop)
  BY <1>8
<1> HIDE DEF stop
<1>10. stop \in 0 .. len /\ Enough(stop)
  BY <1>9
<1>11. Sound(stop)
  BY <1>6, <1>10 DEF P
<1> QED
  BY <1>1, <1>10, <1>11 DEF Sound, Balanced

\* Bytes that fit a budget.
Within(bytes, max) == bytes <= max

\* A list that begins with an entry outside of the index.
Spilling(cache, bytes) ==
  cache.entries # <<>> /\ ~cache.entries[1].live /\ cache.entries[1].bytes = bytes

\* An entry pushed in front is accounted for exactly, and the account stays within
\* the budget; a failed list node adds nothing, a failed index entry adds
\* an entry that the account misses.
LEMMA PushedIsBalanced ==
  ASSUME NEW S, Nodes(S), NEW max \in Nat, NEW err \in Nat, NEW cache,
         Balanced(S, cache, max, err), Within(cache.used, max),
         NEW key, NEW bytes \in Nat, Within(bytes, max), NEW value, NEW fault,
         \A live \in BOOLEAN : Entry(key, bytes, value, live) \in S
  PROVE  LET pushed == Pushed(cache, key, bytes, value, fault)
         IN  /\ Within(pushed.used, max)
             /\ fault # "index" => Balanced(S, pushed, max, err)
             /\ fault = "index" =>
                  Balanced(S, pushed, max, err + bytes) /\ Spilling(pushed, bytes)
<1> USE DEF Within, Spilling
<1> DEFINE room == MadeRoom(cache, bytes)
           used == room.used
           entries == room.entries
           left == Weight(0, entries)
           Put(live) == <<Entry(key, bytes, value, live)>> \o entries
<1>1. Balanced(S, room, max, err) /\ (used + bytes <= max \/ entries = <<>>)
  BY MadeRoomIsBalanced
<1> HIDE DEF room
<1>2. room = [entries |-> entries, used |-> used, max |-> max]
  BY <1>1 DEF Balanced
<1>3. entries \in Seq(S) /\ used \in Int /\ left = used + err
  BY <1>1 DEF Balanced
<1>4. ASSUME NEW live \in BOOLEAN
      PROVE  /\ Put(live) \in Seq(S) /\ left \in Nat /\ Weight(0, Put(live)) = left + bytes
             /\ Put(live)[1] = Entry(key, bytes, value, live)
  <2> DEFINE e == Entry(key, bytes, value, live)
  <2>1. e \in S
    BY <1>4
  <2>2. e.bytes = bytes
    BY DEF Entry
  <2> HIDE DEF e
  <2>3. /\ <<e>> \o entries \in Seq(S) /\ Weight(0, entries) \in Nat
        /\ Weight(0, <<e>> \o entries) = Weight(0, entries) + e.bytes
        /\ (<<e>> \o entries)[1] = e
    BY <1>3, <2>1, WeightOfFront
  <2> QED
    BY <2>2, <2>3 DEF e
<1>5. used + bytes <= max
  <2>1. CASE entries = <<>>
    <3>1. left = 0
      BY <2>1, Bytes!FoldShort DEF Weight
    <3> HIDE DEF used, left
    <3> QED
      BY <1>3, <3>1
  <2> QED
    BY <1>1, <2>1
<1> HIDE DEF left, Put, used, entries
<1>6. used <= max
  BY <1>3, <1>5
<1>7. CASE fault = "node"
  <2>1. Pushed(cache, key, bytes, value, fault) = room
    BY <1>7 DEF Pushed, room
  <2> QED
    BY <1>1, <1>6, <1>7, <2>1 DEF used
<1>8. CASE fault = "index"
  <2> DEFINE next == [entries |-> Put(FALSE), used |-> used, max |-> max]
  <2>1. Pushed(cache, key, bytes, value, fault) = [room EXCEPT !.entries = Put(FALSE)]
    BY <1>8 DEF Pushed, room, Put, entries
  <2>2. Pushed(cache, key, bytes, value, fault) = next
    BY <1>2, <2>1
  <2>3. /\ Put(FALSE) \in Seq(S) /\ Weight(0, Put(FALSE)) = left + bytes
        /\ Put(FALSE)[1] = Entry(key, bytes, value, FALSE)
    BY <1>4
  <2>4. left + bytes = used + (err + bytes)
    BY <1>3
  <2>5. next.entries = Put(FALSE) /\ next.used = used /\ next.max = max
    OBVIOUS
  <2>6. Balanced(S, next, max, err + bytes)
    BY <1>3, <2>3, <2>4, <2>5 DEF Balanced
  <2> DEFINE e == Entry(key, bytes, value, FALSE)
             front == Put(FALSE)[1]
  <2>7. e.bytes = bytes /\ e.live = FALSE /\ front = e
    BY <2>3 DEF Entry
  <2> HIDE DEF e
  <2>8. Put(FALSE) # <<>>
    <3>1. e \in S
      BY DEF e
    <3>2. Put(FALSE) = <<e>> \o entries
      BY DEF Put, e
    <3>3. <<e>> \in Seq(S)
      BY <3>1, WeightOfShort
    <3>4. <<e>> # <<>>
      OBVIOUS
    <3> DEFINE one == <<e>>
    <3> HIDE DEF one
    <3>5. one \o entries = <<>> <=> one = <<>> /\ entries = <<>>
      BY <1>3, <3>3, ConcatEqualIffEmpty DEF one
    <3> QED
      BY <3>2, <3>4, <3>5 DEF one
  <2>9. ~front.live /\ front.bytes = bytes
    BY <2>7
  <2> HIDE DEF next
  <2> QED
    BY <1>6, <1>8, <2>2, <2>5, <2>6, <2>8, <2>9
<1>9. CASE fault \notin {"node", "index"}
  <2> DEFINE next == [entries |-> Put(TRUE), used |-> used + bytes, max |-> max]
  <2>1. Pushed(cache, key, bytes, value, fault) = [room EXCEPT !.entries = Put(TRUE), !.used = @ + bytes]
    BY <1>9 DEF Pushed, room, Put, entries
  <2>2. Pushed(cache, key, bytes, value, fault) = next
    BY <1>2, <2>1
  <2>3. Put(TRUE) \in Seq(S) /\ Weight(0, Put(TRUE)) = left + bytes
    BY <1>4
  <2>4. left + bytes = (used + bytes) + err /\ used + bytes \in Int
    BY <1>3
  <2>5. next.entries = Put(TRUE) /\ next.used = used + bytes /\ next.max = max
    OBVIOUS
  <2>6. Balanced(S, next, max, err)
    BY <2>3, <2>4, <2>5 DEF Balanced
  <2> HIDE DEF next
  <2> QED
    BY <1>5, <1>9, <2>2, <2>5, <2>6
<1> QED
  BY <1>7, <1>8, <1>9

\* A hit moves its entry, and the account stays as it is.
LEMMA PromotedIsBalanced ==
  ASSUME NEW S, Nodes(S), NEW max, NEW err \in Int, NEW cache, Balanced(S, cache, max, err), NEW key
  PROVE  /\ Balanced(S, Promoted(cache, key), max, err)
         /\ Promoted(cache, key).used = cache.used
         /\ Holds(cache, key) =>
              /\ Promoted(cache, key).entries[1] \in S
              /\ Promoted(cache, key).entries[1].live /\ Promoted(cache, key).entries[1].key = key
<1>1. CASE ~Holds(cache, key)
  BY <1>1 DEF Promoted
<1>2. CASE Holds(cache, key)
  <2> DEFINE i == CHOOSE i \in LiveAt(cache, key) : TRUE
             e == cache.entries[i]
             rest == RemoveAt(cache.entries, i)
             entries == <<e>> \o rest
             next == [entries |-> entries, used |-> cache.used, max |-> max]
  <2>1. i \in DOMAIN cache.entries /\ e.live /\ e.key = key
    BY <1>2, LiveIsListed
  <2>2. Promoted(cache, key) = [cache EXCEPT !.entries = <<e>> \o RemoveAt(@, i)]
    BY <1>2 DEF Promoted
  <2>3. Promoted(cache, key) = next
    <3> HIDE DEF i, e
    <3> QED
      BY <2>2 DEF Balanced
  <2> HIDE DEF i
  <2>4. /\ e \in S /\ rest \in Seq(S) /\ Weight(0, rest) \in Nat
        /\ Weight(0, cache.entries) = Weight(0, rest) + e.bytes
    BY <2>1, WeightOfRemoveAt DEF Balanced
  <2> HIDE DEF e, rest
  <2>5. /\ entries \in Seq(S) /\ Weight(0, entries) = Weight(0, rest) + e.bytes
        /\ entries[1] = e
    BY <2>4, WeightOfFront
  <2>6. next.entries = entries /\ next.used = cache.used /\ next.max = max
    OBVIOUS
  <2> HIDE DEF entries
  <2>7. Balanced(S, next, max, err)
    BY <2>4, <2>5, <2>6 DEF Balanced
  <2> HIDE DEF next
  <2> QED
    BY <1>2, <2>1, <2>3, <2>4, <2>5, <2>6, <2>7
<1> QED
  BY <1>1, <1>2

-----------------------------------------------------------------------------
(* Questions and their answers *)

Asked == Frames \X Backends \X Requests

\* The tables hold what they were made from.
LEMMA TableHolds ==
  ASSUME NEW frame \in Frames, NEW backend \in Backends, NEW request \in Requests
  PROVE  /\ Questions[<<frame, backend, request>>] = Question(frame, backend, request)
         /\ Sights[<<frame, request>>] = Sight(frame, request)
<1> DEFINE questions == [asked \in Frames \X Backends \X Requests |-> Question(asked[1], asked[2], asked[3])]
           sights == [asked \in Frames \X Requests |-> Sight(asked[1], asked[2])]
           a == <<frame, backend, request>>
           b == <<frame, request>>
<1>1. a \in DOMAIN questions /\ questions[a] = Question(frame, backend, request)
  OBVIOUS
<1>2. b \in DOMAIN sights /\ sights[b] = Sight(frame, request)
  OBVIOUS
<1>3. Questions = Table(questions) /\ Sights = Table(sights)
  BY DEF Questions, Sights
<1> HIDE DEF questions, sights, a, b
<1> QED
  BY <1>1, <1>2, <1>3 DEF a, b, Table

\* The first failure of five checks is kOk only when all five are.
LEMMA AllOfFive ==
  ASSUME NEW a, NEW b, NEW c, NEW d, NEW e, FirstFailure(<<a, b, c, d, e>>) = "kOk"
  PROVE  e = "kOk"
<1> DEFINE statuses == <<a, b, c, d, e>>
           failed == {i \in DOMAIN statuses : statuses[i] # "kOk"}
<1>1. failed \in SUBSET {1, 2, 3, 4, 5} /\ (5 \in failed <=> e # "kOk")
  OBVIOUS
<1>2. \A i \in failed : statuses[i] # "kOk"
  OBVIOUS
<1>3. failed # {} => statuses[Min(failed)] = "kOk"
  BY DEF FirstFailure
<1> HIDE DEF failed, statuses
<1>4. failed # {} => Min(failed) \in failed
  BY <1>1, FirstOfFive
<1> QED
  BY <1>1, <1>2, <1>3, <1>4

\* What a question that is not refused is made of.
LEMMA QuestionInside ==
  ASSUME NEW frame, NEW backend, NEW request, Question(frame, backend, request).refused = "kOk"
  PROVE  LET question == Question(frame, backend, request)
         IN  \E roi, print :
               /\ question.key = CacheKey(print, roi, request, backend)
               /\ Sight(frame, request) = {<<roi, Ok(print)>>}
<1> DEFINE executed == ExecutedRoi(frame.image, request)
           roi == executed.value
           cropped == Crop(frame.image, roi, WorkBudget(frame.image))
           print == Fingerprint(cropped.value)
           refused == Refused(frame, backend, request)
           question == Question(frame, backend, request)
<1>1. refused = "kOk" => executed.status = "kOk"
  BY AllOfFive DEF Refused
<1> HIDE DEF executed, refused
<1>2. refused = "kOk" /\ cropped.status = "kOk" /\ print.status = "kOk"
      /\ question.key = CacheKey(print.value, roi, request, backend)
  <2> HIDE DEF cropped, print, roi
  <2>1. refused # "kOk" => question.refused = refused
    BY DEF Question, refused
  <2>2. refused = "kOk" /\ cropped.status # "kOk" => question.refused = cropped.status
    BY DEF Question, refused, cropped, roi, executed
  <2>3. refused = "kOk" /\ cropped.status = "kOk" /\ print.status # "kOk"
          => question.refused = print.status
    BY DEF Question, refused, cropped, print, roi, executed
  <2>4. refused = "kOk" /\ cropped.status = "kOk" /\ print.status = "kOk"
          => question.key = CacheKey(print.value, roi, request, backend)
    BY DEF Question, refused, cropped, print, roi, executed
  <2> HIDE DEF question
  <2>5. question.refused = "kOk"
    BY DEF question
  <2> QED
    BY <2>1, <2>2, <2>3, <2>4, <2>5
<1>3. Then(cropped, Fingerprint) = print
  <2> HIDE DEF cropped
  <2> QED
    BY <1>2 DEF Then
<1>4. print = Ok(print.value)
  <2> DEFINE gray == GrayThumbnail(cropped.value, HashWidth, HashHeight)
  <2>1. print = IF gray.status = "kOk" THEN Ok(Dhash(gray.value)) ELSE gray
    BY DEF Fingerprint, Then
  <2> HIDE DEF gray, print, cropped
  <2>2. print = Ok(Dhash(gray.value))
    BY <1>2, <2>1
  <2> QED
    BY <2>2 DEF Ok
<1>5. Sight(frame, request) = {<<roi, print>>}
  <2>1. Sight(frame, request) = {<<roi, Then(cropped, Fingerprint)>>}
    <3> HIDE DEF cropped
    <3> QED
      BY <1>1, <1>2 DEF Sight, cropped, executed
  <2> QED
    BY <1>3, <2>1
<1> HIDE DEF print, roi
<1> QED
  BY <1>2, <1>4, <1>5

\* A model answers with one region.
LEMMA AnswerIsCounted ==
  ASSUME NEW frame, NEW backend, NEW request,
         Question(frame, backend, request).refused = "kOk",
         Question(frame, backend, request).fresh.status = "kOk"
  PROVE  LET fresh == Question(frame, backend, request).fresh
         IN  fresh = Ok(fresh.value) /\ Payload(request, fresh.value).bytes \in Nat
<1> DEFINE executed == ExecutedRoi(frame.image, request)
           roi == executed.value
           cropped == Crop(frame.image, roi, WorkBudget(frame.image))
           print == Fingerprint(cropped.value)
           refused == Refused(frame, backend, request)
           prepared == PrepareChain(cropped.value, roi, request.max_side, backend.accepts, frame.image)
           question == Question(frame, backend, request)
           fresh == Then(prepared, LAMBDA image : FreshAnswer(image, backend, request))
<1>1. question.fresh = fresh
  <2> HIDE DEF executed, refused, fresh
  <2>1. refused # "kOk" => question.refused = refused
    BY DEF Question, refused
  <2> HIDE DEF cropped, print
  <2>2. refused = "kOk" /\ cropped.status # "kOk" => question.refused = cropped.status
    BY DEF Question, refused, cropped, executed
  <2>3. refused = "kOk" /\ cropped.status = "kOk" /\ print.status # "kOk"
          => question.refused = print.status
    BY DEF Question, refused, cropped, print, executed
  <2>4. refused = "kOk" /\ cropped.status = "kOk" /\ print.status = "kOk"
          => question.fresh = fresh
    BY DEF Question, refused, cropped, print, executed, fresh
  <2> HIDE DEF question
  <2>5. question.refused = "kOk"
    BY DEF question
  <2> QED
    BY <2>1, <2>2, <2>3, <2>4, <2>5
<1>2. fresh.status = "kOk"
  BY <1>1
<1> HIDE DEF prepared, question
<1> DEFINE image == prepared.value
           recovery == RecoveryTo(image, request.output_space)
           answer == BackendAnswer(backend, image.buffer, request)
<1>3. fresh = Ok(Recovered(answer, recovery.value))
  <2>1. prepared.status = "kOk"
    BY <1>2 DEF Then
  <2>2. fresh = FreshAnswer(image, backend, request)
    BY <2>1 DEF Then
  <2> HIDE DEF fresh, image
  <2>3. fresh = IF backend.answers # "kOk" THEN Failed(backend.answers)
                ELSE IF recovery.status = "kOk" THEN Ok(Recovered(answer, recovery.value))
                ELSE recovery
    BY <2>2 DEF FreshAnswer, Then
  <2> HIDE DEF recovery, answer
  <2>4. Failed(backend.answers).status = backend.answers
    BY DEF Failed
  <2> QED
    BY <1>2, <2>3, <2>4
<1> DEFINE value == Recovered(answer, recovery.value)
<1>4. Len(value) = 1
  <2>1. DOMAIN answer = 1 .. 1
    BY DEF BackendAnswer
  <2> HIDE DEF answer, recovery
  <2>2. DOMAIN value = 1 .. 1
    BY <2>1 DEF Recovered
  <2>3. value = [i \in 1 .. 1 |-> value[i]]
    BY <2>1 DEF Recovered
  <2> HIDE DEF value
  <2>4. value \in Seq({value[1]})
    <3>1. value \in [1 .. 1 -> {value[1]}]
      BY <2>3
    <3> QED
      BY <3>1, SeqDef
  <2> QED
    BY <2>2, <2>4, LenProperties
<1> HIDE DEF value
<1>5. fresh = Ok(value)
  BY <1>3 DEF value
<1> HIDE DEF fresh
<1>6. fresh.value = value /\ fresh = Ok(fresh.value)
  BY <1>5 DEF Ok
<1>7. Payload(request, value).bytes \in Nat
  BY <1>4 DEF Payload, PayloadBytes
<1> QED
  BY <1>1, <1>6, <1>7 DEF question

-----------------------------------------------------------------------------
(* What the two caches hold *)

\* The calls whose answer may be kept.
Answerable ==
  {a \in Asked : Questions[a].refused = "kOk" /\ Questions[a].fresh.status = "kOk"}

\* A stored result is what a call that went through put under its own key.
ResultOf(a, bytes, live) ==
  Entry(Questions[a].key, bytes, Payload(a[3], Questions[a].fresh.value), live)

Results == {ResultOf(a, bytes, live) : a \in Answerable, bytes \in Nat, live \in BOOLEAN}

Kept == {Entry(artifact.key, bytes, artifact, live) : artifact \in Artifacts, bytes \in Nat, live \in BOOLEAN}

\* The accounts of both caches, and where their entries come from.
CacheInv ==
  /\ spilled \in Nat
  /\ result_cache.used <= ResultBytes /\ Balanced(Results, result_cache, ResultBytes, spilled)
  /\ frame_cache.used <= FrameBytes /\ Balanced(Kept, frame_cache, FrameBytes, 0)

\* An entry without its index entry is still one.
LEMMA EntryUnindexed ==
  ASSUME NEW key, NEW bytes, NEW value, NEW live
  PROVE  /\ Entry(key, bytes, value, live).bytes = bytes /\ Entry(key, bytes, value, live).live = live
         /\ \A mark : [Entry(key, bytes, value, live) EXCEPT !.live = mark] = Entry(key, bytes, value, mark)
<1>1. Entry(key, bytes, value, live).bytes = bytes
  BY DEF Entry
<1>2. Entry(key, bytes, value, live).live = live
  BY DEF Entry
<1>3. ASSUME NEW mark
      PROVE  [Entry(key, bytes, value, live) EXCEPT !.live = mark] = Entry(key, bytes, value, mark)
  BY DEF Entry
<1> QED
  BY <1>1, <1>2, <1>3

\* Any number of bytes and either mark make an entry of the two sets.
LEMMA EntryIsKnown ==
  /\ \A a \in Answerable, bytes \in Nat, live \in BOOLEAN : ResultOf(a, bytes, live) \in Results
  /\ \A artifact \in Artifacts, bytes \in Nat, live \in BOOLEAN :
       Entry(artifact.key, bytes, artifact, live) \in Kept
<1>1. ASSUME NEW a \in Answerable, NEW bytes \in Nat, NEW live \in BOOLEAN
      PROVE  ResultOf(a, bytes, live) \in Results
  BY DEF Results
<1>2. ASSUME NEW artifact \in Artifacts, NEW bytes \in Nat, NEW live \in BOOLEAN
      PROVE  Entry(artifact.key, bytes, artifact, live) \in Kept
  BY DEF Kept
<1> QED
  BY <1>1, <1>2

\* Both sets of entries are closed under what the index forgets.
LEMMA KnownNodes == Nodes(Results) /\ Nodes(Kept)
<1> DEFINE Node(e, S) == /\ e.bytes \in Nat /\ e.live \in BOOLEAN
                         /\ [e EXCEPT !.live = FALSE] \in S
                         /\ [e EXCEPT !.live = FALSE].bytes = e.bytes
                         /\ [e EXCEPT !.live = e.live] = e
<1>1. ASSUME NEW S, NEW key, NEW bytes \in Nat, NEW value, NEW live \in BOOLEAN,
             Entry(key, bytes, value, FALSE) \in S
      PROVE  Node(Entry(key, bytes, value, live), S)
  <2> DEFINE e == Entry(key, bytes, value, live)
             off == FALSE
             f == Entry(key, bytes, value, off)
  <2>1. e.bytes = bytes /\ e.live = live /\ \A mark : [e EXCEPT !.live = mark] = Entry(key, bytes, value, mark)
    BY EntryUnindexed
  <2>2. f.bytes = bytes
    <3> HIDE DEF off
    <3> QED
      BY EntryUnindexed
  <2>3. [e EXCEPT !.live = off] = f
    BY <2>1
  <2>4. [e EXCEPT !.live = live] = e
    BY <2>1
  <2>5. f \in S
    BY <1>1
  <2>6. [e EXCEPT !.live = off] \in S /\ [e EXCEPT !.live = off].bytes = e.bytes
    <3> HIDE DEF e, f, off
    <3> QED
      BY <2>1, <2>2, <2>3, <2>5
  <2>7. [e EXCEPT !.live = e.live] = e
    <3> HIDE DEF e
    <3> QED
      BY <2>1, <2>4
  <2> HIDE DEF e
  <2> QED
    BY <2>1, <2>6, <2>7
<1>2. ASSUME NEW e \in Results PROVE Node(e, Results)
  <2>1. PICK a \in Answerable, bytes \in Nat, live \in BOOLEAN : e = ResultOf(a, bytes, live)
    BY DEF Results
  <2> DEFINE key == Questions[a].key
             value == Payload(a[3], Questions[a].fresh.value)
             off == FALSE
  <2>2. e = Entry(key, bytes, value, live)
    BY <2>1 DEF ResultOf
  <2>3. off \in BOOLEAN
    OBVIOUS
  <2> HIDE DEF off
  <2>4. Entry(key, bytes, value, off) \in Results
    BY <2>3, EntryIsKnown DEF ResultOf
  <2> HIDE DEF key, value, Node
  <2> QED
    BY <1>1, <2>2, <2>4 DEF off
<1>3. ASSUME NEW e \in Kept PROVE Node(e, Kept)
  <2>1. PICK artifact \in Artifacts, bytes \in Nat, live \in BOOLEAN :
          e = Entry(artifact.key, bytes, artifact, live)
    BY DEF Kept
  <2> DEFINE key == artifact.key
             off == FALSE
  <2>2. off \in BOOLEAN
    OBVIOUS
  <2> HIDE DEF off
  <2>3. Entry(key, bytes, artifact, off) \in Kept
    BY <2>2, EntryIsKnown
  <2>4. e = Entry(key, bytes, artifact, live)
    BY <2>1
  <2> HIDE DEF key, Node
  <2> QED
    BY <1>1, <2>3, <2>4 DEF off
<1> QED
  BY <1>2, <1>3 DEF Nodes

\* What storing an answer leaves of the account.
Accounted(cache, fault) ==
  /\ cache.used <= ResultBytes
  /\ fault # "index" => Balanced(Results, cache, ResultBytes, spilled)
  /\ fault = "index" =>
       Spill(cache) \in Nat /\ Balanced(Results, cache, ResultBytes, spilled + Spill(cache))

\* A cache that stays as it is spills nothing.
LEMMA UntouchedIsAccounted ==
  ASSUME CacheInv, NEW fault
  PROVE  Accounted(result_cache, fault)
<1>1. Spill(result_cache) = 0
  BY DEF Spill
<1>2. spilled + 0 = spilled
  BY DEF CacheInv
<1> QED
  BY <1>1, <1>2 DEF Accounted, CacheInv

\* Nor does a hit.
LEMMA HitIsAccounted ==
  ASSUME CacheInv, NEW key, NEW fault, Holds(result_cache, key)
  PROVE  Accounted(Promoted(result_cache, key), fault)
<1> DEFINE promoted == Promoted(result_cache, key)
<1>1. /\ Balanced(Results, promoted, ResultBytes, spilled)
      /\ promoted.used = result_cache.used /\ promoted.entries[1].live
  BY KnownNodes, PromotedIsBalanced DEF CacheInv
<1> HIDE DEF promoted
<1>2. Spill(promoted) = 0
  BY <1>1 DEF Spill
<1>3. spilled + 0 = spilled
  BY DEF CacheInv
<1> QED
  BY <1>1, <1>2, <1>3 DEF Accounted, CacheInv, promoted

\* An insertion accounts for its entry, or spills it when the index entry fails.
LEMMA InsertIsAccounted ==
  ASSUME CacheInv, NEW a \in Answerable, NEW fault
  PROVE  Accounted(CapabilityInsert(result_cache, Questions[a].key,
                                    Payload(a[3], Questions[a].fresh.value), fault).cache, fault)
<1> DEFINE key == Questions[a].key
           value == Payload(a[3], Questions[a].fresh.value)
           bytes == Overhead + value.bytes
           erased == Erased(result_cache, key)
           pushed == Pushed(erased, key, bytes, value, fault)
           inserted == CapabilityInsert(result_cache, key, value, fault)
<1>1. value.bytes \in Nat
  <2>1. PICK frame \in Frames, backend \in Backends, request \in Requests :
          a = <<frame, backend, request>>
    BY DEF Answerable, Asked
  <2> DEFINE question == Question(frame, backend, request)
  <2>2. Questions[a] = question
    BY <2>1, TableHolds
  <2>3. question.refused = "kOk" /\ question.fresh.status = "kOk"
    BY <2>2 DEF Answerable
  <2>4. Payload(request, question.fresh.value).bytes \in Nat
    BY <2>3, AnswerIsCounted
  <2> HIDE DEF question
  <2> QED
    BY <2>1, <2>2, <2>4
<1>2. bytes \in Nat
  <2> HIDE DEF value
  <2> QED
    BY <1>1 DEF Overhead
<1>3. inserted.cache = result_cache \/ (bytes <= ResultBytes /\ inserted.cache = pushed)
  <2> HIDE DEF key, value, pushed
  <2>1. inserted = Stored(result_cache, "kInvalidArgument") \/ inserted = Stored(result_cache, "kBudgetExceeded")
        \/ (~(bytes > result_cache.max) /\ inserted = Stored(pushed, StatusOf(fault)))
    BY DEF CapabilityInsert, pushed
  <2>2. \A cache, status : Stored(cache, status).cache = cache
    BY DEF Stored
  <2> HIDE DEF bytes, inserted
  <2>3. result_cache.max = ResultBytes
    BY DEF CacheInv, Balanced
  <2>4. ~(bytes > ResultBytes) => bytes <= ResultBytes
    BY <1>2, BytesAssumption
  <2> QED
    BY <2>1, <2>2, <2>3, <2>4
<1>4. Balanced(Results, erased, ResultBytes, spilled) /\ erased.used <= ResultBytes
  <2> HIDE DEF key
  <2>1. Balanced(Results, erased, ResultBytes, spilled) /\ erased.used <= result_cache.used
    BY KnownNodes, ErasedIsBalanced DEF CacheInv
  <2> DEFINE was == result_cache.used
             is == erased.used
  <2>2. was \in Int /\ is \in Int /\ was <= ResultBytes /\ is <= was
    BY <2>1 DEF CacheInv, Balanced
  <2> HIDE DEF was, is
  <2>3. is <= ResultBytes
    BY <2>2, BytesAssumption
  <2> QED
    BY <2>1, <2>3 DEF is
<1>5. \A live \in BOOLEAN : Entry(key, bytes, value, live) \in Results
  <2> HIDE DEF bytes
  <2> QED
    BY <1>2, EntryIsKnown DEF ResultOf
<1> HIDE DEF key, value, bytes, erased, inserted
<1>6. CASE inserted.cache = result_cache
  BY <1>6, UntouchedIsAccounted DEF inserted, key, value
<1>7. CASE bytes <= ResultBytes /\ inserted.cache = pushed
  <2>1. /\ Within(pushed.used, ResultBytes)
        /\ fault # "index" => Balanced(Results, pushed, ResultBytes, spilled)
        /\ fault = "index" =>
             Balanced(Results, pushed, ResultBytes, spilled + bytes) /\ Spilling(pushed, bytes)
    <3>1. /\ ResultBytes \in Nat /\ spilled \in Nat /\ Nodes(Results)
          /\ Within(bytes, ResultBytes) /\ Within(erased.used, ResultBytes)
      BY <1>4, <1>7, KnownNodes, BytesAssumption DEF CacheInv, Within
    <3> QED
      BY <1>2, <1>4, <1>5, <3>1, PushedIsBalanced DEF pushed
  <2> HIDE DEF pushed
  <2>2. CASE pushed = result_cache
    BY <1>7, <2>2, UntouchedIsAccounted DEF inserted, key, value
  <2>3. CASE pushed # result_cache
    <3>1. fault = "index" => Spill(pushed) = bytes
      BY <2>1, <2>3 DEF Spill, Spilling
    <3> QED
      BY <1>2, <1>7, <2>1, <3>1 DEF Accounted, Within, inserted, key, value
  <2> QED
    BY <2>2, <2>3
<1> QED
  BY <1>3, <1>6, <1>7

\* A call that no check fails passes the last of them.
LEMMA LastPasses ==
  ASSUME NEW a, NEW b, NEW c
  PROVE  /\ FirstFailure(<<a, b>>) = "kOk" => b = "kOk"
         /\ FirstFailure(<<a, b, c>>) = "kOk" => c = "kOk"
<1>1. \A x, y, z :
        /\ FirstFailure(<<x, y>>) = IF x # "kOk" THEN x ELSE y
        /\ FirstFailure(<<x, y, z>>) = IF x # "kOk" THEN x ELSE IF y # "kOk" THEN y ELSE z
  BY FailureOrder
<1> QED
  BY <1>1

\* The ways a call may end, by what it makes of the cache.
LEMMA OutcomeWays ==
  ASSUME NEW question, NEW request, NEW stop, NEW fault
  PROVE  LET outcome == Outcome(question, request, stop, fault)
             inserted == CapabilityInsert(result_cache, question.key,
                                          Payload(request, question.fresh.value), fault)
         IN  \/ outcome.status # "kOk" /\ outcome.cache = result_cache
             \/ /\ question.refused = "kOk" /\ Holds(result_cache, question.key)
                /\ outcome.cache = Promoted(result_cache, question.key)
                /\ outcome.answer = Lookup(result_cache, question.key, <<>>).answer
             \/ /\ question.refused = "kOk" /\ question.fresh.status = "kOk"
                /\ outcome.cache = result_cache \/ outcome.cache = inserted.cache
                /\ outcome.status = "kOk" => outcome.answer = question.fresh.value
<1> DEFINE outcome == Outcome(question, request, stop, fault)
           inserted == CapabilityInsert(result_cache, question.key,
                                        Payload(request, question.fresh.value), fault)
           first == Polled(stop, 1)
           second == Polled(stop, 2)
           early == FirstFailure(<<first, question.refused>>)
           failure == FirstFailure(<<question.prepared, second, question.fresh.status>>)
           hit == request.policy # "kRefresh" /\ Holds(result_cache, question.key)
           late == AfterBackend(question, request, stop, fault)
<1>1. ASSUME NEW s, NEW answer, NEW cache
      PROVE  /\ Ended(s, answer, cache).status = s /\ Ended(s, answer, cache).cache = cache
             /\ Ended(s, answer, cache).answer = answer
  BY DEF Ended
<1>2. early = "kOk" => question.refused = "kOk"
  BY LastPasses
<1>3. failure = "kOk" => question.fresh.status = "kOk"
  BY LastPasses
<1> HIDE DEF early, failure, first, second, inserted
<1>4. CASE early # "kOk"
  <2>1. outcome = Ended(early, <<>>, result_cache)
    BY <1>4 DEF Outcome, early, first
  <2> HIDE DEF outcome
  <2> QED
    BY <1>1, <1>4, <2>1 DEF outcome
<1>5. CASE early = "kOk" /\ hit
  <2>1. outcome = Ended("kOk", Lookup(result_cache, question.key, <<>>).answer,
                        Promoted(result_cache, question.key))
    BY <1>5 DEF Outcome, early, first
  <2> HIDE DEF outcome
  <2> QED
    BY <1>1, <1>2, <1>5, <2>1 DEF outcome
<1>6. CASE early = "kOk" /\ ~hit
  <2>1. outcome = late
    BY <1>6 DEF Outcome, early, first
  <2>2. CASE failure # "kOk"
    <3>1. late = Ended(failure, <<>>, result_cache)
      BY <2>2 DEF AfterBackend, failure, second
    <3> HIDE DEF outcome, late
    <3> QED
      BY <1>1, <2>1, <2>2, <3>1 DEF outcome
  <2>3. CASE failure = "kOk" /\ request.policy = "kReadOnly"
    <3>1. late = Ended("kOk", question.fresh.value, result_cache)
      BY <2>3 DEF AfterBackend, failure, second
    <3> HIDE DEF outcome, late
    <3> QED
      BY <1>1, <1>2, <1>3, <1>6, <2>1, <2>3, <3>1 DEF outcome
  <2>4. CASE failure = "kOk" /\ request.policy # "kReadOnly"
    <3>1. late = Ended(inserted.status, IF inserted.status = "kOk" THEN question.fresh.value ELSE <<>>,
                       inserted.cache)
      BY <2>4 DEF AfterBackend, failure, second, inserted
    <3> HIDE DEF outcome, late
    <3> QED
      BY <1>1, <1>2, <1>3, <1>6, <2>1, <2>4, <3>1 DEF outcome, inserted
  <2> QED
    BY <2>2, <2>3, <2>4
<1> QED
  BY <1>4, <1>5, <1>6

\* A question that goes through is answerable.
LEMMA AnswerableOf ==
  ASSUME NEW frame \in Frames, NEW backend \in Backends, NEW request \in Requests,
         Questions[<<frame, backend, request>>].refused = "kOk",
         Questions[<<frame, backend, request>>].fresh.status = "kOk"
  PROVE  <<frame, backend, request>> \in Answerable /\ <<frame, backend, request>>[3] = request
BY DEF Answerable, Asked

\* Whatever becomes of a call, the account of the results stays in order.
LEMMA CallIsAccounted ==
  ASSUME CacheInv, NEW frame \in Frames, NEW backend \in Backends, NEW request \in Requests,
         NEW stop, NEW fault, RunCapability(frame, backend, request, stop, fault)
  PROVE  CacheInv'
<1> DEFINE a == <<frame, backend, request>>
           question == Questions[a]
           outcome == Outcome(question, request, stop, fault)
           inserted == CapabilityInsert(result_cache, question.key,
                                        Payload(request, question.fresh.value), fault)
<1>1. Accounted(outcome.cache, fault)
  <2>1. CASE outcome.cache = result_cache
    BY <2>1, UntouchedIsAccounted
  <2>2. CASE /\ Holds(result_cache, question.key)
             /\ outcome.cache = Promoted(result_cache, question.key)
    BY <2>2, HitIsAccounted
  <2>3. CASE /\ question.refused = "kOk" /\ question.fresh.status = "kOk"
             /\ outcome.cache = inserted.cache
    <3>1. a \in Answerable /\ a[3] = request
      BY <2>3, AnswerableOf
    <3>2. Accounted(CapabilityInsert(result_cache, Questions[a].key,
                                     Payload(a[3], Questions[a].fresh.value), fault).cache, fault)
      BY <3>1, InsertIsAccounted
    <3> HIDE DEF a
    <3> QED
      BY <2>3, <3>1, <3>2
  <2> HIDE DEF question
  <2>4. \/ outcome.cache = result_cache
        \/ Holds(result_cache, question.key) /\ outcome.cache = Promoted(result_cache, question.key)
        \/ /\ question.refused = "kOk" /\ question.fresh.status = "kOk"
           /\ outcome.cache = inserted.cache
    BY OutcomeWays
  <2> HIDE DEF outcome, inserted
  <2> QED
    BY <2>1, <2>2, <2>3, <2>4
<1>2. /\ result_cache' = outcome.cache /\ frame_cache' = frame_cache
      /\ spilled' = spilled + (IF fault = "index" THEN Spill(outcome.cache) ELSE 0)
  BY DEF RunCapability
<1> HIDE DEF outcome
<1> DEFINE spill == Spill(outcome.cache)
<1>3. spilled \in Nat /\ outcome.cache.used <= ResultBytes
  BY <1>1 DEF CacheInv, Accounted
<1>4. spilled' \in Nat /\ Balanced(Results, outcome.cache, ResultBytes, spilled')
  <2>1. CASE fault = "index"
    <3>1. spilled' = spilled + spill
      BY <1>2, <2>1
    <3>2. spill \in Nat /\ Balanced(Results, outcome.cache, ResultBytes, spilled + spill)
      BY <1>1, <2>1 DEF Accounted
    <3> HIDE DEF spill
    <3> QED
      BY <1>3, <3>1, <3>2
  <2>2. CASE fault # "index"
    <3>1. spilled' = spilled
      BY <1>2, <1>3, <2>2
    <3> QED
      BY <1>1, <1>3, <2>2, <3>1 DEF Accounted
  <2> QED
    BY <2>1, <2>2
<1>5. Results' = Results /\ Kept' = Kept
  BY DEF Results, Kept
<1> QED
  BY <1>2, <1>3, <1>4, <1>5 DEF CacheInv, Balanced

\* The caller's artifacts are accounted for exactly.
LEMMA ArtifactIsAccounted ==
  ASSUME CacheInv, NEW artifact \in Artifacts, NEW fault, fault # "index",
         KeepArtifact(artifact, fault)
  PROVE  CacheInv'
<1> DEFINE key == artifact.key
           bytes == artifact.size + Overhead
           erased == Erased(frame_cache, key)
           pushed == Pushed(erased, key, bytes, artifact, fault)
           stored == FrameInsert(frame_cache, key, artifact.size, artifact, fault)
<1>1. bytes \in Nat /\ FrameBytes \in Nat
  <2>1. artifact.size \in Nat
    BY BytesAssumption
  <2> QED
    BY <2>1, BytesAssumption DEF Overhead
<1>2. stored.cache = frame_cache \/ (Within(bytes, FrameBytes) /\ stored.cache = pushed)
  <2>1. \A cache, status : Stored(cache, status).cache = cache
    BY DEF Stored
  <2> HIDE DEF pushed, key
  <2>2. \/ stored = Stored(frame_cache, "kBudgetExceeded")
        \/ ~(bytes > frame_cache.max) /\ stored = Stored(pushed, StatusOf(fault))
    BY DEF FrameInsert, pushed
  <2>3. frame_cache.max = FrameBytes
    BY DEF CacheInv, Balanced
  <2> HIDE DEF bytes, stored
  <2>4. ~(bytes > FrameBytes) => Within(bytes, FrameBytes)
    BY <1>1 DEF Within
  <2> QED
    BY <2>1, <2>2, <2>3, <2>4
<1>3. Balanced(Kept, erased, FrameBytes, 0) /\ Within(erased.used, FrameBytes)
  <2> HIDE DEF key
  <2>1. Balanced(Kept, erased, FrameBytes, 0) /\ erased.used <= frame_cache.used
    BY KnownNodes, ErasedIsBalanced DEF CacheInv
  <2> DEFINE was == frame_cache.used
             is == erased.used
  <2>2. was \in Int /\ is \in Int /\ was <= FrameBytes /\ is <= was
    BY <2>1 DEF CacheInv, Balanced
  <2> HIDE DEF was, is
  <2>3. Within(is, FrameBytes)
    BY <1>1, <2>2 DEF Within
  <2> QED
    BY <2>1, <2>3 DEF is
<1>4. \A live \in BOOLEAN : Entry(key, bytes, artifact, live) \in Kept
  <2> HIDE DEF bytes
  <2> QED
    BY <1>1, EntryIsKnown
<1> HIDE DEF key, bytes, erased
<1>5. Within(stored.cache.used, FrameBytes) /\ Balanced(Kept, stored.cache, FrameBytes, 0)
  <2>1. CASE stored.cache = frame_cache
    BY <2>1 DEF CacheInv, Within
  <2>2. CASE Within(bytes, FrameBytes) /\ stored.cache = pushed
    <3>1. 0 \in Nat /\ Nodes(Kept)
      BY KnownNodes
    <3>2. Within(pushed.used, FrameBytes) /\ Balanced(Kept, pushed, FrameBytes, 0)
      BY <1>1, <1>3, <1>4, <2>2, <3>1, PushedIsBalanced
    <3> QED
      BY <2>2, <3>2
  <2> QED
    BY <1>2, <2>1, <2>2
<1>6. frame_cache' = stored.cache /\ UNCHANGED <<result_cache, spilled>>
  BY DEF KeepArtifact, key
<1> HIDE DEF stored
<1>7. Results' = Results /\ Kept' = Kept
  BY DEF Results, Kept
<1> QED
  BY <1>5, <1>6, <1>7 DEF CacheInv, Balanced, Within

\* A hit on an artifact moves it, and clearing the results forgets the spills.
LEMMA OtherCacheSteps ==
  ASSUME CacheInv
  PROVE  /\ \A artifact : TakeArtifact(artifact) => CacheInv'
         /\ ClearResults => CacheInv'
         /\ UNCHANGED cacheVars => CacheInv'
<1>1. Results' = Results /\ Kept' = Kept
  BY DEF Results, Kept
<1>2. ASSUME NEW artifact, TakeArtifact(artifact) PROVE CacheInv'
  <2> DEFINE promoted == Promoted(frame_cache, artifact.key)
  <2>1. Balanced(Kept, promoted, FrameBytes, 0) /\ promoted.used = frame_cache.used
    BY KnownNodes, PromotedIsBalanced DEF CacheInv
  <2>2. frame_cache' = promoted /\ UNCHANGED <<result_cache, spilled>>
    BY <1>2 DEF TakeArtifact
  <2> HIDE DEF promoted
  <2> QED
    BY <1>1, <2>1, <2>2 DEF CacheInv, Balanced
<1>3. ASSUME ClearResults PROVE CacheInv'
  <2> DEFINE cleared == EmptyCache(ResultBytes)
  <2>1. result_cache' = cleared /\ spilled' = 0 /\ frame_cache' = frame_cache
    BY <1>3 DEF ClearResults, Cleared, CacheInv, Balanced
  <2>2. Balanced(Results, cleared, ResultBytes, 0)
    BY EmptyIsBalanced
  <2>3. cleared.used <= ResultBytes
    BY BytesAssumption DEF EmptyCache
  <2> HIDE DEF cleared
  <2> QED
    BY <1>1, <2>1, <2>2, <2>3 DEF CacheInv, Balanced
<1>4. ASSUME UNCHANGED cacheVars PROVE CacheInv'
  BY <1>1, <1>4 DEF cacheVars, CacheInv, Balanced
<1> QED
  BY <1>2, <1>3, <1>4

\* The invariant of the caches.
THEOREM CacheInvariant == Spec => []CacheInv
<1>1. Init => CacheInv
  <2> SUFFICES ASSUME Init PROVE CacheInv
    OBVIOUS
  <2>1. result_cache = EmptyCache(ResultBytes) /\ frame_cache = EmptyCache(FrameBytes) /\ spilled = 0
    BY DEF Init
  <2>2. EmptyCache(ResultBytes).used <= ResultBytes /\ EmptyCache(FrameBytes).used <= FrameBytes
    BY BytesAssumption DEF EmptyCache
  <2> QED
    BY <2>1, <2>2, EmptyIsBalanced DEF CacheInv
<1>2. ASSUME CacheInv, [Next]_vars PROVE CacheInv'
  <2>1. UNCHANGED cacheVars => CacheInv'
    BY <1>2, OtherCacheSteps
  <2>2. CASE UNCHANGED vars
    BY <2>1, <2>2 DEF vars, cacheVars
  <2>3. ASSUME NEW frame, NEW params, NEW stop, NEW fault, AnalyzeChange(frame, params, stop, fault)
        PROVE  CacheInv'
    BY <2>1, <2>3 DEF AnalyzeChange
  <2>4. CASE RunOcr \/ RunDetector
    BY <1>2, <2>4, CallIsAccounted DEF RunOcr, RunDetector
  <2>5. ASSUME NEW frame, NEW items, NEW options, NEW stable, NEW stop, NEW fault,
               Fuse(frame, items, options, stable, stop, fault)
        PROVE  CacheInv'
    BY <2>1, <2>5 DEF Fuse, Publish
  <2>6. CASE ClearResults
    BY <1>2, <2>6, OtherCacheSteps
  <2>7. CASE \E artifact \in Artifacts, fault \in Faults \ {"index"} : KeepArtifact(artifact, fault)
    BY <1>2, <2>7, ArtifactIsAccounted
  <2>8. CASE \E artifact \in Artifacts : TakeArtifact(artifact)
    BY <1>2, <2>8, OtherCacheSteps
  <2> QED
    BY <1>2, <2>2, <2>3, <2>4, <2>5, <2>6, <2>7, <2>8 DEF Next
<1> QED
  BY <1>1, <1>2, PTL DEF Spec

\* The byte accounts of both caches stay within their budgets and miss exactly
\* the nodes that failed index entries left behind, whatever the sizes,
\* the evictions and the failures.
THEOREM AccountsErrBySpillsOnly == Spec => []AccountErrsBySpills
<1>1. ASSUME CacheInv PROVE AccountErrsBySpills
  <2>1. /\ Footprint(result_cache) = Weight(0, result_cache.entries)
        /\ Footprint(frame_cache) = Weight(0, frame_cache.entries)
    BY FootprintIsWeight
  <2>2. frame_cache.used + 0 = frame_cache.used
    BY <1>1 DEF CacheInv, Balanced
  <2> QED
    BY <1>1, <2>1, <2>2 DEF CacheInv, Balanced, AccountErrsBySpills
<1> QED
  BY <1>1, CacheInvariant, PTL

\* A stored result answers every question of its key.
LEMMA ResultAnswersItsKey ==
  ASSUME NEW a \in Answerable, NEW frame \in Frames, NEW backend \in Backends, NEW request \in Requests,
         Questions[<<frame, backend, request>>].refused = "kOk",
         Questions[a].key = Questions[<<frame, backend, request>>].key
  PROVE  \E other \in Frames, model \in Backends, asked \in Requests :
           /\ Alike(asked, request) /\ Sights[<<other, asked>>] = Sights[<<frame, request>>]
           /\ SameModel(model, backend)
           /\ FreshlyAnswered(other, model, asked) = Ok(Payload(a[3], Questions[a].fresh.value).answer)
<1>1. PICK other \in Frames, model \in Backends, asked \in Requests : a = <<other, model, asked>>
  BY DEF Answerable, Asked
<1> DEFINE mine == Question(frame, backend, request)
           his == Question(other, model, asked)
<1>2. /\ Questions[<<frame, backend, request>>] = mine /\ Questions[a] = his
      /\ Sights[<<frame, request>>] = Sight(frame, request)
      /\ Sights[<<other, asked>>] = Sight(other, asked)
  BY <1>1, TableHolds
<1>3. /\ mine.refused = "kOk" /\ his.refused = "kOk" /\ his.fresh.status = "kOk"
      /\ his.key = mine.key
  BY <1>2 DEF Answerable
<1>4. PICK roi, print : /\ mine.key = CacheKey(print, roi, request, backend)
                        /\ Sight(frame, request) = {<<roi, Ok(print)>>}
  BY <1>3, QuestionInside
<1>5. PICK roi2, print2 : /\ his.key = CacheKey(print2, roi2, asked, model)
                          /\ Sight(other, asked) = {<<roi2, Ok(print2)>>}
  BY <1>3, QuestionInside
<1>6. his.fresh = Ok(his.fresh.value)
  BY <1>3, AnswerIsCounted
<1>7. FreshlyAnswered(other, model, asked) = his.fresh
  BY <1>1, <1>2, <1>3 DEF FreshlyAnswered
<1> HIDE DEF mine, his
<1>8. CacheKey(print2, roi2, asked, model) = CacheKey(print, roi, request, backend)
  BY <1>3, <1>4, <1>5
<1>9. /\ print2 = print /\ roi2 = roi
      /\ Alike(asked, request) /\ SameModel(model, backend)
  <2> DEFINE k == CacheKey(print2, roi2, asked, model)
             l == CacheKey(print, roi, request, backend)
  <2>1. k.image = l.image /\ k.roi = l.roi /\ k.kind = l.kind /\ k.space = l.space
        /\ k.backend = l.backend /\ k.revision = l.revision /\ k.params = l.params
    BY <1>8
  <2>2. <<asked.max_side, asked.params>> = <<request.max_side, request.params>>
    BY <2>1 DEF CacheKey
  <2> QED
    BY <2>1, <2>2 DEF CacheKey, Alike, SameModel
<1>10. Payload(a[3], Questions[a].fresh.value).answer = his.fresh.value
  BY <1>2 DEF Payload
<1> QED
  BY <1>2, <1>4, <1>5, <1>6, <1>7, <1>9, <1>10

\* Whatever is asked next, at any moment: the answer is what the model of this
\* revision, asked with these parameters, makes of a part of a frame of this
\* place and fingerprint; for all frames, models, requests and budgets.
THEOREM AnswersAreNeverMixedUp == Spec => []AnswersBelongToTheQuestion
<1>1. ASSUME CacheInv PROVE AnswersBelongToTheQuestion
  <2> DEFINE Belongs(frame, backend, request, answer) ==
               \E other \in Frames, model \in Backends, asked \in Requests :
                 /\ Alike(asked, request) /\ Sights[<<other, asked>>] = Sights[<<frame, request>>]
                 /\ SameModel(model, backend)
                 /\ FreshlyAnswered(other, model, asked) = Ok(answer)
  <2> SUFFICES ASSUME NEW frame \in Frames, NEW backend \in Backends, NEW request \in Requests,
                      Answered(frame, backend, request).status = "kOk"
               PROVE  Belongs(frame, backend, request, Answered(frame, backend, request).answer)
    BY DEF AnswersBelongToTheQuestion
  <2> DEFINE b == <<frame, backend, request>>
             question == Questions[b]
             outcome == Outcome(question, request, 0, NoFault)
  <2>1. Answered(frame, backend, request) = outcome
    BY DEF Answered
  <2>2. outcome.status = "kOk"
    BY <2>1
  <2>3. ASSUME NEW a \in Answerable, question.refused = "kOk", Questions[a].key = question.key
        PROVE  Belongs(frame, backend, request, Payload(a[3], Questions[a].fresh.value).answer)
    BY <2>3, ResultAnswersItsKey
  <2> HIDE DEF Belongs, question, b
  <2>4. \/ /\ question.refused = "kOk" /\ Holds(result_cache, question.key)
           /\ outcome.answer = Lookup(result_cache, question.key, <<>>).answer
        \/ /\ question.refused = "kOk" /\ question.fresh.status = "kOk"
           /\ outcome.answer = question.fresh.value
    BY <2>2, OutcomeWays
  <2> HIDE DEF outcome
  <2>5. CASE /\ question.refused = "kOk" /\ Holds(result_cache, question.key)
             /\ outcome.answer = Lookup(result_cache, question.key, <<>>).answer
    <3> DEFINE e == Promoted(result_cache, question.key).entries[1]
    <3>1. e \in Results /\ e.key = question.key
      BY <1>1, <2>5, KnownNodes, PromotedIsBalanced DEF CacheInv
    <3>2. outcome.answer = e.value.answer
      BY <2>5 DEF Lookup
    <3> HIDE DEF e
    <3>3. PICK a \in Answerable, bytes \in Nat, live \in BOOLEAN : e = ResultOf(a, bytes, live)
      BY <3>1 DEF Results
    <3> DEFINE value == Payload(a[3], Questions[a].fresh.value)
               key == Questions[a].key
    <3>4. e = Entry(key, bytes, value, live)
      BY <3>3 DEF ResultOf
    <3> HIDE DEF value, key
    <3>5. e.key = key /\ e.value = value
      BY <3>4 DEF Entry
    <3> QED
      BY <2>1, <2>3, <2>5, <3>1, <3>2, <3>5 DEF value, key
  <2>6. CASE /\ question.refused = "kOk" /\ question.fresh.status = "kOk"
             /\ outcome.answer = question.fresh.value
    <3>1. b \in Answerable /\ b[3] = request
      BY <2>6, AnswerableOf DEF question, b
    <3>2. Belongs(frame, backend, request, Payload(b[3], Questions[b].fresh.value).answer)
      BY <2>3, <2>6, <3>1 DEF question
    <3>3. Payload(b[3], Questions[b].fresh.value).answer = question.fresh.value
      BY DEF Payload, question
    <3> QED
      BY <2>1, <2>6, <3>2, <3>3
  <2> QED
    BY <2>4, <2>5, <2>6
<1> QED
  BY <1>1, CacheInvariant, PTL

-----------------------------------------------------------------------------
(* The identities: matches *)

\* One previous index for each of some current ones, and none twice.
Matching(match, C, P) ==
  /\ DOMAIN match \subseteq C
  /\ \A c \in DOMAIN match : match[c] \in P
  /\ IsInjective(match)

\* What the greedy assignment makes of a match when it comes to the next pair.
TakePair(given, match, pair) ==
  IF pair[1] \in Range(match) \/ pair[2] \in DOMAIN match THEN match
  ELSE [c \in DOMAIN match \cup {pair[2]} |-> IF c = pair[2] THEN pair[1] ELSE match[c]]

Greedy == INSTANCE FoldSteps WITH Op <- TakePair

\* A pair is taken only while both of its regions are free.
LEMMA TakePairMatches ==
  ASSUME NEW C, NEW P, NEW match, Matching(match, C, P), NEW p \in P, NEW c \in C
  PROVE  Matching(TakePair(0, match, <<p, c>>), C, P)
<1> DEFINE taken == [d \in DOMAIN match \cup {c} |-> IF d = c THEN p ELSE match[d]]
<1>1. CASE p \in Range(match) \/ c \in DOMAIN match
  BY <1>1 DEF TakePair
<1>2. CASE ~(p \in Range(match) \/ c \in DOMAIN match)
  <2>1. TakePair(0, match, <<p, c>>) = taken
    BY <1>2 DEF TakePair
  <2>2. \A d \in DOMAIN match : match[d] # p
    BY <1>2 DEF Range
  <2>3. DOMAIN taken = DOMAIN match \cup {c} /\ \A d \in DOMAIN taken : taken[d] = IF d = c THEN p ELSE match[d]
    OBVIOUS
  <2> HIDE DEF taken
  <2>4. DOMAIN taken \subseteq C /\ \A d \in DOMAIN taken : taken[d] \in P
    BY <2>3 DEF Matching
  <2>5. IsInjective(taken)
    BY <2>2, <2>3 DEF Matching, IsInjective
  <2> QED
    BY <2>1, <2>4, <2>5 DEF Matching
<1> QED
  BY <1>1, <1>2

\* Whatever the order of the candidates, the assignment stays a matching.
LEMMA AssignmentMatches ==
  ASSUME NEW C, NEW P, NEW paired, Matching(paired, C, P),
         NEW candidates, NEW n \in Nat, DOMAIN candidates = 1 .. n,
         \A k \in 1 .. n : candidates[k] \in P \X C
  PROVE  Matching(AssignGreedy(candidates, paired), C, P)
<1>1. AssignGreedy(candidates, paired) = Greedy!Folded(0, paired, candidates)
  BY DEF AssignGreedy, Greedy!Folded, TakePair, FoldLeft, Greedy!FoldLeft, MapThenFoldSet,
         Greedy!MapThenFoldSet, Max, Greedy!Max
<1>2. PICK a : Greedy!Trace(0, paired, candidates, n, a) /\ Greedy!Folded(0, paired, candidates) = a[n]
  BY Greedy!FoldTrace
<1> DEFINE S == {i \in 0 .. n : Matching(a[i], C, P)}
<1>3. 0 \in S
  BY <1>2 DEF Greedy!Trace
<1>4. ASSUME NEW i \in 1 .. n, i - 1 \in S PROVE i \in S
  <2>1. PICK p \in P, c \in C : candidates[i] = <<p, c>>
    OBVIOUS
  <2>2. a[i] = TakePair(0, a[i - 1], <<p, c>>)
    BY <1>2, <2>1 DEF Greedy!Trace
  <2> QED
    BY <1>4, <2>2, TakePairMatches
<1> HIDE DEF S
<1>5. n \in S
  <2>1. \A i \in 0 .. n : i \in S
    BY <1>3, <1>4, Greedy!BoundedInduction
  <2> QED
    BY <2>1
<1> QED
  BY <1>1, <1>2, <1>5 DEF S

\* The regions of a frame are numbered from one.
Numbered(list, n) == n \in Nat /\ DOMAIN list = 1 .. n

\* The candidates are pairs of the two lists.
LEMMA CandidatesArePairs ==
  ASSUME NEW previous, NEW current, NEW m, NEW n, Numbered(previous, m), Numbered(current, n),
         NEW paired, NEW options
  PROVE  LET candidates == CollectCandidates(previous, current, paired, options)
         IN  \E k \in Nat : /\ DOMAIN candidates = 1 .. k
                            /\ \A i \in 1 .. k : candidates[i] \in (DOMAIN previous) \X (DOMAIN current)
<1> DEFINE pairs == {pair \in (DOMAIN previous) \X (DOMAIN current \ DOMAIN paired) :
                       Gated(previous[pair[1]], current[pair[2]], options)}
           candidates == CollectCandidates(previous, current, paired, options)
<1>1. IsFiniteSet(pairs)
  <2>1. IsFiniteSet((1 .. m) \X (1 .. n))
    <3>1. m \in Int /\ n \in Int
      BY DEF Numbered
    <3>2. IsFiniteSet(1 .. m) /\ IsFiniteSet(1 .. n)
      BY <3>1, FS_Interval
    <3> QED
      BY <3>2, FS_Product
  <2>2. pairs \in SUBSET ((1 .. m) \X (1 .. n))
    BY DEF Numbered
  <2> HIDE DEF pairs
  <2> QED
    BY <2>1, <2>2, FS_Subset
<1>2. \E precedes : candidates = SortedBy(pairs, precedes)
  BY DEF CollectCandidates
<1>3. pairs \subseteq (DOMAIN previous) \X (DOMAIN current)
  OBVIOUS
<1> HIDE DEF pairs, candidates
<1> QED
  BY <1>1, <1>2, <1>3, SortedArranges DEF candidates

\* The match of a session, in which nobody confirms associations beforehand.
LEMMA SessionMatches ==
  ASSUME NEW previous, NEW current, NEW m, NEW n, Numbered(previous, m), Numbered(current, n),
         NEW tracker, tracker.previous = previous, NEW options
  PROVE  Matching(Matched(tracker, current, PreMatch(previous, <<>>), options), DOMAIN current, DOMAIN previous)
<1> DEFINE paired == PreMatch(previous, <<>>)
           candidates == CollectCandidates(previous, current, paired, options)
<1>1. Matching(paired, DOMAIN current, DOMAIN previous)
  <2>1. DOMAIN paired = {}
    BY DEF PreMatch, Range
  <2> HIDE DEF paired
  <2> QED
    BY <2>1 DEF Matching, IsInjective
<1>2. PICK k \in Nat : DOMAIN candidates = 1 .. k
                       /\ \A i \in 1 .. k : candidates[i] \in (DOMAIN previous) \X (DOMAIN current)
  BY CandidatesArePairs
<1> HIDE DEF candidates, paired
<1>3. Matching(AssignGreedy(candidates, paired), DOMAIN current, DOMAIN previous)
  BY <1>1, <1>2, AssignmentMatches
<1> QED
  BY <1>3 DEF Matched, candidates, paired

-----------------------------------------------------------------------------
(* The identities: one step of the tracker *)

\* The ids of a list of regions.
Names(list) == {list[i].id : i \in DOMAIN list}

\* The number of unmatched regions before an unmatched one.
LEMMA FreshIsInside ==
  ASSUME NEW n \in Nat, NEW D, NEW c \in 1 .. n, c \notin D
  PROVE  /\ Cardinality({d \in 1 .. c - 1 : d \notin D}) \in Nat
         /\ Cardinality((1 .. n) \ D) \in Nat
         /\ Cardinality({d \in 1 .. c - 1 : d \notin D}) < Cardinality((1 .. n) \ D)
<1> DEFINE before == {d \in 1 .. c - 1 : d \notin D}
           open == (1 .. n) \ D
<1>1. IsFiniteSet(open)
  <2>1. IsFiniteSet(1 .. n)
    BY FS_Interval
  <2>2. open \in SUBSET (1 .. n)
    OBVIOUS
  <2> HIDE DEF open
  <2> QED
    BY <2>1, <2>2, FS_Subset
<1>2. before \in SUBSET open /\ c \in open /\ c \notin before
  OBVIOUS
<1> HIDE DEF before, open
<1>3. IsFiniteSet(before) /\ Cardinality(before) <= Cardinality(open) /\ Cardinality(before) # Cardinality(open)
  BY <1>1, <1>2, FS_Subset
<1>4. Cardinality(before) \in Nat /\ Cardinality(open) \in Nat
  BY <1>1, <1>3, FS_CardinalityType
<1> QED
  BY <1>3, <1>4 DEF before, open

\* What the search for splits makes of the next lost identity.
NextSplit(inside, state, p) == Split(inside, state, p)

Splits == INSTANCE FoldSteps WITH Op <- NextSplit

\* Without a split there are no children.
Childless(state) == state.count \in Nat /\ (state.count = 0 => state.children = {})

\* DetectSplits counts at least one split when it names a child.
LEMMA SplitsAreCounted ==
  ASSUME NEW tracker, NEW m, Numbered(tracker.previous, m), NEW current, NEW match, NEW merged
  PROVE  Childless(DetectSplits(tracker, current, match, merged))
<1> DEFINE new == DOMAIN current \ (DOMAIN match \cup merged)
           inside == [p \in Lost(tracker, match) |->
                        {c \in new : CenterInside(tracker.previous[p].bounds, current[c].bounds)}]
           base == [children |-> {}, count |-> 0]
           order == [i \in DOMAIN tracker.previous |-> i]
           splits == DetectSplits(tracker, current, match, merged)
<1>1. splits = Splits!Folded(inside, base, order)
  BY DEF DetectSplits, FoldLeftDomain, Splits!Folded, NextSplit, FoldLeft, Splits!FoldLeft,
         MapThenFoldSet, Splits!MapThenFoldSet, Max, Splits!Max
<1>2. m \in Nat /\ DOMAIN order = 1 .. m
  BY DEF Numbered
<1>3. base.children = {} /\ base.count = 0
  OBVIOUS
<1> HIDE DEF inside, base, order, splits
<1>4. PICK a : Splits!Trace(inside, base, order, m, a) /\ splits = a[m]
  BY <1>1, <1>2, Splits!FoldTrace
<1> DEFINE S == {i \in 0 .. m : Childless(a[i])}
<1>5. 0 \in S
  BY <1>2, <1>3, <1>4 DEF Splits!Trace, Childless
<1>6. ASSUME NEW i \in 1 .. m, i - 1 \in S PROVE i \in S
  <2>1. a[i] = Split(inside, a[i - 1], order[i])
    BY <1>4 DEF Splits!Trace, NextSplit
  <2>2. Childless(a[i - 1])
    BY <1>6
  <2>3. ASSUME NEW state, NEW p, Childless(state) PROVE Childless(Split(inside, state, p))
    <3> DEFINE children == inside[p] \ state.children
    <3>1. \/ Split(inside, state, p) = state
          \/ Split(inside, state, p) = [children |-> state.children \cup children, count |-> state.count + 1]
      BY DEF Split
    <3>2. state.count \in Nat => state.count + 1 \in Nat /\ state.count + 1 # 0
      OBVIOUS
    <3> HIDE DEF children
    <3> QED
      BY <2>3, <3>1, <3>2 DEF Childless
  <2>4. i \in 0 .. m
    BY <1>2
  <2> QED
    BY <2>1, <2>2, <2>3, <2>4
<1> HIDE DEF S
<1>7. m \in S
  <2>1. \A i \in 0 .. m : i \in S
    BY <1>2, <1>5, <1>6, Splits!BoundedInduction
  <2> QED
    BY <1>2, <2>1
<1> QED
  BY <1>4, <1>7 DEF S, splits

-----------------------------------------------------------------------------
(* The identities: a fused frame *)

\* A set of positions has a least one.
LEMMA LeastPosition ==
  ASSUME NEW S \in SUBSET Nat, S # {}
  PROVE  Min(S) \in S
<1>1. PICK least \in S : \A y \in S : ~ (<<y, least>> \in OpToRel(<, Nat))
  BY NatLessThanWellFounded, WFMin
<1>2. \A y \in S : least <= y
  <2> SUFFICES ASSUME NEW y \in S PROVE least <= y
    OBVIOUS
  <2>1. ~(y < least)
    BY <1>1 DEF OpToRel
  <2> QED
    BY <2>1
<1> QED
  BY <1>1, <1>2 DEF Min

\* The items that are fused keep their numbers.
LEMMA WorkingAreNumbered ==
  ASSUME NEW items, NEW n, Numbered(items, n), NEW image, NEW options,
         WorkingItems(items, image, options).status = "kOk"
  PROVE  Numbered(WorkingItems(items, image, options).value, n)
<1> DEFINE converted == [i \in DOMAIN items |-> SpaceConversion(items[i].space, image, options)]
           failed == {i \in DOMAIN items : converted[i].status # "kOk"}
           moved == [i \in DOMAIN items |->
                       [item |-> items[i], bounds |-> TransformRect(converted[i].value, items[i].region.bounds)]]
<1>1. CASE failed # {}
  <2>1. WorkingItems(items, image, options) = converted[Min(failed)]
    BY <1>1 DEF WorkingItems
  <2>2. Min(failed) \in failed
    <3>1. failed \in SUBSET Nat
      BY DEF Numbered
    <3> HIDE DEF failed
    <3> QED
      BY <1>1, <3>1, LeastPosition
  <2> QED
    BY <2>1, <2>2
<1>2. CASE failed = {}
  <2>1. WorkingItems(items, image, options) = Ok(moved)
    BY <1>2 DEF WorkingItems
  <2> QED
    BY <2>1 DEF Ok, Numbered
<1> QED
  BY <1>1, <1>2

\* The regions of a fusion are numbered from one.
LEMMA FusedAreNumbered ==
  ASSUME NEW items, NEW n, Numbered(items, n), NEW image, NEW options, NEW stop,
         FuseEvidence(items, image, options, stop).status = "kOk"
  PROVE  \E k : Numbered(FuseEvidence(items, image, options, stop).value.regions, k)
<1> DEFINE working == WorkingItems(items, image, options)
           fused == FuseEvidence(items, image, options, stop)
<1>1. working.status = "kOk" /\ fused = FusionOutput(working.value, options)
  BY DEF FuseEvidence, Failed, Then
<1>2. Numbered(working.value, n)
  BY <1>1, WorkingAreNumbered
<1> HIDE DEF working
<1> DEFINE scan == ScanPairs(working.value, options)
           found == {scan.root[i] : i \in DOMAIN working.value}
           roots == Ascending(found)
           Members(r) == Ascending({i \in DOMAIN working.value : scan.root[i] = r})
           MergesOf(r) == LET of == {k \in DOMAIN scan.merges : scan.root[scan.merges[k].first] = r}
                          IN  ElementsAt(scan.merges, of)
<1>3. /\ fused.status = "kOk"
      /\ FusionOutput(working.value, options).status = "kOk"
        => DOMAIN FusionOutput(working.value, options).value.regions = DOMAIN roots
  <2> HIDE DEF roots, scan, fused
  <2>1. \/ FusionOutput(working.value, options) = Failed("kBudgetExceeded")
        \/ FusionOutput(working.value, options) =
             Ok([regions |-> [r \in DOMAIN roots |-> AssembleRegion(Members(roots[r]), working.value, options)],
                 merges |-> [r \in DOMAIN roots |-> MergesOf(roots[r])]])
    BY DEF FusionOutput, roots, scan
  <2> QED
    BY <2>1 DEF Failed, Ok, fused
<1>4. IsFiniteSet(found)
  <2> HIDE DEF scan
  <2>1. [i \in 1 .. n |-> scan.root[i]] \in Surjection(1 .. n, found)
    BY <1>2 DEF Surjection, Numbered
  <2>2. IsFiniteSet(1 .. n)
    BY <1>2, FS_Interval DEF Numbered
  <2> HIDE DEF found
  <2> QED
    BY <2>1, <2>2, FS_Surjection
<1> HIDE DEF found
<1>5. Numbered(roots, Cardinality(found))
  BY <1>4, SortedArranges DEF Numbered, Ascending
<1> HIDE DEF roots
<1> QED
  BY <1>1, <1>3, <1>5 DEF Numbered

-----------------------------------------------------------------------------
(* The identities: what a frame does to the tracker *)

\* The tracker's state: a list of identities that have been handed out, and no
\* two regions with the same.
Tracked(tracker) ==
  /\ tracker.next_id \in Nat \ {0}
  /\ Len(tracker.previous) \in Nat
  /\ DOMAIN tracker.previous = 1 .. Len(tracker.previous)
  /\ \A i \in DOMAIN tracker.previous : tracker.previous[i].id \in 1 .. tracker.next_id - 1
  /\ \A i, j \in DOMAIN tracker.previous :
       tracker.previous[i].id = tracker.previous[j].id => i = j

\* The number of regions before c that carry on no identity.
FreshBefore(match, c) == Cardinality({d \in 1 .. c - 1 : d \notin DOMAIN match})

\* The identity of region c of the next frame.
Identity(tracker, match, c) ==
  IF c \in DOMAIN match THEN tracker.previous[match[c]].id ELSE tracker.next_id + FreshBefore(match, c)

\* A list that names the regions 1 to n after a match.
Named(list, tracker, match, n) ==
  DOMAIN list = 1 .. n /\ \A c \in 1 .. n : list[c].id = Identity(tracker, match, c)

\* What is published without a bump tells no merge and no split, and retains
\* the share that the options ask for.
Steady(tracker, match, assigned, options) ==
  /\ \A c \in DOMAIN assigned : assigned[c].event \in {"kNew", "kRetained"}
  /\ tracker.previous # <<>> =>
       AtLeast(<<Cardinality(DOMAIN match), Len(tracker.previous)>>, options.retention)

\* The next identity to hand out, when the unmatched of n regions have got one.
SpentBy(tracker, match, n) == tracker.next_id + Cardinality((1 .. n) \ DOMAIN match)

\* A frame that has been matched: all that follows from the match.
Advanced(tracker, result, match, n, options) ==
  /\ n \in Nat /\ Matching(match, 1 .. n, DOMAIN tracker.previous)
  /\ result.tracker.next_id = SpentBy(tracker, match, n)
  /\ \/ result.tracker.previous = <<>> /\ result.status # "kOk"
     \/ /\ Named(result.tracker.previous, tracker, match, n)
        /\ result.tracker.previous \in Seq(Range(result.tracker.previous))
        /\ Named(result.assignments, tracker, match, n)
        /\ ~result.bump => Steady(tracker, match, result.assignments, options)

\* advance() refuses, or matches the frame and names its regions.
LEMMA AdvanceWays ==
  ASSUME NEW tracker, Tracked(tracker), NEW regions, NEW n, Numbered(regions, n),
         NEW options, NEW stop, NEW fault
  PROVE  LET result == Advance(tracker, regions, options, stop, <<>>, fault)
         IN  \/ result.tracker = tracker /\ result.status # "kOk"
             \/ \E match : Advanced(tracker, result, match, n, options)
<1> DEFINE result == Advance(tracker, regions, options, stop, <<>>, fault)
           current == [c \in DOMAIN regions |->
                         [bounds |-> regions[c].bounds, text |-> NormalizedText(regions[c].text)]]
           match == Matched(tracker, current, PreMatch(tracker.previous, <<>>), options)
           merged == DetectMerges(tracker, current, match)
           splits == DetectSplits(tracker, current, match, merged)
           named == Assignments(tracker, current, match)
           assigned == Events(named, merged, splits)
           bump == GenerationBump(tracker, match, merged, splits, options)
           done == Commit(tracker, current, match, fault, assigned, bump)
           spent == tracker.next_id + Cardinality(DOMAIN current \ DOMAIN match)
           filled == [c \in DOMAIN current |->
                        [id |-> assigned[c].id, bounds |-> current[c].bounds, text |-> current[c].text]]
<1>1. \/ \E status : status # "kOk" /\ result = Unadvanced(tracker, status)
      \/ result = done
  <2> HIDE DEF match
  <2> QED
    BY DEF Advance, Reassigned, Transition, match
<1>2. Numbered(current, n) /\ DOMAIN current = 1 .. n /\ n \in Nat
  BY DEF Numbered
<1>3. Numbered(tracker.previous, Len(tracker.previous))
  BY DEF Numbered, Tracked
<1> HIDE DEF current
<1>4. Matching(match, 1 .. n, DOMAIN tracker.previous)
  BY <1>2, <1>3, SessionMatches
<1> HIDE DEF match
<1>5. Named(named, tracker, match, n) /\ \A c \in 1 .. n : named[c].event \in {"kNew", "kRetained"}
  BY <1>2 DEF Assignments, Named, Identity, FreshBefore
<1>6. Childless(splits)
  BY <1>3, SplitsAreCounted
<1> HIDE DEF named, merged, splits
<1>7. /\ DOMAIN assigned = 1 .. n
      /\ \A c \in 1 .. n : assigned[c].id = named[c].id
      /\ merged = {} /\ splits.children = {} => assigned = named
  <2>1. DOMAIN named = 1 .. n
    BY <1>5 DEF Named
  <2>2. \A c \in 1 .. n : \/ assigned[c] = [named[c] EXCEPT !.event = "kMerged"]
                          \/ assigned[c] = [named[c] EXCEPT !.event = "kSplitChild"]
                          \/ assigned[c] = named[c]
    BY <2>1 DEF Events
  <2>3. named = [c \in 1 .. n |-> named[c]]
    BY <1>2 DEF named, Assignments
  <2>4. \A c \in 1 .. n : named[c] = [id |-> named[c].id, event |-> named[c].event]
    BY <1>2 DEF named, Assignments
  <2>5. \A c \in 1 .. n : assigned[c].id = named[c].id
    BY <2>2, <2>4
  <2>6. merged = {} /\ splits.children = {} => assigned = [c \in 1 .. n |-> named[c]]
    BY <2>1 DEF Events
  <2> QED
    BY <2>1, <2>3, <2>5, <2>6 DEF Events
<1>8. ~bump => Steady(tracker, match, assigned, options)
  <2> SUFFICES ASSUME ~bump PROVE Steady(tracker, match, assigned, options)
    OBVIOUS
  <2>1. /\ ~(splits.count > 0) /\ merged = {}
        /\ tracker.previous # <<>> =>
             AtLeast(<<Cardinality(DOMAIN match), Len(tracker.previous)>>, options.retention)
    BY DEF GenerationBump, LessThan
  <2>2. splits.children = {}
    BY <1>6, <2>1 DEF Childless
  <2>3. assigned = named
    BY <1>7, <2>1, <2>2
  <2> HIDE DEF assigned
  <2>4. \A c \in DOMAIN assigned : assigned[c].event \in {"kNew", "kRetained"}
    BY <1>5, <2>3 DEF Named
  <2> QED
    BY <2>1, <2>4 DEF Steady
<1>9. Named(assigned, tracker, match, n)
  BY <1>5, <1>7 DEF Named
<1> HIDE DEF assigned, bump
<1>10. Named(filled, tracker, match, n) /\ filled \in Seq(Range(filled))
  <2>1. DOMAIN filled = 1 .. n /\ \A c \in 1 .. n : filled[c].id = assigned[c].id
    BY <1>2
  <2>2. filled = [c \in 1 .. n |-> filled[c]]
    BY <1>2
  <2> HIDE DEF filled
  <2> QED
    BY <1>2, <1>9, <2>1, <2>2, NumberedIsSeq DEF Named
<1> HIDE DEF filled
<1>11. \/ done = Unadvanced([previous |-> <<>>, next_id |-> spent], "kBudgetExceeded")
       \/ done = [status |-> "kOk", tracker |-> [previous |-> filled, next_id |-> spent],
                  assignments |-> assigned, bump |-> bump]
  BY DEF Commit, filled
<1> HIDE DEF done
<1>12. CASE result = done
  <2>1. result.tracker.next_id = SpentBy(tracker, match, n)
    BY <1>2, <1>11, <1>12 DEF Unadvanced, SpentBy
  <2>2. \/ result.tracker.previous = <<>> /\ result.status # "kOk"
        \/ /\ result.tracker.previous = filled
           /\ result.assignments = assigned
           /\ result.bump = bump
    BY <1>11, <1>12 DEF Unadvanced
  <2> QED
    BY <1>2, <1>4, <1>8, <1>9, <1>10, <2>1, <2>2 DEF Advanced
<1>13. CASE \E status : status # "kOk" /\ result = Unadvanced(tracker, status)
  BY <1>13 DEF Unadvanced
<1> QED
  BY <1>1, <1>12, <1>13

\* Where the identities of the next frame come from.
LEMMA IdentityIs ==
  ASSUME NEW tracker, Tracked(tracker), NEW n \in Nat, NEW match,
         Matching(match, 1 .. n, DOMAIN tracker.previous), NEW c \in 1 .. n
  PROVE  /\ SpentBy(tracker, match, n) \in Nat \ {0}
         /\ SpentBy(tracker, match, n) >= tracker.next_id
         /\ c \in DOMAIN match =>
              /\ Identity(tracker, match, c) \in 1 .. tracker.next_id - 1
              /\ Identity(tracker, match, c) \in Names(tracker.previous)
         /\ c \notin DOMAIN match =>
              Identity(tracker, match, c) \in tracker.next_id .. SpentBy(tracker, match, n) - 1
<1> DEFINE id == tracker.next_id
           open == Cardinality((1 .. n) \ DOMAIN match)
<1>0. SpentBy(tracker, match, n) = id + open
  BY DEF SpentBy
<1>1. id \in Nat \ {0}
  BY DEF Tracked
<1>2. open \in Nat
  <2>1. IsFiniteSet(1 .. n)
    BY FS_Interval
  <2>2. IsFiniteSet((1 .. n) \ DOMAIN match)
    BY <2>1, FS_Subset
  <2> QED
    BY <2>2, FS_CardinalityType
<1>3. CASE c \in DOMAIN match
  <2>1. match[c] \in DOMAIN tracker.previous
    BY <1>3 DEF Matching
  <2>2. Identity(tracker, match, c) = tracker.previous[match[c]].id
    BY <1>3 DEF Identity
  <2>3. /\ Identity(tracker, match, c) \in 1 .. id - 1
        /\ Identity(tracker, match, c) \in Names(tracker.previous)
    BY <2>1, <2>2 DEF Tracked, Names
  <2> HIDE DEF id, open
  <2> QED
    BY <1>0, <1>1, <1>2, <1>3, <2>3 DEF id
<1>4. CASE c \notin DOMAIN match
  <2> DEFINE before == FreshBefore(match, c)
  <2>1. before \in Nat /\ before < open
    BY <1>4, FreshIsInside DEF FreshBefore
  <2>2. Identity(tracker, match, c) = id + before
    BY <1>4 DEF Identity
  <2> HIDE DEF id, open, before
  <2>3. id + before \in id .. id + open - 1 /\ id + open \in Nat \ {0} /\ id + open >= id
    BY <1>1, <1>2, <2>1
  <2>4. Identity(tracker, match, c) \in id .. id + open - 1
    BY <2>2, <2>3
  <2>5. SpentBy(tracker, match, n) \in Nat \ {0} /\ SpentBy(tracker, match, n) >= id
    BY <1>0, <2>3
  <2>6. Identity(tracker, match, c) \in id .. SpentBy(tracker, match, n) - 1
    BY <1>0, <1>1, <1>2, <2>4, <2>5
  <2>7. SpentBy(tracker, match, n) \in Nat \ {0} /\ SpentBy(tracker, match, n) >= tracker.next_id
    BY <2>5 DEF id
  <2>8. Identity(tracker, match, c) \in tracker.next_id .. SpentBy(tracker, match, n) - 1
    BY <2>6 DEF id
  <2> QED
    BY <1>4, <2>7, <2>8
<1> QED
  BY <1>3, <1>4

\* Fresh identities ascend with their regions.
LEMMA FreshAscends ==
  ASSUME NEW n \in Nat, NEW match, NEW c \in 1 .. n, NEW d \in 1 .. n, c < d, c \notin DOMAIN match
  PROVE  /\ FreshBefore(match, c) \in Nat /\ FreshBefore(match, d) \in Nat
         /\ FreshBefore(match, c) < FreshBefore(match, d)
<1> DEFINE D == DOMAIN match
           low == {e \in 1 .. c - 1 : e \notin D}
           high == {e \in 1 .. d - 1 : e \notin D}
<1>1. IsFiniteSet(high)
  <2>1. IsFiniteSet(1 .. d - 1)
    BY FS_Interval
  <2>2. high \in SUBSET (1 .. d - 1)
    OBVIOUS
  <2> HIDE DEF high
  <2> QED
    BY <2>1, <2>2, FS_Subset
<1>2. low \in SUBSET high /\ c \in high /\ c \notin low
  OBVIOUS
<1> HIDE DEF low, high
<1>3. IsFiniteSet(low) /\ Cardinality(low) <= Cardinality(high) /\ Cardinality(low) # Cardinality(high)
  BY <1>1, <1>2, FS_Subset
<1>4. Cardinality(low) \in Nat /\ Cardinality(high) \in Nat
  BY <1>1, <1>3, FS_CardinalityType
<1> QED
  BY <1>3, <1>4 DEF FreshBefore, low, high

\* No two regions get the same identity.
LEMMA IdentitiesDiffer ==
  ASSUME NEW tracker, Tracked(tracker), NEW n \in Nat, NEW match,
         Matching(match, 1 .. n, DOMAIN tracker.previous),
         NEW c \in 1 .. n, NEW d \in 1 .. n, c < d
  PROVE  Identity(tracker, match, c) # Identity(tracker, match, d)
<1> DEFINE id == tracker.next_id
           next == SpentBy(tracker, match, n)
<1>1. id \in Nat /\ next \in Nat
  BY IdentityIs DEF Tracked
<1> HIDE DEF id, next
<1>2. CASE c \in DOMAIN match /\ d \in DOMAIN match
  <2>1. match[c] # match[d] /\ match[c] \in DOMAIN tracker.previous /\ match[d] \in DOMAIN tracker.previous
    BY <1>2 DEF Matching, IsInjective
  <2> QED
    BY <1>2, <2>1 DEF Identity, Tracked
<1>3. CASE c \notin DOMAIN match /\ d \notin DOMAIN match
  <2>1. /\ FreshBefore(match, c) \in Nat
        /\ FreshBefore(match, d) \in Nat
        /\ FreshBefore(match, c) < FreshBefore(match, d)
    BY <1>3, FreshAscends
  <2>2. Identity(tracker, match, c) = id + FreshBefore(match, c)
        /\ Identity(tracker, match, d) = id + FreshBefore(match, d)
    BY <1>3 DEF Identity, id
  <2> QED
    BY <1>1, <2>1, <2>2
<1>4. \A e \in 1 .. n : /\ e \in DOMAIN match => Identity(tracker, match, e) \in 1 .. id - 1
                        /\ e \notin DOMAIN match => Identity(tracker, match, e) \in id .. next - 1
  BY IdentityIs DEF id, next
<1>5. CASE ~(c \in DOMAIN match <=> d \in DOMAIN match)
  BY <1>1, <1>4, <1>5
<1> QED
  BY <1>2, <1>3, <1>5

\* One frame keeps the tracker's state in order: identities are carried on from
\* the frame before or have never been spent.
LEMMA AdvancedIsTracked ==
  ASSUME NEW tracker, Tracked(tracker), NEW result, NEW match, NEW n, NEW options,
         Advanced(tracker, result, match, n, options)
  PROVE  /\ Tracked(result.tracker)
         /\ result.tracker.next_id >= tracker.next_id
         /\ Names(result.tracker.previous) \subseteq
              Names(tracker.previous) \cup (tracker.next_id .. result.tracker.next_id - 1)
<1> DEFINE id == tracker.next_id
           next == result.tracker.next_id
           list == result.tracker.previous
<1>1. n \in Nat /\ Matching(match, 1 .. n, DOMAIN tracker.previous)
      /\ next = SpentBy(tracker, match, n)
  BY DEF Advanced
<1>2. id \in Nat \ {0} /\ next \in Nat \ {0} /\ next >= id
  <2>1. Cardinality((1 .. n) \ DOMAIN match) \in Nat
    <3>1. IsFiniteSet(1 .. n)
      BY <1>1, FS_Interval
    <3>2. IsFiniteSet((1 .. n) \ DOMAIN match)
      BY <3>1, FS_Subset
    <3> QED
      BY <3>2, FS_CardinalityType
  <2>2. id \in Nat \ {0}
    BY DEF Tracked
  <2> HIDE DEF id, next
  <2> QED
    BY <1>1, <2>1, <2>2 DEF SpentBy, id
<1>3. CASE list = <<>>
  <2>1. Len(list) = 0 /\ DOMAIN list = {} /\ 1 .. Len(list) = {}
    BY <1>3
  <2> QED
    BY <1>2, <2>1 DEF Tracked, Names
<1>4. CASE Named(list, tracker, match, n) /\ list \in Seq(Range(list))
  <2>1. Len(list) = n /\ DOMAIN list = 1 .. n
    BY <1>1, <1>4 DEF Named
  <2>2. \A c \in 1 .. n : list[c].id = Identity(tracker, match, c)
    BY <1>4 DEF Named
  <2>3. ASSUME NEW c \in 1 .. n
        PROVE  /\ list[c].id \in 1 .. next - 1
               /\ list[c].id \in Names(tracker.previous) \cup (id .. next - 1)
    <3>1. /\ c \in DOMAIN match => list[c].id \in 1 .. id - 1 /\ list[c].id \in Names(tracker.previous)
          /\ c \notin DOMAIN match => list[c].id \in id .. next - 1
      BY <1>1, <2>2, IdentityIs
    <3> HIDE DEF id, next, list
    <3> QED
      BY <1>2, <3>1
  <2>4. ASSUME NEW c \in 1 .. n, NEW d \in 1 .. n, c < d PROVE list[c].id # list[d].id
    BY <1>1, <2>2, <2>4, IdentitiesDiffer
  <2>5. \A c, d \in 1 .. n : list[c].id = list[d].id => c = d
    <3> HIDE DEF list
    <3> QED
      BY <1>1, <2>4
  <2>6. Names(list) \subseteq Names(tracker.previous) \cup (id .. next - 1)
    BY <2>1, <2>3 DEF Names
  <2> QED
    BY <1>1, <1>2, <2>1, <2>3, <2>5, <2>6 DEF Tracked
<1> QED
  BY <1>3, <1>4 DEF Advanced

-----------------------------------------------------------------------------
(* The identities: a fusion *)

\* What a fusion does to the tracker: nothing, or what follows from a match of
\* as many regions as were fused.
Fusing(fused, ids, stable) ==
  \/ ids.tracker = stable_tracker /\ ids.status # "kOk"
  \/ \E match, n : Advanced(stable_tracker, ids, match, n, stable) /\ Numbered(fused.value.regions, n)

\* A fusion that works has numbered regions.
LEMMA FusedRegionsAreNumbered ==
  ASSUME NEW frame \in Frames, NEW items \in EvidenceSets, NEW options \in FusionOptionSets,
         NEW stop, NEW fault, Fused(frame, items, options, stop, fault).status = "kOk"
  PROVE  \E n : Numbered(Fused(frame, items, options, stop, fault).value.regions, n)
<1> DEFINE early == FirstFailure(<<Polled(stop, 1), CheckFrame(frame)>>)
           poll == Polled(stop, 2)
           asked == <<frame, items, options, poll>>
           fused == Fused(frame, items, options, stop, fault)
<1>1. poll \in {"kOk", "kTimeout"}
  BY DEF Polled
<1> HIDE DEF poll
<1>2. asked \in Frames \X EvidenceSets \X FusionOptionSets \X {"kOk", "kTimeout"}
  BY <1>1
<1>3. Fusions[asked] = FuseEvidence(items, frame.image, options, poll)
  BY <1>2 DEF Fusions, Table
<1> HIDE DEF early
<1>4. \/ \E s : s # "kOk" /\ fused = Failed(s)
      \/ fused = Fusions[asked]
  BY DEF Fused, early, poll
<1>5. fused = FuseEvidence(items, frame.image, options, poll)
  <2> HIDE DEF asked, fused
  <2>1. fused.status = "kOk"
    BY DEF fused
  <2> QED
    BY <1>3, <1>4, <2>1 DEF Failed
<1>6. Numbered(items, Len(items))
  BY FusionAssumption DEF Numbered
<1>7. FuseEvidence(items, frame.image, options, poll).status = "kOk"
  BY <1>5
<1>8. \E n : Numbered(FuseEvidence(items, frame.image, options, poll).value.regions, n)
  BY <1>6, <1>7, FusedAreNumbered
<1> QED
  BY <1>5, <1>8

\* The tracker's part of a fusion.
LEMMA FusionAdvances ==
  ASSUME Tracked(stable_tracker), NEW frame \in Frames, NEW items \in EvidenceSets,
         NEW options \in FusionOptionSets, NEW stable, NEW stop, NEW fault
  PROVE  Fusing(Fused(frame, items, options, stop, fault),
                AdvancedTracker(Fused(frame, items, options, stop, fault), stable, stop, fault), stable)
<1> DEFINE fused == Fused(frame, items, options, stop, fault)
           ids == AdvancedTracker(fused, stable, stop, fault)
           poll == Polled(stop, 3)
<1>1. CASE fused.status # "kOk"
  BY <1>1 DEF AdvancedTracker, Unadvanced, Fusing
<1>2. CASE fused.status = "kOk"
  <2>1. PICK n : Numbered(fused.value.regions, n)
    BY <1>2, FusedRegionsAreNumbered
  <2> HIDE DEF fused
  <2>2. ids = Advance(stable_tracker, fused.value.regions, stable, poll, <<>>, fault)
    BY <1>2 DEF AdvancedTracker
  <2> HIDE DEF ids, poll
  <2>3. \/ ids.tracker = stable_tracker /\ ids.status # "kOk"
        \/ \E match : Advanced(stable_tracker, ids, match, n, stable)
    BY <2>1, <2>2, AdvanceWays
  <2> QED
    BY <2>1, <2>3 DEF Fusing, fused, ids
<1> QED
  BY <1>1, <1>2

\* A step of the session fuses, or leaves the tracker and the snapshots alone.
Fusion(frame, items, options, stable, stop, fault) ==
  /\ frame \in Frames /\ items \in EvidenceSets /\ options \in FusionOptionSets /\ stable \in StableOptionSets
  /\ Fuse(frame, items, options, stable, stop, fault)

\* Which of the two a step is.
LEMMA FusionOrNot ==
  ASSUME [Next]_vars
  PROVE  \/ UNCHANGED fusionVars
         \/ \E frame, items, options, stable, stop, fault : Fusion(frame, items, options, stable, stop, fault)
<1>1. CASE UNCHANGED vars
  BY <1>1 DEF vars, fusionVars
<1>2. ASSUME NEW frame, NEW params, NEW stop, NEW fault, AnalyzeChange(frame, params, stop, fault)
      PROVE  UNCHANGED fusionVars
  BY <1>2 DEF AnalyzeChange
<1>3. CASE RunOcr \/ RunDetector
  BY <1>3 DEF RunOcr, RunDetector, RunCapability
<1>4. CASE \E frame \in Frames, items \in EvidenceSets, options \in FusionOptionSets,
              stable \in StableOptionSets, mishap \in Mishaps(3) :
             Fuse(frame, items, options, stable, mishap[1], mishap[2])
  BY <1>4 DEF Fusion
<1>5. CASE ClearResults
  BY <1>5 DEF ClearResults
<1>6. CASE \E artifact \in Artifacts, fault \in Faults \ {"index"} : KeepArtifact(artifact, fault)
  BY <1>6 DEF KeepArtifact
<1>7. CASE \E artifact \in Artifacts : TakeArtifact(artifact)
  BY <1>7 DEF TakeArtifact
<1> QED
  BY <1>1, <1>2, <1>3, <1>4, <1>5, <1>6, <1>7 DEF Next

-----------------------------------------------------------------------------
(* The identities: the registry *)

\* A step of the tracker is a step of the registry, or none.
LEMMA FusionRegisters ==
  ASSUME Tracked(stable_tracker), [Next]_vars
  PROVE  /\ Tracked(stable_tracker)'
         /\ stable_tracker' = stable_tracker \/ Registry!Advance
<1>1. CASE UNCHANGED fusionVars
  BY <1>1 DEF fusionVars, Tracked
<1>2. ASSUME NEW frame, NEW items, NEW options, NEW stable, NEW stop, NEW fault,
             Fusion(frame, items, options, stable, stop, fault)
      PROVE  /\ Tracked(stable_tracker)'
             /\ stable_tracker' = stable_tracker \/ Registry!Advance
  <2> DEFINE fused == Fused(frame, items, options, stop, fault)
             ids == AdvancedTracker(fused, stable, stop, fault)
  <2>1. Fusing(fused, ids, stable)
    BY <1>2, FusionAdvances DEF Fusion
  <2>2. stable_tracker' = ids.tracker
    BY <1>2 DEF Fusion, Fuse, Publish
  <2> HIDE DEF fused, ids
  <2>3. CASE ids.tracker = stable_tracker
    BY <2>2, <2>3 DEF Tracked
  <2>4. ASSUME NEW match, NEW n, Advanced(stable_tracker, ids, match, n, stable)
        PROVE  /\ Tracked(stable_tracker)'
               /\ Registry!Advance
    <3>1. /\ Tracked(ids.tracker)
          /\ ids.tracker.next_id >= stable_tracker.next_id
          /\ Names(ids.tracker.previous) \subseteq
               Names(stable_tracker.previous) \cup (stable_tracker.next_id .. ids.tracker.next_id - 1)
      BY <2>4, AdvancedIsTracked
    <3>2. stable_tracker.next_id \in Nat \ {0} /\ ids.tracker.next_id \in Nat \ {0}
      BY <3>1 DEF Tracked
    <3>3. Tracked(stable_tracker)'
      BY <2>2, <3>1 DEF Tracked
    <3> DEFINE a == stable_tracker.next_id
               b == ids.tracker.next_id
    <3>4. a - 1 + 1 = a /\ b - 1 \in Nat /\ b - 1 >= a - 1
      <4> HIDE DEF a, b
      <4>1. a \in Nat \ {0} /\ b \in Nat \ {0} /\ b >= a
        BY <3>1, <3>2 DEF a, b
      <4> QED
        BY <4>1
    <3>5. Registry!Advance
      BY <2>2, <3>1, <3>4 DEF Registry!Advance, Names
    <3> QED
      BY <3>3, <3>5
  <2> QED
    BY <2>1, <2>2, <2>3, <2>4 DEF Fusing
<1> QED
  BY <1>1, <1>2, FusionOrNot

\* The session's tracker implements the registry of identities: for all frames,
\* evidence and options, and also when a fusion fails after the tracker has
\* advanced, an identity that is no longer alive never comes back.
THEOREM IdentitiesAreNeverReused == Spec => ImplementsStableIdentities
<1>1. Init => Tracked(stable_tracker) /\ Registry!Init
  <2> SUFFICES ASSUME Init PROVE Tracked(stable_tracker) /\ Registry!Init
    OBVIOUS
  <2>1. stable_tracker.previous = <<>> /\ stable_tracker.next_id = 1
    BY DEF Init, NewTracker
  <2>2. Len(stable_tracker.previous) = 0 /\ DOMAIN stable_tracker.previous = {} /\ 1 .. 0 = {}
    BY <2>1
  <2> QED
    BY <2>1, <2>2 DEF Tracked, Registry!Init
<1>2. ASSUME Tracked(stable_tracker), [Next]_vars
      PROVE  /\ Tracked(stable_tracker)'
             /\ [Registry!Advance]_<<{stable_tracker.previous[i].id : i \in DOMAIN stable_tracker.previous},
                                     stable_tracker.next_id - 1>>
  BY <1>2, FusionRegisters
<1> QED
  BY <1>1, <1>2, PTL DEF Spec, ImplementsStableIdentities, Registry!Spec

-----------------------------------------------------------------------------
(* The identities: generations *)

\* What was published, and how it relates to the tracker: a snapshot names the
\* identities that the tracker carries on, until a fusion fails half way.
Published ==
  /\ Tracked(stable_tracker)
  /\ generation \in Nat
  /\ latest_snapshot # NoSnapshot =>
       /\ latest_snapshot.generation \in 1 .. generation
       /\ settled => Ids(latest_snapshot.regions) = Names(stable_tracker.previous)

\* The retained of a list of regions.
KeptEnough(before, regions, options) ==
  before # {} =>
    AtLeast(<<Cardinality(before \cap Ids(regions)), Cardinality(before)>>, options.retention)

\* The action of GenerationCoversTurnover.
TurnoverCovered ==
  (/\ latest_snapshot' # latest_snapshot /\ latest_snapshot # NoSnapshot /\ settled
   /\ latest_snapshot'.generation = latest_snapshot.generation)
    => LET before == Ids(latest_snapshot.regions)
           kept == before \cap Ids(latest_snapshot'.regions)
       IN  /\ before # {} => \E stable \in StableOptionSets :
                 AtLeast(<<Cardinality(kept), Cardinality(before)>>, stable.retention)
           /\ \A i \in DOMAIN latest_snapshot'.regions :
                 latest_snapshot'.regions[i].event \in {"kNew", "kRetained"}

\* More of the same whole keeps a ratio.
LEMMA MoreIsEnough ==
  ASSUME NEW many \in Nat, NEW few \in Nat, many >= few, NEW whole \in Nat,
         NEW ratio \in Int \X Nat, AtLeast(<<few, whole>>, ratio)
  PROVE  AtLeast(<<many, whole>>, ratio)
<1> DEFINE p == ratio[1]
           q == ratio[2]
<1>1. p \in Int /\ q \in Nat
  OBVIOUS
<1>2. few * q >= p * whole
  BY DEF AtLeast
<1> HIDE DEF p, q
<1>3. many * q >= few * q
  <2>1. (many - few) * q >= 0
    <3>1. \A x, y \in Nat : x * y >= 0
      OBVIOUS
    <3>2. many - few \in Nat
      OBVIOUS
    <3> QED
      BY <1>1, <3>1, <3>2
  <2>2. (many - few) * q = many * q - few * q
    BY <1>1
  <2> QED
    BY <1>1, <2>1, <2>2
<1>4. many * q >= p * whole
  <2>1. many * q \in Int /\ few * q \in Int /\ p * whole \in Int
    BY <1>1
  <2> DEFINE a == many * q
             b == few * q
             c == p * whole
  <2> HIDE DEF a, b, c
  <2>2. a \in Int /\ b \in Int /\ c \in Int /\ a >= b /\ b >= c
    BY <1>2, <1>3, <2>1 DEF a, b, c
  <2>3. a >= c
    BY <2>2
  <2> QED
    BY <2>3 DEF a, c
<1> QED
  BY <1>4 DEF AtLeast, p, q

\* The identities of a tracker are as many as its regions, and those that a
\* match carries on as many as its pairs.
LEMMA CarriedAreCounted ==
  ASSUME NEW tracker, Tracked(tracker), NEW n \in Nat, NEW match,
         Matching(match, 1 .. n, DOMAIN tracker.previous), NEW list, Named(list, tracker, match, n)
  PROVE  /\ Cardinality(Names(tracker.previous)) = Len(tracker.previous)
         /\ Cardinality(DOMAIN match) \in Nat
         /\ Cardinality(Names(tracker.previous) \cap Names(list)) \in Nat
         /\ Cardinality(Names(tracker.previous) \cap Names(list)) >= Cardinality(DOMAIN match)
<1> DEFINE before == Names(tracker.previous)
           m == Len(tracker.previous)
           kept == before \cap Names(list)
           naming == [i \in 1 .. m |-> tracker.previous[i].id]
           carrying == [c \in DOMAIN match |-> tracker.previous[match[c]].id]
<1>1. m \in Nat /\ DOMAIN tracker.previous = 1 .. m
  BY DEF Tracked
<1>2. naming \in Bijection(1 .. m, before)
  <2>1. naming \in [1 .. m -> before] /\ \A x \in before : \E i \in 1 .. m : naming[i] = x
    BY <1>1 DEF Names
  <2>2. \A i, j \in 1 .. m : naming[i] = naming[j] => i = j
    BY <1>1 DEF Tracked
  <2> HIDE DEF naming, before
  <2> QED
    BY <2>1, <2>2 DEF Bijection, Injection, Surjection, IsInjective
<1>3. IsFiniteSet(1 .. m) /\ Cardinality(1 .. m) = m
  <2>1. 1 \in Int /\ m \in Int
    BY <1>1
  <2> HIDE DEF m
  <2>2. IsFiniteSet(1 .. m) /\ Cardinality(1 .. m) = IF 1 <= m THEN m - 1 + 1 ELSE 0
    BY <2>1, FS_Interval
  <2>3. m >= 0
    BY <1>1
  <2> QED
    BY <1>1, <2>2, <2>3
<1> HIDE DEF naming, m
<1>4. IsFiniteSet(before) /\ Cardinality(before) = m
  <2> HIDE DEF before
  <2>1. ExistsBijection(1 .. m, before)
    BY <1>2 DEF ExistsBijection
  <2> QED
    BY <1>3, <2>1, FS_Bijection
<1>5. IsFiniteSet(kept) /\ Cardinality(kept) \in Nat
  <2>1. kept \in SUBSET before
    OBVIOUS
  <2> HIDE DEF kept, before
  <2> QED
    BY <1>4, <2>1, FS_Subset, FS_CardinalityType
<1>6. carrying \in Injection(DOMAIN match, kept)
  <2>1. ASSUME NEW c \in DOMAIN match
        PROVE  match[c] \in DOMAIN tracker.previous /\ c \in 1 .. n /\ carrying[c] \in kept
    <3>1. match[c] \in DOMAIN tracker.previous /\ c \in 1 .. n
      BY DEF Matching
    <3>2. carrying[c] \in before
      BY <3>1 DEF Names
    <3>3. list[c].id = carrying[c] /\ c \in DOMAIN list
      BY <3>1 DEF Named, Identity
    <3>4. carrying[c] \in Names(list)
      BY <3>3 DEF Names
    <3> QED
      BY <3>1, <3>2, <3>4
  <2>2. \A c, d \in DOMAIN match : carrying[c] = carrying[d] => c = d
    <3> SUFFICES ASSUME NEW c \in DOMAIN match, NEW d \in DOMAIN match, carrying[c] = carrying[d]
                 PROVE  c = d
      OBVIOUS
    <3>1. match[c] = match[d]
      BY <2>1 DEF Tracked
    <3> QED
      BY <3>1 DEF Matching, IsInjective
  <2>3. carrying \in [DOMAIN match -> kept]
    BY <2>1
  <2> HIDE DEF carrying, kept
  <2> QED
    BY <2>2, <2>3 DEF Injection, IsInjective
<1> HIDE DEF carrying, kept
<1>7. IsFiniteSet(DOMAIN match) /\ Cardinality(DOMAIN match) <= Cardinality(kept)
  BY <1>5, <1>6, FS_Injection
<1>8. Cardinality(DOMAIN match) \in Nat
  BY <1>7, FS_CardinalityType
<1> QED
  BY <1>4, <1>5, <1>7, <1>8 DEF kept, m

\* What an unchanged generation tells the reader of a snapshot.
LEMMA SteadyKeepsEnough ==
  ASSUME NEW tracker, Tracked(tracker), NEW n \in Nat, NEW match,
         Matching(match, 1 .. n, DOMAIN tracker.previous), NEW list, Named(list, tracker, match, n),
         NEW options \in StableOptionSets, Steady(tracker, match, list, options)
  PROVE  Names(tracker.previous) # {} =>
           AtLeast(<<Cardinality(Names(tracker.previous) \cap Names(list)),
                     Cardinality(Names(tracker.previous))>>, options.retention)
<1> SUFFICES ASSUME Names(tracker.previous) # {}
             PROVE  AtLeast(<<Cardinality(Names(tracker.previous) \cap Names(list)),
                              Cardinality(Names(tracker.previous))>>, options.retention)
  OBVIOUS
<1> DEFINE few == Cardinality(DOMAIN match)
           many == Cardinality(Names(tracker.previous) \cap Names(list))
           whole == Len(tracker.previous)
<1>1. tracker.previous # <<>>
  BY DEF Names
<1>2. AtLeast(<<few, whole>>, options.retention)
  BY <1>1 DEF Steady
<1>3. Cardinality(Names(tracker.previous)) = whole /\ few \in Nat /\ many \in Nat /\ many >= few
  BY CarriedAreCounted
<1>4. whole \in Nat
  BY DEF Tracked
<1>5. options.retention \in Int \X Nat
  BY FusionAssumption
<1> HIDE DEF few, many, whole
<1>6. AtLeast(<<many, whole>>, options.retention)
  BY <1>2, <1>3, <1>4, <1>5, MoreIsEnough
<1> QED
  BY <1>3, <1>6 DEF many

\* A fusion publishes what the tracker names, and its generation says whether
\* the identities that were published before are covered.
LEMMA FusionCoversTurnover ==
  ASSUME Published, NEW frame, NEW items, NEW options, NEW stable, NEW stop, NEW fault,
         Fusion(frame, items, options, stable, stop, fault)
  PROVE  Published' /\ TurnoverCovered
<1> DEFINE fused == Fused(frame, items, options, stop, fault)
           ids == AdvancedTracker(fused, stable, stop, fault)
           published == ids.status = "kOk" /\ fault # "publish"
           snapshot == Snapshot(frame, fused.value.regions, ids, options)
           next == NextGeneration(ids.bump)
<1>1. Fusing(fused, ids, stable) /\ Tracked(stable_tracker) /\ stable \in StableOptionSets
  BY FusionAdvances DEF Fusion, Published
<1> HIDE DEF fused, ids, next, snapshot
<1>2. /\ stable_tracker' = ids.tracker
      /\ generation' = IF ids.status = "kOk" THEN next ELSE generation
      /\ latest_snapshot' = IF published THEN snapshot ELSE latest_snapshot
      /\ settled' = (published \/ (settled /\ ids.tracker = stable_tracker))
  BY DEF Fusion, Fuse, Publish, fused, ids, next, snapshot
<1>3. generation \in Nat /\ next \in Nat \ {0} /\ next >= generation
  BY DEF Published, next, NextGeneration
<1>4. snapshot.generation = next
  BY DEF snapshot, Snapshot, next
<1>5. snapshot.regions = [i \in DOMAIN fused.value.regions |->
                           [id |-> ids.assignments[i].id, event |-> ids.assignments[i].event,
                            region |-> fused.value.regions[i]]]
  BY DEF snapshot, Snapshot
<1>6. Tracked(ids.tracker)
  BY <1>1, AdvancedIsTracked DEF Fusing
<1>7. CASE ~published
  <2>1. latest_snapshot' = latest_snapshot
    BY <1>2, <1>7
  <2>2. Tracked(stable_tracker)'
    BY <1>2, <1>6 DEF Tracked
  <2>3. generation' \in Nat /\ generation' >= generation
    BY <1>2, <1>3
  <2>4. latest_snapshot # NoSnapshot => latest_snapshot.generation \in 1 .. generation'
    BY <1>3, <2>3 DEF Published
  <2>5. settled' => settled /\ stable_tracker' = stable_tracker
    BY <1>2, <1>7
  <2>6. Published'
    <3>1. settled' /\ latest_snapshot' # NoSnapshot =>
            Ids(latest_snapshot'.regions) = Names(stable_tracker'.previous)
      BY <2>1, <2>5 DEF Published
    <3>2. generation' \in Nat
      BY <2>3
    <3>3. latest_snapshot' # NoSnapshot => latest_snapshot'.generation \in 1 .. generation'
      BY <2>1, <2>4
    <3> QED
      BY <2>2, <3>1, <3>2, <3>3 DEF Published
  <2> QED
    BY <2>1, <2>6 DEF TurnoverCovered
<1>8. CASE published
  <2>1. latest_snapshot' = snapshot /\ generation' = next /\ ids.status = "kOk"
    BY <1>2, <1>8
  <2>2. PICK match, n : Advanced(stable_tracker, ids, match, n, stable) /\ Numbered(fused.value.regions, n)
    BY <1>1, <2>1 DEF Fusing
  <2>3. /\ n \in Nat /\ Matching(match, 1 .. n, DOMAIN stable_tracker.previous)
        /\ Named(ids.tracker.previous, stable_tracker, match, n)
        /\ Named(ids.assignments, stable_tracker, match, n)
        /\ ~ids.bump => Steady(stable_tracker, match, ids.assignments, stable)
    BY <2>1, <2>2 DEF Advanced
  <2>4. /\ DOMAIN snapshot.regions = 1 .. n
        /\ \A i \in 1 .. n : /\ snapshot.regions[i].id = ids.assignments[i].id
                             /\ snapshot.regions[i].event = ids.assignments[i].event
    BY <1>5, <2>2 DEF Numbered
  <2>5. Ids(snapshot.regions) = Names(ids.tracker.previous) /\ Ids(snapshot.regions) = Names(ids.assignments)
    BY <2>3, <2>4 DEF Ids, Names, Named
  <2>6. Published'
    <3>1. Tracked(stable_tracker)'
      BY <1>2, <1>6 DEF Tracked
    <3>2. generation' \in Nat /\ latest_snapshot'.generation \in 1 .. generation'
      BY <1>3, <1>4, <2>1
    <3>3. Ids(latest_snapshot'.regions) = Names(stable_tracker'.previous)
      BY <1>2, <2>1, <2>5
    <3> QED
      BY <3>1, <3>2, <3>3 DEF Published, Ids, Names, NoSnapshot, NoReport, NoSignature, Report, Zero
  <2>7. ASSUME latest_snapshot # NoSnapshot, settled, latest_snapshot'.generation = latest_snapshot.generation
        PROVE  ~ids.bump
    <3>1. next = latest_snapshot.generation /\ latest_snapshot.generation \in 1 .. generation
      BY <1>4, <2>1, <2>7 DEF Published
    <3>2. ids.bump => (next = 1 /\ generation = 0) \/ next = generation + 1
      BY DEF next, NextGeneration
    <3> QED
      BY <1>3, <3>1, <3>2
  <2>8. ASSUME latest_snapshot # NoSnapshot, settled, latest_snapshot'.generation = latest_snapshot.generation
        PROVE  /\ Ids(latest_snapshot.regions) # {} => \E option \in StableOptionSets :
                    AtLeast(<<Cardinality(Ids(latest_snapshot.regions) \cap Ids(latest_snapshot'.regions)),
                              Cardinality(Ids(latest_snapshot.regions))>>, option.retention)
               /\ \A i \in DOMAIN latest_snapshot'.regions :
                    latest_snapshot'.regions[i].event \in {"kNew", "kRetained"}
    <3>1. Steady(stable_tracker, match, ids.assignments, stable)
      BY <2>3, <2>7, <2>8
    <3>2. Ids(latest_snapshot.regions) = Names(stable_tracker.previous)
      BY <2>8 DEF Published
    <3>3. Ids(latest_snapshot'.regions) = Names(ids.assignments)
      BY <2>1, <2>5
    <3>4. Names(stable_tracker.previous) # {} =>
            AtLeast(<<Cardinality(Names(stable_tracker.previous) \cap Names(ids.assignments)),
                      Cardinality(Names(stable_tracker.previous))>>, stable.retention)
      BY <1>1, <2>3, <3>1, SteadyKeepsEnough
    <3>5. \A i \in DOMAIN latest_snapshot'.regions :
            latest_snapshot'.regions[i].event \in {"kNew", "kRetained"}
      BY <2>1, <2>3, <2>4, <3>1 DEF Steady, Named
    <3> QED
      BY <1>1, <3>2, <3>3, <3>4, <3>5
  <2>9. TurnoverCovered
    BY <2>8 DEF TurnoverCovered
  <2> QED
    BY <2>6, <2>9
<1> QED
  BY <1>7, <1>8

\* A reader whose snapshot's generation is that of the next one has lost no more
\* identities than the options allow, and none of them merged or split;
\* for all frames, evidence and options, with fusions that fail in between.
THEOREM UnchangedGenerationsKeepReferences == Spec => GenerationCoversTurnover
<1>1. Init => Published
  <2> SUFFICES ASSUME Init PROVE Published
    OBVIOUS
  <2>1. /\ stable_tracker.previous = <<>> /\ stable_tracker.next_id = 1
        /\ generation = 0 /\ latest_snapshot = NoSnapshot
    BY DEF Init, NewTracker
  <2>2. Len(stable_tracker.previous) = 0 /\ DOMAIN stable_tracker.previous = {} /\ 1 .. 0 = {}
    BY <2>1
  <2> QED
    BY <2>1, <2>2 DEF Published, Tracked
<1>2. ASSUME Published, [Next]_vars PROVE Published' /\ [TurnoverCovered]_vars
  <2>1. CASE UNCHANGED fusionVars
    <3>1. Published'
      BY <1>2, <2>1 DEF fusionVars, Published, Tracked, Ids, Names, NoSnapshot, NoReport, NoSignature, Report, Zero
    <3> QED
      BY <2>1, <3>1 DEF fusionVars, TurnoverCovered
  <2>2. ASSUME NEW frame, NEW items, NEW options, NEW stable, NEW stop, NEW fault,
               Fusion(frame, items, options, stable, stop, fault)
        PROVE  Published' /\ TurnoverCovered
    BY <1>2, <2>2, FusionCoversTurnover
  <2> QED
    BY <1>2, <2>1, <2>2, FusionOrNot
<1> QED
  BY <1>1, <1>2, PTL DEF Spec, GenerationCoversTurnover, TurnoverCovered
=============================================================================
