-------------------------- MODULE PerceptionSession --------------------------
(***************************************************************************)
(* PerceptionSession (perception_session.cpp): change analysis, cached     *)
(* capability calls and the fusion of evidence into published snapshots,   *)
(* for one image source.  The session is used by one thread at a time, so  *)
(* a call is a step; what interleaves is the order of the calls, the stage *)
(* at which the context stops a call, and the allocation that fails.       *)
(*                                                                         *)
(* `stop' is the number of the context poll that reports a deadline or a   *)
(* cancellation, 0 for none: the code treats the two alike.                *)
(***************************************************************************)
EXTENDS CapabilityRequests, Changes, Caches, StableIds, Fusion

CONSTANTS
  ResultBytes,    \* options.result_cache_bytes
  FrameBytes,     \* options.frame_cache_bytes
  Frames,         \* the frames the caller submits
  ChangeParams, Requests, Backends, EvidenceSets, FusionOptionSets, StableOptionSets,
  Artifacts,      \* [key, size]: what the caller keeps in the frame cache
  Faults,         \* the allocations that may fail
  MaxIds,         \* bound: fusions stop when this many identities are spent
  MaxSpilled      \* bound: the bytes that failed index entries may leave behind

\* Budgets and sizes are counts of bytes.
ASSUME BytesAssumption ==
  ResultBytes \in Nat /\ FrameBytes \in Nat /\ \A artifact \in Artifacts : artifact.size \in Nat

\* Evidence is a list, and the share of identities to be retained a ratio.
ASSUME FusionAssumption ==
  /\ \A items \in EvidenceSets : items \in Seq(Range(items))
  /\ \A stable \in StableOptionSets : stable.retention \in Int \X Nat

VARIABLES
  previous_signature, last_change,   \* change analysis
  result_cache, frame_cache,         \* what the session remembers
  stable_tracker, generation, latest_snapshot,
  verdict,                           \* of the last call that publishes: analyze_change or fuse
  spilled,                           \* history: bytes of nodes that no index entry ever named
  reported,                          \* history: fingerprint on which the last change report ended
  settled                            \* history: no fusion has failed half way since the last publication

vars == <<previous_signature, last_change, result_cache, frame_cache, stable_tracker, generation,
          latest_snapshot, verdict, spilled, reported, settled>>

changeVars == <<previous_signature, last_change, reported>>
cacheVars == <<result_cache, frame_cache, spilled>>
fusionVars == <<stable_tracker, generation, latest_snapshot, settled>>

(***************************************************************************)
(* run_capability, the engine of run_ocr and run_detector.                 *)
(***************************************************************************)
\* The digest is injective on what it is fed.
CacheKey_anyRevision(print, roi, request, backend) ==
  [image |-> print, roi |-> roi, kind |-> request.kind, space |-> request.output_space,
   backend |-> backend.name, params |-> <<request.max_side, request.params>>]

CacheKey(print, roi, request, backend) ==
  [image |-> print, roi |-> roi, kind |-> request.kind, space |-> request.output_space,
   backend |-> backend.name, revision |-> backend.revision,
   params |-> <<request.max_side, request.params>>]

\* A model reads the first pixel of the image it is given.
BackendAnswer(backend, buffer, request) ==
  <<[bounds |-> Rect(0, 0, 1, 1),
     text |-> <<buffer.pixels[<<0, 0>>], backend.revision, request.params>>]>>

PayloadBytes(kind, answer) ==
  IF kind = "kOcr" THEN 32 + Len(answer) * 64 ELSE 32 + Len(answer) * 48

Payload(request, answer) ==
  [kind |-> request.kind, space |-> request.output_space, answer |-> answer,
   regions |-> IF answer = <<>> THEN {} ELSE IF request.kind = "kOcr" THEN {"text"} ELSE {"detection"},
   bytes |-> PayloadBytes(request.kind, answer)]

\* A question, as far as the state of the session does not matter: why it is
\* refused, its cache key, whether its image can be prepared, and what the
\* backend makes of it.
Refused(frame, backend, request) ==
  FirstFailure(<<Requires(backend.present, "kBackendUnavailable"), CheckFrame(frame), ValidRequest(request),
                 Requires(ValidBackendInfo(backend), "kBackendUnavailable"),
                 ExecutedRoi(frame.image, request).status>>)

FreshAnswer(prepared, backend, request) ==
  IF backend.answers # "kOk" THEN Failed(backend.answers)
  ELSE Then(RecoveryTo(prepared, request.output_space), LAMBDA recovery :
         Ok(Recovered(BackendAnswer(backend, prepared.buffer, request), recovery)))

Question(frame, backend, request) ==
  LET roi == ExecutedRoi(frame.image, request).value
      cropped == Crop(frame.image, roi, WorkBudget(frame.image))
      print == Fingerprint(cropped.value)
      prepared == PrepareChain(cropped.value, roi, request.max_side, backend.accepts, frame.image)
      refused == Refused(frame, backend, request)
  IN  IF refused # "kOk" THEN [refused |-> refused]
      ELSE IF cropped.status # "kOk" THEN [refused |-> cropped.status]
      ELSE IF print.status # "kOk" THEN [refused |-> print.status]
      ELSE [refused |-> "kOk",
            key |-> CacheKey(print.value, roi, request, backend),
            prepared |-> prepared.status,
            fresh |-> Then(prepared, LAMBDA image : FreshAnswer(image, backend, request))]

Questions ==
  Table([asked \in Frames \X Backends \X Requests |-> Question(asked[1], asked[2], asked[3])])

Ended(s, answer, cache) == [status |-> s, answer |-> answer, cache |-> cache]

\* The answer of a failed insertion is lost with it.
AfterBackend(question, request, stop, fault) ==
  LET fresh == question.fresh
      failure == FirstFailure(<<question.prepared, Polled(stop, 2), fresh.status>>)
      stored == CapabilityInsert(result_cache, question.key, Payload(request, fresh.value), fault)
  IN  IF failure # "kOk" THEN Ended(failure, <<>>, result_cache)
      ELSE IF request.policy = "kReadOnly" THEN Ended("kOk", fresh.value, result_cache)
      ELSE Ended(stored.status, IF stored.status = "kOk" THEN fresh.value ELSE <<>>, stored.cache)

Outcome(question, request, stop, fault) ==
  LET early == FirstFailure(<<Polled(stop, 1), question.refused>>)
  IN  IF early # "kOk" THEN Ended(early, <<>>, result_cache)
      ELSE IF request.policy # "kRefresh" /\ Holds(result_cache, question.key)
        THEN Ended("kOk", Lookup(result_cache, question.key, <<>>).answer,
                   Promoted(result_cache, question.key))
      ELSE AfterBackend(question, request, stop, fault)

\* The bytes of the node that a failed index entry leaves in the list.
Spill(cache) ==
  IF cache # result_cache /\ cache.entries # <<>> /\ ~cache.entries[1].live
    THEN cache.entries[1].bytes ELSE 0

RunCapability(frame, backend, request, stop, fault) ==
  LET outcome == Outcome(Questions[<<frame, backend, request>>], request, stop, fault)
  IN  /\ result_cache' = outcome.cache
      /\ spilled' = spilled + (IF fault = "index" THEN Spill(outcome.cache) ELSE 0)
      /\ spilled' <= MaxSpilled
      /\ UNCHANGED <<changeVars, fusionVars, frame_cache, verdict>>

(***************************************************************************)
(* The accessors hand the caches out: the caller drops results and keeps   *)
(* artifacts of its own.  The insertions of the two caches fail alike; here *)
(* only the results' may leave a node without an index entry.              *)
(***************************************************************************)
ClearResults ==
  /\ result_cache' = Cleared(result_cache)
  /\ spilled' = 0
  /\ UNCHANGED <<changeVars, fusionVars, frame_cache, verdict>>

KeepArtifact(artifact, fault) ==
  LET stored == FrameInsert(frame_cache, artifact.key, artifact.size, artifact, fault)
  IN  /\ frame_cache' = stored.cache
      /\ UNCHANGED <<changeVars, fusionVars, result_cache, spilled, verdict>>

TakeArtifact(artifact) ==
  /\ frame_cache' = Promoted(frame_cache, artifact.key)
  /\ UNCHANGED <<changeVars, fusionVars, result_cache, spilled, verdict>>

(***************************************************************************)
(* Change analysis.  The first signature has nothing to be compared with.  *)
(***************************************************************************)
NoSignature == [fingerprint |-> {}]

NoReport == Report("kNone", "kFingerprintEarlyExit", NoSignature, NoSignature, Zero, <<>>)

FirstReport(signature) == Report("kGlobal", "kFirstFrame", NoSignature, signature, Zero, <<>>)

Analyzed(frame, params, stop) ==
  LET early == FirstFailure(<<Polled(stop, 1), CheckFrame(frame)>>)
  IN  IF early # "kOk" THEN Failed(early)
      ELSE Then(MakeChangeSignature(frame.image, params), LAMBDA signature :
             Then(IF previous_signature = NoSignature THEN Ok(FirstReport(signature))
                  ELSE DetectChange(previous_signature, signature, params), LAMBDA report :
               Ok([signature |-> signature, report |-> report])))

\* No fingerprint has a pixel outside of the image.
LostReport == {<<-1, -1>>}

\* The signature takes the place of the previous one before the report is
\* copied, which allocates when it names regions.
AnalyzeChange(frame, params, stop, fault) ==
  LET analyzed == Analyzed(frame, params, stop)
      torn == /\ fault = "report"
              /\ previous_signature # NoSignature
              /\ analyzed.status = "kOk"
              /\ analyzed.value.report.regions # <<>>
  IN  /\ verdict' = IF torn THEN "kBudgetExceeded" ELSE analyzed.status
      /\ IF analyzed.status # "kOk" THEN UNCHANGED changeVars
         ELSE /\ previous_signature' = analyzed.value.signature
              /\ last_change' = IF torn THEN last_change ELSE analyzed.value.report
              /\ reported' = IF torn THEN LostReport ELSE analyzed.value.report.current
      /\ UNCHANGED <<cacheVars, fusionVars>>

(***************************************************************************)
(* Fusion.  Nothing is written before the tracker advances; after that the *)
(* copy that is published may still fail.                                  *)
(***************************************************************************)
Ids(regions) == {regions[i].id : i \in DOMAIN regions}

\* What fuse_evidence makes of the items, by the verdict of the context.
Fusions ==
  Table([asked \in Frames \X EvidenceSets \X FusionOptionSets \X {"kOk", "kTimeout"} |->
           FuseEvidence(asked[2], asked[1].image, asked[3], asked[4])])

Fused(frame, items, options, stop, fault) ==
  LET early == FirstFailure(<<Polled(stop, 1), CheckFrame(frame)>>)
  IN  IF early # "kOk" THEN Failed(early)
      ELSE IF fault = "work" THEN Failed("kBudgetExceeded")
      ELSE Fusions[<<frame, items, options, Polled(stop, 2)>>]

AdvancedTracker_polledLast(fused, stable, stop, fault) ==
  LET advanced == Advance(stable_tracker, fused.value.regions, stable, "kOk", <<>>, fault)
  IN  IF fused.status # "kOk" THEN Unadvanced(stable_tracker, fused.status)
      ELSE [advanced EXCEPT !.status = FirstFailure(<<Polled(stop, 3), @>>)]

\* The tracker's part: nobody confirms associations in a session.
AdvancedTracker(fused, stable, stop, fault) ==
  IF fused.status # "kOk" THEN Unadvanced(stable_tracker, fused.status)
  ELSE Advance(stable_tracker, fused.value.regions, stable, Polled(stop, 3), <<>>, fault)

NextGeneration(bump) ==
  IF generation = 0 THEN 1 ELSE IF bump THEN generation + 1 ELSE generation

NoSnapshot ==
  [sequence |-> 0, space |-> "kOriented", generation |-> 0, regions |-> <<>>, change |-> NoReport]

Snapshot(frame, fused, ids, options) ==
  [sequence |-> frame.sequence, space |-> options.target,
   generation |-> NextGeneration(ids.bump),
   regions |-> [i \in DOMAIN fused |->
                  [id |-> ids.assignments[i].id, event |-> ids.assignments[i].event, region |-> fused[i]]],
   change |-> last_change]

\* The tracker first, then the generation, then the snapshot.
Publish(frame, fused, options, ids, fault) ==
  LET published == ids.status = "kOk" /\ fault # "publish"
  IN  /\ verdict' = IF ids.status = "kOk" /\ ~published THEN "kBudgetExceeded" ELSE ids.status
      /\ stable_tracker' = ids.tracker
      /\ generation' = IF ids.status = "kOk" THEN NextGeneration(ids.bump) ELSE generation
      /\ latest_snapshot' = IF published THEN Snapshot(frame, fused.value.regions, ids, options)
                            ELSE latest_snapshot
      /\ settled' = (published \/ (settled /\ ids.tracker = stable_tracker))
      /\ UNCHANGED <<changeVars, cacheVars>>

Fuse(frame, items, options, stable, stop, fault) ==
  LET fused == Fused(frame, items, options, stop, fault)
  IN  /\ stable_tracker.next_id <= MaxIds
      /\ Publish(frame, fused, options, AdvancedTracker(fused, stable, stop, fault), fault)

(***************************************************************************)
(* The specification.                                                      *)
(***************************************************************************)
Init ==
  /\ previous_signature = NoSignature /\ last_change = NoReport /\ reported = {}
  /\ result_cache = EmptyCache(ResultBytes) /\ frame_cache = EmptyCache(FrameBytes) /\ spilled = 0
  /\ stable_tracker = NewTracker /\ generation = 0 /\ latest_snapshot = NoSnapshot
  /\ settled = TRUE
  /\ verdict = "kOk"

\* Bound: one mishap in a call.
Mishaps(polls) == {<<0, fault>> : fault \in Faults} \cup {<<stop, NoFault>> : stop \in 1 .. polls}

RunOcr ==
  \E frame \in Frames, backend \in Backends, request \in Requests, mishap \in Mishaps(2) :
    request.kind = "kOcr" /\ RunCapability(frame, backend, request, mishap[1], mishap[2])

RunDetector ==
  \E frame \in Frames, backend \in Backends, request \in Requests, mishap \in Mishaps(2) :
    request.kind = "kDetection" /\ RunCapability(frame, backend, request, mishap[1], mishap[2])

Next ==
  \/ \E frame \in Frames, params \in ChangeParams, mishap \in Mishaps(1) :
       AnalyzeChange(frame, params, mishap[1], mishap[2])
  \/ RunOcr
  \/ RunDetector
  \/ \E frame \in Frames, items \in EvidenceSets, options \in FusionOptionSets,
        stable \in StableOptionSets, mishap \in Mishaps(3) :
       Fuse(frame, items, options, stable, mishap[1], mishap[2])
  \/ ClearResults
  \/ \E artifact \in Artifacts, fault \in Faults \ {"index"} : KeepArtifact(artifact, fault)
  \/ \E artifact \in Artifacts : TakeArtifact(artifact)

Spec == Init /\ [][Next]_vars

(***************************************************************************)
(* Properties of the capability calls.                                     *)
(***************************************************************************)
\* What a call sees of a frame before the backend runs.
Sight(frame, request) ==
  LET roi == ExecutedRoi(frame.image, request)
  IN  IF roi.status # "kOk" THEN {}
      ELSE {<<roi.value, Then(Crop(frame.image, roi.value, WorkBudget(frame.image)), Fingerprint)>>}

Sights == Table([asked \in Frames \X Requests |-> Sight(asked[1], asked[2])])

Answered(frame, backend, request) == Outcome(Questions[<<frame, backend, request>>], request, 0, NoFault)

FreshlyAnswered(frame, backend, request) ==
  LET question == Questions[<<frame, backend, request>>]
  IN  IF question.refused = "kOk" THEN question.fresh ELSE Failed(question.refused)

SameModel(a, b) == a.name = b.name /\ a.revision = b.revision

\* Two requests of which the model and the caller see the same.
Alike(a, b) ==
  /\ a.kind = b.kind /\ a.output_space = b.output_space
  /\ a.max_side = b.max_side /\ a.params = b.params

\* Whatever is asked next, at any moment of the life of the cache: an answer is
\* what the model of this revision, with these parameters, makes of a part of
\* a frame that has the place and the fingerprint of the part asked for.
AnswersBelongToTheQuestion ==
  \A frame \in Frames, backend \in Backends, request \in Requests :
    LET outcome == Answered(frame, backend, request)
    IN  outcome.status = "kOk" =>
          \E other \in Frames, model \in Backends, asked \in Requests :
            /\ Alike(asked, request) /\ Sights[<<other, asked>>] = Sights[<<frame, request>>]
            /\ SameModel(model, backend)
            /\ FreshlyAnswered(other, model, asked) = Ok(outcome.answer)

Footprint(cache) == FoldLeft(LAMBDA sum, entry : sum + entry.bytes, 0, cache.entries)

\* Through evictions, replacements and insertions that fail half way, the byte
\* account stays within the budget, and what it misses are exactly the bytes of
\* the nodes that a failed index entry left behind: nothing is counted twice,
\* and no entry goes without being subtracted.
AccountErrsBySpills ==
  /\ result_cache.used <= result_cache.max /\ frame_cache.used <= frame_cache.max
  /\ Footprint(result_cache) = result_cache.used + spilled
  /\ Footprint(frame_cache) = frame_cache.used

(***************************************************************************)
(* Properties of change analysis and of the published snapshots.           *)
(***************************************************************************)
\* Each change report starts from the frame on which the one before it ended:
\* no change between two frames goes unreported because a call was refused or
\* stopped.  A call that runs out of memory while it keeps the report loses its
\* change, and says so with kBudgetExceeded.
ReportsChain ==
  [][last_change' # last_change /\ last_change'.reason # "kFirstFrame"
       => reported = LostReport \/ last_change'.previous = reported]_vars

Registry == INSTANCE StableIdentities
              WITH alive <- {stable_tracker.previous[i].id : i \in DOMAIN stable_tracker.previous},
                   spent <- stable_tracker.next_id - 1

\* The tracker hands out identities as StableIdentities promises, also when a
\* fusion fails after it has advanced.
ImplementsStableIdentities == Registry!Spec

\* A reader who holds references of the published snapshot and finds its
\* generation unchanged in the next one has lost at most the share of the
\* identities that the options allow, and none of them merged or split.
GenerationCoversTurnover ==
  [][(/\ latest_snapshot' # latest_snapshot /\ latest_snapshot # NoSnapshot /\ settled
      /\ latest_snapshot'.generation = latest_snapshot.generation)
       => LET before == Ids(latest_snapshot.regions)
              kept == before \cap Ids(latest_snapshot'.regions)
          IN  /\ before # {} => \E stable \in StableOptionSets :
                    AtLeast(<<Cardinality(kept), Cardinality(before)>>, stable.retention)
              /\ \A i \in DOMAIN latest_snapshot'.regions :
                    latest_snapshot'.regions[i].event \in {"kNew", "kRetained"}]_vars

\* A call that fails publishes nothing; one that the context or the validation
\* ends leaves the whole perception state as it was.
ErrorsPublishNothing ==
  [][/\ verdict' # "kOk" => UNCHANGED <<latest_snapshot, last_change>>
     /\ verdict' \notin {"kOk", "kBudgetExceeded"} => UNCHANGED <<previous_signature, stable_tracker, generation>>]_vars
=============================================================================
