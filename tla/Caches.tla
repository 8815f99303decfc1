------------------------------- MODULE Caches -------------------------------
(***************************************************************************)
(* The byte-budgeted LRU containers of src/cache: FrameCache,              *)
(* CapabilityResultCache and VisualIndex.  A cache is a record             *)
(*                                                                         *)
(*   entries  the list, most recently used first.  An entry is `live' when *)
(*            the index points at it; at most one entry of a key is.       *)
(*   used     the bytes the cache accounts for                             *)
(*   max      its budget                                                   *)
(*                                                                         *)
(* An allocation may fail in three places of an insertion: the payload,    *)
(* the list node and the index entry.                                      *)
(***************************************************************************)
EXTENDS Orders, Sequences, FiniteSetsExt

Overhead == 64
NoFault == "none"
InsertFaults == {NoFault, "payload", "node", "index"}

EmptyCache(max) == [entries |-> <<>>, used |-> 0, max |-> max]

LiveAt(cache, key) ==
  {i \in DOMAIN cache.entries : cache.entries[i].live /\ cache.entries[i].key = key}

Holds(cache, key) == LiveAt(cache, key) # {}

Erased(cache, key) ==
  IF ~Holds(cache, key) THEN cache
  ELSE LET i == CHOOSE i \in LiveAt(cache, key) : TRUE
       IN  [cache EXCEPT !.entries = RemoveAt(cache.entries, i),
                         !.used = @ - cache.entries[i].bytes]

DropTail_uncounted(cache) ==
  LET tail == Last(cache.entries)
      Unindexed(entry) == [entry EXCEPT !.live = @ /\ entry.key # tail.key]
      rest == Front(cache.entries)
  IN  [cache EXCEPT !.entries = [i \in DOMAIN rest |-> Unindexed(rest[i])]]

\* The last entry leaves the list, and the index forgets its key: also when
\* the index points at a younger entry of that key.
DropTail(cache) ==
  LET tail == Last(cache.entries)
      Unindexed(entry) == [entry EXCEPT !.live = @ /\ entry.key # tail.key]
      rest == Front(cache.entries)
  IN  [cache EXCEPT !.used = @ - tail.bytes,
                    !.entries = [i \in DOMAIN rest |-> Unindexed(rest[i])]]

MadeRoom(cache, bytes) ==
  LET Drop[n \in Nat] == IF n = 0 THEN cache ELSE DropTail(Drop[n - 1])
      Enough(n) == Drop[n].used + bytes <= cache.max \/ Drop[n].entries = <<>>
      n == CHOOSE n \in 0 .. Len(cache.entries) :
             Enough(n) /\ \A m \in 0 .. n - 1 : ~Enough(m)
  IN  Drop[n]

Entry(key, bytes, value, live) == [key |-> key, bytes |-> bytes, value |-> value, live |-> live]

\* The part of an insertion that the catch block covers: a failed list node
\* leaves the evictions, a failed index entry leaves a node nobody accounts for.
Pushed(cache, key, bytes, value, fault) ==
  LET room == MadeRoom(cache, bytes)
  IN  CASE fault = "node"  -> room
        [] fault = "index" -> [room EXCEPT !.entries = <<Entry(key, bytes, value, FALSE)>> \o @]
        [] OTHER -> [room EXCEPT !.entries = <<Entry(key, bytes, value, TRUE)>> \o @,
                                 !.used = @ + bytes]

Stored(cache, status) == [cache |-> cache, status |-> status]

StatusOf(fault) == IF fault = NoFault THEN "kOk" ELSE "kBudgetExceeded"

\* `value' is the stored result: its kind, the kinds of regions it holds and
\* the bytes they cost.
MixesKinds(value) ==
  \/ {"text", "detection"} \subseteq value.regions
  \/ value.kind = "kOcr" /\ "detection" \in value.regions
  \/ value.kind = "kDetection" /\ "text" \in value.regions

CapabilityInsert(cache, key, value, fault) ==
  LET bytes == Overhead + value.bytes
  IN  IF MixesKinds(value) THEN Stored(cache, "kInvalidArgument")
      ELSE IF fault = "payload" \/ bytes > cache.max THEN Stored(cache, "kBudgetExceeded")
      ELSE Stored(Pushed(Erased(cache, key), key, bytes, value, fault), StatusOf(fault))

FrameInsert(cache, key, size, value, fault) ==
  LET bytes == size + Overhead
  IN  IF bytes > cache.max \/ fault = "payload" THEN Stored(cache, "kBudgetExceeded")
      ELSE Stored(Pushed(Erased(cache, key), key, bytes, value, fault), StatusOf(fault))

\* A hit moves to the front; a miss answers nothing and changes nothing.
Promoted(cache, key) ==
  IF ~Holds(cache, key) THEN cache
  ELSE LET i == CHOOSE i \in LiveAt(cache, key) : TRUE
       IN  [cache EXCEPT !.entries = <<cache.entries[i]>> \o RemoveAt(@, i)]

Lookup(cache, key, miss) ==
  IF Holds(cache, key) THEN Promoted(cache, key).entries[1].value ELSE miss

Cleared(cache) == EmptyCache(cache.max)

(***************************************************************************)
(* VisualIndex: entries of one size, found again by a layered query.       *)
(***************************************************************************)
EntryBytes(side) == side * side + Overhead

VisualInsert(cache, side, id, print) ==
  IF EntryBytes(side) > cache.max THEN Stored(cache, "kBudgetExceeded")
  ELSE Stored(Pushed(Erased(cache, id), id, EntryBytes(side), print, NoFault), "kOk")

\* A hit is <<layer, similarity, id>>: layer 0 for identical content, 1 for
\* the perceptual hash, 2 for the template.  `prints' carry the outcome of the
\* comparisons with the query: same content, equal hash bits and correlation;
\* a layer is active when its threshold lies below 1 (Full).
Full == 64

Hits(print, thresholds) ==
  IF print.same THEN {[layer |-> 0, similarity |-> Full]}
  ELSE IF thresholds.hash < Full /\ print.hash >= thresholds.hash
         THEN {[layer |-> 1, similarity |-> print.hash]}
  ELSE IF thresholds.ncc < Full /\ print.ncc >= thresholds.ncc
         THEN {[layer |-> 2, similarity |-> print.ncc]}
  ELSE {}

Ahead(a, b) ==
  \/ a.layer < b.layer
  \/ a.layer = b.layer /\ a.similarity > b.similarity
  \/ a.layer = b.layer /\ a.similarity = b.similarity /\ a.id < b.id

Candidates(cache, thresholds, limit) ==
  LET found == UNION {{[layer |-> h.layer, similarity |-> h.similarity, id |-> e.key] :
                         h \in Hits(e.value, thresholds)} : e \in ToSet(cache.entries)}
      ranked == SortedBy(found, {pair \in found \X found : Ahead(pair[1], pair[2])})
  IN  SubSeq(ranked, 1, Min({limit, Len(ranked)}))

\* The answers are promoted one after the other, so the weakest ends in front.
VisualQuery(cache, thresholds, limit) ==
  LET answer == Candidates(cache, thresholds, limit)
  IN  [answer |-> answer,
       cache |-> FoldLeft(LAMBDA c, hit : Promoted(c, hit.id), cache, answer)]
=============================================================================
