------------------------------- MODULE OcrBatch -------------------------------
(***************************************************************************)
(* The contract of a budgeted OCR run (ocr_batch.hpp, ocr_batch.cpp): what *)
(* a request may say, the order of the lines, and when a report agrees     *)
(* with itself.  An optional value is a set of at most one.  Priorities    *)
(* and scores are finite, as validation and the detector leave them.       *)
(***************************************************************************)
EXTENDS Texts, Orders

CONSTANTS MaxPriorityEntries, MaxPriorityBytes, MaxReportBytes, EntryBytes, ReportBytes, RecordBytes

CompletionStates == {"kRecognized", "kReused", "kDeferred"}

OcrLineRecord(bounds, det_confidence) ==
  [candidate_id |-> -1, bounds |-> bounds, det_confidence |-> det_confidence, state |-> "kDeferred",
   text |-> <<>>, rec_confidence |-> {}, execution_order |-> -1]

\* The status of a request, in the order of its checks.
ValidateOcrBatchRequest(request) ==
  LET priorities == request.priorities
  IN  IF \/ request.max_rec_lines <= 0
         \/ request.max_priority_entries \notin 1 .. MaxPriorityEntries
         \/ request.max_priority_bytes \notin 1 .. MaxPriorityBytes
         \/ request.max_report_bytes \notin 1 .. MaxReportBytes
         \/ \E d \in request.soft_budget \cup request.finalize_reserve : d < 0
        THEN "kInvalidArgument"
      ELSE IF \/ Len(priorities) > request.max_priority_entries
              \/ Len(priorities) * EntryBytes > request.max_priority_bytes
        THEN "kBudgetExceeded"
      ELSE IF \E i \in DOMAIN priorities : priorities[i].roi.w < 0 \/ priorities[i].roi.h < 0
        THEN "kInvalidArgument"
      ELSE "kOk"

(***************************************************************************)
(* The two orders.                                                         *)
(***************************************************************************)
RectsOverlap(a, b) == IntersectionArea(a, b) > 0

\* The highest priority of the entries that a line meets, 0 without one.
ResolveOcrLinePriority(bounds, priorities) ==
  LET met == {i \in DOMAIN priorities : RectsOverlap(bounds, priorities[i].roi)}
  IN  IF met = {} THEN 0 ELSE Max({priorities[i].priority : i \in met})

Lexicographic(a, b) ==
  \E i \in DOMAIN a : a[i] < b[i] /\ \A j \in 1 .. i - 1 : a[j] = b[j]

ReadingKey(line) ==
  <<line.bounds.y, line.bounds.x, -line.bounds.w, -line.bounds.h, -line.det_confidence, line.candidate_id>>

OcrLineReadingLess(a, b) == Lexicographic(ReadingKey(a), ReadingKey(b))

ExecutionKey(line, priority, selection) ==
  <<-priority, IF selection = "kDetScore" THEN -line.det_confidence ELSE 0>> \o ReadingKey(line)

OcrLineExecutesBefore(a, b, priority_a, priority_b, selection) ==
  Lexicographic(ExecutionKey(a, priority_a, selection), ExecutionKey(b, priority_b, selection))

(***************************************************************************)
(* Reports: [lines, detected_count, det_limit, det_limit_hit,              *)
(* recognized_count, reused_count, deferred_count, rec_forward_count,      *)
(* stop_reason, completion].                                               *)
(***************************************************************************)
OwnedBytes(report) ==
  ReportBytes + FoldSeq(LAMBDA line, bytes : bytes + RecordBytes + Len(line.text), 0, report.lines)

InState(report, state) == {i \in DOMAIN report.lines : report.lines[i].state = state}

LineRecordsConsistent(report) ==
  LET lines == report.lines
      recognized == InState(report, "kRecognized")
  IN  /\ \A i \in DOMAIN lines : lines[i].candidate_id >= 0
      /\ \A i \in recognized : lines[i].rec_confidence # {}
      /\ \A i \in InState(report, "kDeferred") :
           lines[i].text = <<>> /\ lines[i].rec_confidence = {} /\ lines[i].execution_order = -1
      /\ Cardinality(recognized) = report.recognized_count
      /\ Cardinality(InState(report, "kReused")) = report.reused_count
      /\ Cardinality(InState(report, "kDeferred")) = report.deferred_count
      /\ Cardinality({lines[i].candidate_id : i \in DOMAIN lines}) = Len(lines)
      /\ {lines[i].execution_order : i \in recognized} = 0 .. Cardinality(recognized) - 1

StopReasonConsistent(report) ==
  IF report.stop_reason = "kCompleted"
    THEN InState(report, "kDeferred") = {} /\ report.completion = "kComplete"
    ELSE InState(report, "kDeferred") # {} /\ report.completion = "kPartial"

OcrBatchResultConsistent(report) ==
  /\ report.detected_count = Len(report.lines)
  /\ report.detected_count = report.recognized_count + report.reused_count + report.deferred_count
  /\ report.reused_count = 0
  /\ report.rec_forward_count = report.recognized_count + report.reused_count
  /\ report.det_limit_hit => report.det_limit > 0
  /\ LineRecordsConsistent(report)
  /\ StopReasonConsistent(report)

\* The digest is injective on the fields that it is fed.
ParamsDigest(request) ==
  <<request.min_confidence, request.max_rec_lines, request.selection, request.priorities,
    IF request.soft_budget = {} THEN {0} ELSE request.soft_budget,
    IF request.finalize_reserve = {} THEN {0} ELSE request.finalize_reserve,
    request.max_priority_entries, request.max_priority_bytes, request.max_report_bytes>>
=============================================================================
