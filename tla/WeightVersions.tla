--------------------------- MODULE WeightVersions ---------------------------
(***************************************************************************)
(* Which output token came from which weights: the bookkeeping of          *)
(* sglang/srt/utils/weight_versions.py.  A request carries a list of events*)
(* [old_version, num_output_tokens], one per change of weights it lived    *)
(* through; on finishing they become half-open spans of token indices.     *)
(***************************************************************************)
EXTENDS Integers, Sequences, SequencesExt

(* record_weight_version_events, for one request: only a request that has  *)
(* output tokens gets an event.                                            *)
RecordEvent(events, old, n) ==
  IF n = 0 THEN events
  ELSE Append(events, [old_version |-> old, num_output_tokens |-> n])

(* The loop body of compute_weight_version_spans.                          *)
AddSpan(spans, version, end) ==
  LET last == spans[Len(spans)]
  IN  CASE spans = <<>> -> <<[version |-> version, start |-> 0, end |-> end]>>
        [] spans # <<>> /\ end <= last.end -> spans
        [] spans # <<>> /\ end > last.end /\ version = last.version ->
             [spans EXCEPT ![Len(spans)].end = end]
        [] OTHER -> Append(spans, [version |-> version, start |-> last.end, end |-> end])

(* compute_weight_version_spans(events, current_version, num_output_tokens)*)
ComputeSpans(events, current, n) ==
  LET changes == Append(events, [old_version |-> current, num_output_tokens |-> n])
      Clip(e) == IF e.num_output_tokens < n THEN e.num_output_tokens ELSE n
      Step(spans, e) == AddSpan(spans, e.old_version, Clip(e))
  IN  FoldLeft(Step, <<>>, changes)

(* The spans add_weight_versions_to_meta_info shows when n tokens are      *)
(* visible to the client (a stop string may have trimmed the rest).        *)
VisibleSpans(spans, n) ==
  LET Shown(s) == s.start < n \/ s.start = 0
      Cut(s) == [s EXCEPT !.end = IF n < @ THEN n ELSE @]
      shown == SelectSeq(spans, Shown)
  IN  [i \in DOMAIN shown |-> Cut(shown[i])]

(* The spans attribute every token to the version that produced it.        *)
Attributes(spans, truth) ==
  \A i \in DOMAIN truth :
    \E k \in DOMAIN spans : /\ spans[k].start < i /\ i <= spans[k].end
                            /\ spans[k].version = truth[i]

=============================================================================
