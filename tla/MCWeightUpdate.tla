--------------------------- MODULE MCWeightUpdate ---------------------------
(* Instances of WeightUpdate: what the trainers call.                      *)
EXTENDS WeightUpdate

CONSTANTS t1, t2

Pause(mode) == [op |-> "pause", mode |-> mode]
Resume == [op |-> "continue"]
Update(kind, flush, abort, version) ==
  [op |-> "update", kind |-> kind, flush |-> flush, abort |-> abort, version |-> version]

Setup(overlap, chunked, disconnects, calls1, calls2) ==
  [overlap |-> overlap, chunked |-> chunked, disconnects |-> disconnects,
   program |-> [t \in Trainers |-> IF t = t1 THEN calls1 ELSE calls2]]

(* The documented flow of one trainer, and a second one that loads the     *)
(* first version from disk at any moment without pausing: that version is  *)
(* still the one in force, or it comes back.                               *)
RetractSetup ==
  Setup(TRUE, FALSE, FALSE,
        <<Pause("retract"), Update("tensor", FALSE, FALSE, 2), Resume>>,
        <<Update("disk", FALSE, FALSE, 1)>>)

(* One trainer that pauses in the two other modes, one after the other;    *)
(* its first update names no version.                                      *)
FlowSetup ==
  Setup(FALSE, TRUE, TRUE,
        <<Pause("abort"), Update("tensor", FALSE, TRUE, NoVersion), Resume,
          Pause("in_place"), Update("disk", FALSE, FALSE, 2), Resume>>, <<>>)

(* The documented flow with chunked prefill and clients that go away.      *)
ChunkSetup ==
  Setup(TRUE, TRUE, TRUE,
        <<Pause("retract"), Update("tensor", FALSE, FALSE, 2), Resume>>, <<>>)

(* A trainer that updates weights and flushes the cache without pausing.   *)
FlushSetup == Setup(TRUE, TRUE, FALSE, <<Update("tensor", TRUE, FALSE, 2)>>, <<>>)

PassSetups == {RetractSetup, FlowSetup, ChunkSetup, FlushSetup}
FlushSetups == {FlushSetup}

(* The documented flow in the mode whose cache "can be flushed".           *)
RetractFlushSetups ==
  {Setup(TRUE, FALSE, FALSE,
         <<Pause("retract"), Update("tensor", TRUE, FALSE, 2), Resume>>, <<>>)}

(* A pause in place that is turned into an abort.                          *)
PauseTwiceSetups ==
  {Setup(TRUE, FALSE, FALSE, <<Pause("in_place"), Pause("abort"), Resume>>, <<>>)}

(* The documented flow in place, with the overlapped loop.                 *)
InPlaceSetups ==
  {Setup(TRUE, FALSE, FALSE,
         <<Pause("in_place"), Update("tensor", FALSE, FALSE, 2), Resume>>, <<>>)}

(* The documented flow in the default mode, beside an unpaused update.     *)
AbortSetups ==
  {Setup(TRUE, FALSE, FALSE,
         <<Pause("abort"), Update("tensor", FALSE, FALSE, 2), Resume>>,
         <<Update("disk", FALSE, FALSE, 3)>>)}
=============================================================================
