---------------------------- MODULE MCKVTransfer ----------------------------
(* Instances of KVTransfer for TLC.                                        *)
EXTENDS KVTransfer

CONSTANTS p1, p2, d1, d2

Plain == [prefills |-> {p1}, decodes |-> {d1}, chunks |-> 1, uses |-> 1, lossy |-> FALSE,
          prefill_aborts |-> FALSE, write_fails |-> FALSE, node_fails |-> FALSE,
          reuse |-> "clean"]

(* Two prefill ranks, where only aborts and timeouts of the decode side    *)
(* disturb the transfer; one prefill rank, three chunks, aborts by the     *)
(* prefill side, lost messages, failing writes and failing nodes; the same *)
(* with one chunk and the room used twice.                                 *)
TwoRanks == [Plain EXCEPT !.prefills = {p1, p2}]
ThreeChunks == [Plain EXCEPT !.chunks = 3, !.lossy = TRUE, !.prefill_aborts = TRUE,
                             !.write_fails = TRUE, !.node_fails = TRUE]
Reuse == [ThreeChunks EXCEPT !.chunks = 1, !.uses = 2]

PassSetups == {TwoRanks, ThreeChunks, Reuse}

(* Deployments in which a property of KVTransfer fails: FailedIsQuiet when *)
(* one of two prefill ranks fails; DrainedIsQuiet with two decode ranks,   *)
(* and when a room is used again while an acknowledgement is under way;    *)
(* CommitComplete when it is used again although a rank has an old entry.  *)
FailureSetups == {[TwoRanks EXCEPT !.write_fails = TRUE]}
TwoDecodesSetups == {[Plain EXCEPT !.decodes = {d1, d2}]}
SettledSetups == {[Plain EXCEPT !.uses = 2, !.node_fails = TRUE, !.reuse = "settled"]}
LateReuseSetups == {[Plain EXCEPT !.uses = 2, !.reuse = "any"]}
=============================================================================
