----------------------------- MODULE KVTransfer -----------------------------
(***************************************************************************)
(* The transfer of a request's KV cache from the prefill ranks to the      *)
(* decode ranks, with aborts, timeouts, failed writes and lost messages.   *)
(* The question is when the decode side may give its pages to another      *)
(* request: a write that is still under way would corrupt it.              *)
(***************************************************************************)
EXTENDS PrefillTransfer, DecodeTransfer

vars == <<channelVars, prefillVars, decodeVars>>

Init == ChannelsInit /\ PrefillInit /\ DecodeInit

(* Assumptions on the environment, which no code checks: the routers draw  *)
(* a room at random from 2^63, so a room is used again only by chance, or  *)
(* if a client names it.  Nothing of an earlier use is under way (threads  *)
(* that died stay dead):                                                   *)
Settled ==
  /\ \A p \in P, d \in D : to_prefill[p][d] = <<>> /\ to_decode[d][p] = <<>>
  /\ \A p \in P : worker[p].pc \in {"idle", "dead"} /\ transfer_queue[p] = <<>>
  /\ \A p \in P : boot[p].pc \in {"idle", "dead"}
  /\ \A d \in D : decode_thread[d] \in {"recv", "dead"}

(* and no rank has an entry left from it.                                  *)
Clean == (\A p \in P : prefill_status[p] = Absent) /\ (\A d \in D : decode_status[d] = Absent)

(* The router sends the next request for the room to both sides, when both *)
(* are done with the one before and what the deployment assumes holds.     *)
Dispatch ==
  /\ use < setup.uses
  /\ sender = "none" /\ receiver = "none" /\ \A d \in D : held[d] = 0
  /\ setup.reuse \in {"clean", "settled"} => Settled
  /\ setup.reuse = "clean" => Clean
  /\ use' = use + 1
  /\ sender' = "new" /\ receiver' = "new"
  /\ UNCHANGED <<setup, to_prefill, to_decode, lost, prefill_status, transfer_infos,
       transfer_queue, outstanding, ack_target, failed_sessions, worker, boot,
       sender_conclude, sent, written, decode_status, responses, receiver_conclude,
       abort_notified, armed, acks, held, release, decode_thread>>

PrefillScheduler ==
  \/ CreateSender \/ \E t \in BOOLEAN : PopBootstrapped(t)
  \/ AdmitWaiting \/ SendChunk \/ ProcessInflight

Worker(p) ==
  GetChunk(p) \/ CheckRoom(p) \/ ReadStatus(p) \/ WriteDone(p) \/ WriteFails(p) \/ FinishChunk(p)

BootstrapThread(p) ==
  \/ \E d \in D : BootstrapRecv(p, d)
  \/ ReadActive(p) \/ MarkFailed(p) \/ RegisterAckTarget(p)

DecodeScheduler ==
  \/ SendMetadata \/ ArmAcks
  \/ \E late \in SUBSET D : PopTransferred(late) \/ ResolveDeferredReleases(late)

DecodeThread(d) == (\E p \in P : DecodeRecv(d, p)) \/ CountResponse(d) \/ MarkSuccess(d)

Next ==
  \/ Dispatch
  \/ PrefillScheduler /\ UNCHANGED decodeVars
  \/ (AbortSender \/ AbortWaiting \/ AbortChunked) /\ UNCHANGED decodeVars
  \/ \E p \in P : (Worker(p) \/ Probe(p) \/ BootstrapThread(p)) /\ UNCHANGED decodeVars
  \/ (DecodeScheduler \/ AbortReceiver) /\ UNCHANGED prefillVars
  \/ \E d \in D : (DecodeThread(d) \/ HandleNodeFailure(d)) /\ UNCHANGED prefillVars
  \/ \E p \in P, d \in D : Lose(p, d) /\ UNCHANGED <<prefillVars, decodeVars>>

Spec == Init /\ [][Next]_vars

(* The threads of a side keep running and its scheduler keeps polling: it  *)
(* is enough that one of them makes a step, as the work of each is finite. *)
(* Time passes: a timeout that is waited for long enough comes.  Fairness  *)
(* is strong for the two steps that every pass of the decode scheduler     *)
(* takes after it has handled the aborts.                                  *)
Fairness ==
  /\ WF_<<channelVars, prefillVars>>(
       PrefillScheduler \/ \E p \in P : Worker(p) \/ BootstrapThread(p))
  /\ WF_<<channelVars, decodeVars>>(
       SendMetadata \/ ArmAcks \/ \E d \in D : DecodeThread(d))
  /\ SF_<<channelVars, decodeVars>>(PopTransferred(D))
  /\ SF_<<channelVars, decodeVars>>(ResolveDeferredReleases(D))

FairSpec == Spec /\ Fairness

-----------------------------------------------------------------------------
TypeOK ==
  /\ setup \in Setups /\ use \in 0..setup.uses /\ lost \in BOOLEAN
  /\ to_prefill \in [Prefills -> [Decodes -> Seq(Messages)]]
  /\ to_decode \in [Decodes -> [Prefills -> Seq(Messages)]]
  /\ prefill_status \in [Prefills -> Statuses]
  /\ transfer_infos \in [Prefills -> [Decodes -> 0..setup.uses]]
  /\ transfer_queue \in [Prefills -> Seq(1..setup.chunks)]
  /\ outstanding \in [Prefills -> 0..1]
  /\ ack_target \in [Prefills -> Decodes \cup {None}]
  /\ failed_sessions \in [Prefills -> SUBSET Decodes]
  /\ worker \in [Prefills -> [pc : {"idle", "check", "read", "write", "dead"},
                              chunk : 0..setup.chunks, dst : SUBSET (Decodes \X Uses)]]
  /\ boot \in [Prefills -> [pc : {"idle", "read", "mark", "register", "dead"},
                            from : Decodes \cup {None}]]
  /\ sender \in {"none", "new", "bootstrap", "waiting", "sending", "inflight"}
  /\ sender_conclude \in [Prefills -> {Failed, Success, Absent}]
  /\ sent \in 0..setup.chunks
  /\ written \subseteq Prefills \X Decodes \X Uses \X (1..setup.chunks)
  /\ decode_status \in [Decodes -> Statuses]
  /\ responses \in [Decodes -> SUBSET Prefills]
  /\ receiver \in {"none", "new", "transfer", "arm"}
  /\ receiver_conclude \in [Decodes -> {Failed, Success, Absent}]
  /\ abort_notified \in [Decodes -> BOOLEAN]
  /\ armed \in [Decodes -> BOOLEAN] /\ acks \in [Decodes -> SUBSET Prefills]
  /\ held \in [Decodes -> 0..setup.uses]
  /\ release \in [Decodes -> [Uses -> {"no", "failed", "drained", "timeout", "committed"}]]
  /\ decode_thread \in [Decodes -> {"recv", "success", "dead"} \cup Prefills]

(* A worker writes, or is about to write, into pages that were given up    *)
(* for the reason r.                                                       *)
WritesInto(r) == \E p \in P : \E t \in worker[p].dst : release[t[1]][t[2]] = r

(* When the pages of an aborted request are released because every prefill *)
(* rank acknowledged (is_abort_release_safe), no rank writes into them any *)
(* more, whatever the order of the ABORT, the queued chunks, the clearing  *)
(* of the room and the acknowledgement.                                    *)
DrainedIsQuiet == ~WritesInto("drained")

(* A request that goes on to decode has all its KV cache: every prefill    *)
(* rank wrote every chunk into every decode rank's pages.                  *)
CommitComplete == \A d \in D, u \in Uses : release[d][u] = "committed" =>
  \A p \in P, c \in 1..setup.chunks : <<p, d, u, c>> \in written

(* The comment on the immediate release in pop_transferred: "A prefill-    *)
(* initiated failure has already stopped writing".                         *)
FailedIsQuiet == ~WritesInto("failed")

(* Every request on the decode side is decided, and pages that are held    *)
(* are released in the end, even if messages are lost and threads die.     *)
PagesReleased ==
  (receiver # "none")
    ~> (receiver = "none" /\ \A d \in D, u \in 1..use : release[d][u] # "no")

(* Every request on the prefill side is concluded, also after a KeyError   *)
(* has ended the bootstrap thread, unless an ABORT was lost or a transfer  *)
(* worker has died: only the decode side's ABORT ends a transfer that      *)
(* makes no progress.                                                      *)
SendersConclude ==
  (sender # "none")
    ~> (sender = "none" \/ lost \/ \E p \in P : worker[p].pc = "dead")
=============================================================================
