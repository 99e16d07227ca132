-------------------------- MODULE PrefillTransfer ---------------------------
(***************************************************************************)
(* The prefill side: on every rank a bootstrap thread that receives from   *)
(* the decode ranks, a transfer worker that writes the queued chunks into  *)
(* the decode ranks' pages, and the scheduler, which runs in lockstep on   *)
(* all ranks.  The threads of a rank share the manager's dictionaries      *)
(* without a lock, so a step ends wherever another thread can matter.      *)
(* The staging buffer, dummy ranks and optimistic prefill are off.         *)
(***************************************************************************)
EXTENDS KVChannels

VARIABLES
  prefill_status,  \* request_status[room], for each rank
  transfer_infos,  \* transfer_infos[room]: the use each decode rank gave pages for, or 0
  transfer_queue,  \* the chunks queued for the worker
  outstanding,     \* _staging_outstanding[room]
  ack_target,      \* _deferred_ack_targets[room]
  failed_sessions, \* the decode ranks a write to which failed
  worker,          \* the transfer worker: where it is, its chunk, who is left to write to
  boot,            \* the bootstrap thread: where it is, and whose ABORT it handles
  sender,          \* the request: "none", "new", "bootstrap", "waiting", "sending", "inflight"
  sender_conclude, \* conclude_state of the sender, or Absent
  sent,            \* chunks handed to the sender
  written          \* history: the writes that completed

prefillVars == <<prefill_status, transfer_infos, transfer_queue, outstanding, ack_target,
  failed_sessions, worker, boot, sender, sender_conclude, sent, written>>

NoInfos == [d \in Decodes |-> 0]
IdleWorker == [pc |-> "idle", chunk |-> 0, dst |-> {}]
IdleBoot == [pc |-> "idle", from |-> None]

PrefillInit ==
  /\ prefill_status = [p \in Prefills |-> Absent]
  /\ transfer_infos = [p \in Prefills |-> NoInfos]
  /\ transfer_queue = [p \in Prefills |-> <<>>]
  /\ outstanding = [p \in Prefills |-> 0]
  /\ ack_target = [p \in Prefills |-> None]
  /\ failed_sessions = [p \in Prefills |-> {}]
  /\ worker = [p \in Prefills |-> IdleWorker]
  /\ boot = [p \in Prefills |-> IdleBoot]
  /\ sender = "none"
  /\ sender_conclude = [p \in Prefills |-> Absent]
  /\ sent = 0
  /\ written = {}

-----------------------------------------------------------------------------
(* The scheduler.                                                          *)

(* The request arrives: CommonKVSender.__init__.                           *)
CreateSender ==
  /\ sender = "new"
  /\ sender' = "bootstrap"
  /\ prefill_status' = [p \in Prefills |->
       IF p \in P THEN UpdateStatus(prefill_status[p], Bootstrapping) ELSE Absent]
  /\ sender_conclude' = [p \in Prefills |-> Absent]
  /\ sent' = 0
  /\ UNCHANGED <<channelVars, transfer_infos, transfer_queue, outstanding, ack_target,
                 failed_sessions, worker, boot, written>>

(* poll: Success is held back while a chunk is outstanding.                *)
SenderPoll(p) ==
  CASE sender_conclude[p] # Absent -> sender_conclude[p]
    [] sender_conclude[p] = Absent /\ prefill_status[p] = Success /\ outstanding[p] > 0
         -> Transferring
    [] OTHER -> prefill_status[p]

(* A poll that returns Success or Failed is latched.                       *)
Latched(p) == IF SenderPoll(p) \in {Success, Failed} THEN SenderPoll(p) ELSE sender_conclude[p]

(* clear(), on all ranks.                                                  *)
ClearSender ==
  /\ prefill_status' = [p \in Prefills |-> Absent]
  /\ transfer_infos' = [p \in Prefills |-> NoInfos]
  /\ ack_target' = [p \in Prefills |-> None]
  /\ sender' = "none"
  /\ sender_conclude' = [p \in Prefills |-> Absent]
  /\ UNCHANGED <<channelVars, transfer_queue, outstanding, failed_sessions, worker, boot,
                 sent, written>>

(* pop_bootstrapped for this request; "timeout" says that the bootstrap    *)
(* timeout has passed.  A rank that is still bootstrapping then fails.     *)
PopBootstrapped(timeout) ==
  LET poll == [p \in P |-> IF timeout /\ SenderPoll(p) = Bootstrapping THEN Failed
                                                                      ELSE SenderPoll(p)]
  IN /\ sender = "bootstrap"
     /\ \/ AllReduce(poll, P) = Failed /\ ClearSender
        \/ /\ AllReduce(poll, P) = WaitingForInput
           /\ sender' = "waiting"
           /\ UNCHANGED <<channelVars, prefill_status, transfer_infos, transfer_queue,
                outstanding, ack_target, failed_sessions, worker, boot, sender_conclude,
                sent, written>>

(* A waiting request: resolve_waiting_queue_bootstrap drops it if it has   *)
(* failed since, else its prompt is prefilled.                             *)
AdmitWaiting ==
  LET poll == [p \in P |-> SenderPoll(p)]
  IN /\ sender = "waiting"
     /\ IF AllReduce(poll, P) = Failed
          THEN ClearSender
          ELSE /\ sender' = "sending"
               /\ UNCHANGED <<channelVars, prefill_status, transfer_infos, transfer_queue,
                    outstanding, ack_target, failed_sessions, worker, boot,
                    sender_conclude, sent, written>>

(* send_kv_chunk and add_transfer_request: a rank whose room is gone or    *)
(* failed queues nothing.                                                  *)
SendChunk ==
  /\ sender = "sending"
  /\ sent' = sent + 1
  /\ sender' = IF sent' = setup.chunks THEN "inflight" ELSE "sending"
  /\ transfer_queue' = [p \in Prefills |->
       IF p \in P /\ prefill_status[p] \notin {Absent, Failed} /\ transfer_infos[p] # NoInfos
         THEN Append(transfer_queue[p], sent') ELSE transfer_queue[p]]
  /\ UNCHANGED <<channelVars, prefill_status, transfer_infos, outstanding, ack_target,
                 failed_sessions, worker, boot, sender_conclude, written>>

ProcessInflightDone ==
  LET poll == [p \in P |-> SenderPoll(p)]
  IN /\ sender = "inflight"
     /\ AllReduce(poll, P) = Success
     /\ ClearSender

(* process_disagg_prefill_inflight_queue for this request.                 *)
ProcessInflight ==
  LET poll == [p \in P |-> SenderPoll(p)]
  IN /\ sender = "inflight"
     /\ IF AllReduce(poll, P) \in {Success, Failed}
          THEN ClearSender
          ELSE /\ sender_conclude' =
                    [p \in Prefills |-> IF p \in P THEN Latched(p) ELSE Absent]
               /\ UNCHANGED <<channelVars, prefill_status, transfer_infos, transfer_queue,
                    outstanding, ack_target, failed_sessions, worker, boot, sender, sent,
                    written>>

(* abort_request drops a request that waits for its prefill and leaves the *)
(* room as it is.                                                          *)
AbortWaiting ==
  /\ sender = "waiting" /\ setup.prefill_aborts
  /\ sender' = "none"
  /\ UNCHANGED <<channelVars, prefill_status, transfer_infos, transfer_queue, outstanding,
       ack_target, failed_sessions, worker, boot, sender_conclude, sent, written>>

(* process_pending_chunked_abort: a request between two chunks fails on    *)
(* every rank and is dropped, but the room is not cleared.  (One whose     *)
(* last chunk is being prefilled is sent all the same.)                    *)
AbortChunked ==
  /\ sender = "sending" /\ sent < setup.chunks - 1 /\ setup.prefill_aborts
  /\ prefill_status' = [p \in Prefills |-> UpdateStatus(prefill_status[p], Failed)]
  /\ sender' = "none"
  /\ UNCHANGED <<channelVars, transfer_infos, transfer_queue, outstanding, ack_target,
       failed_sessions, worker, boot, sender_conclude, sent, written>>

(* abort_request for a request that is bootstrapping or in flight: its     *)
(* sender fails on every rank.                                             *)
AbortSender ==
  /\ sender \in {"bootstrap", "inflight"}
  /\ setup.prefill_aborts
  /\ prefill_status' = [p \in Prefills |-> UpdateStatus(prefill_status[p], Failed)]
  /\ sender_conclude' = [p \in Prefills |-> IF p \in P THEN Failed ELSE Absent]
  /\ UNCHANGED <<channelVars, transfer_infos, transfer_queue, outstanding, ack_target,
                 failed_sessions, worker, boot, sender, sent, written>>

-----------------------------------------------------------------------------
(* The transfer worker.                                                    *)

(* A chunk is counted as soon as it is taken from the queue.               *)
GetChunk(p) ==
  /\ worker[p].pc = "idle" /\ transfer_queue[p] # <<>>
  /\ worker' = [worker EXCEPT ![p] = [@ EXCEPT !.pc = "check",
                                               !.chunk = Head(transfer_queue[p])]]
  /\ transfer_queue' = [transfer_queue EXCEPT ![p] = Tail(@)]
  /\ outstanding' = [outstanding EXCEPT ![p] = @ + 1]
  /\ UNCHANGED <<channelVars, prefill_status, transfer_infos, ack_target, failed_sessions,
                 boot, sender, sender_conclude, sent, written>>

(* _maybe_ack_drained_abort, with n chunks outstanding.                    *)
MaybeAckDrained(p, n) ==
  IF n > 0 \/ ack_target[p] = None
    THEN UNCHANGED <<ack_target, to_decode>>
    ELSE /\ ack_target' = [ack_target EXCEPT ![p] = None]
         /\ to_decode' = SendToDecodes(p, {ack_target[p]}, Message("ABORT_ACK"))

(* The chunk of a failed or cleared room is not written.                   *)
SkipChunk(p) ==
  /\ outstanding' = [outstanding EXCEPT ![p] = 0]
  /\ MaybeAckDrained(p, 0)
  /\ worker' = [worker EXCEPT ![p] = IdleWorker]

(* "room not in request_status", the first half of the worker's test.      *)
CheckRoom(p) ==
  /\ worker[p].pc = "check"
  /\ IF prefill_status[p] = Absent
       THEN SkipChunk(p)
       ELSE /\ worker' = [worker EXCEPT ![p].pc = "read"]
            /\ UNCHANGED <<outstanding, ack_target, to_decode>>
  /\ UNCHANGED <<setup, use, to_prefill, lost, prefill_status, transfer_infos,
       transfer_queue, failed_sessions, boot, sender, sender_conclude, sent, written>>

(* check_status, the second half: the room may have been cleared since,    *)
(* and the KeyError ends the worker.  Else the destinations are those the  *)
(* decode ranks gave.                                                      *)
ReadStatus(p) ==
  /\ worker[p].pc = "read"
  /\ CASE prefill_status[p] = Absent ->
            /\ worker' = [worker EXCEPT ![p].pc = "dead"]
            /\ UNCHANGED <<outstanding, ack_target, to_decode>>
       [] prefill_status[p] = Failed -> SkipChunk(p)
       [] OTHER ->
            /\ worker' = [worker EXCEPT ![p] = [@ EXCEPT !.pc = "write",
                 !.dst = {<<d, transfer_infos[p][d]>> : d \in
                            {d \in D : transfer_infos[p][d] # 0}}]]
            /\ UNCHANGED <<outstanding, ack_target, to_decode>>
  /\ UNCHANGED <<setup, use, to_prefill, lost, prefill_status, transfer_infos,
       transfer_queue, failed_sessions, boot, sender, sender_conclude, sent, written>>

(* The write to one decode rank is done.  After the last write of the last *)
(* chunk the room succeeds, or fails if the auxiliary data did not get     *)
(* through, and all decode ranks are told.                                 *)
WriteDone(p) == \E t \in worker[p].dst :
  /\ worker[p].pc = "write" /\ t[1] \notin failed_sessions[p]
  /\ worker' = [worker EXCEPT ![p].dst = @ \ {t}]
  /\ written' = written \cup {<<p, t[1], t[2], worker[p].chunk>>}
  /\ IF worker[p].chunk = setup.chunks /\ worker[p].dst = {t}
       THEN \E ret \in {"Success"} \cup (IF setup.write_fails THEN {"Failed"} ELSE {}) :
              /\ prefill_status' = [prefill_status EXCEPT ![p] =
                   UpdateStatus(@, IF ret = "Success" THEN Success ELSE Failed)]
              /\ to_decode' = SendToDecodes(p, D, Message(ret))
       ELSE UNCHANGED <<prefill_status, to_decode>>
  /\ UNCHANGED <<setup, use, to_prefill, lost, transfer_infos, transfer_queue, outstanding,
       ack_target, failed_sessions, boot, sender, sender_conclude, sent>>

(* The write fails, or an earlier one to this decode rank did: the room    *)
(* fails, that decode rank is told and the others are not written to.      *)
WriteFails(p) == \E t \in worker[p].dst :
  /\ worker[p].pc = "write" /\ (setup.write_fails \/ t[1] \in failed_sessions[p])
  /\ worker' = [worker EXCEPT ![p].dst = {}]
  /\ failed_sessions' = [failed_sessions EXCEPT ![p] = @ \cup {t[1]}]
  /\ prefill_status' = [prefill_status EXCEPT ![p] = UpdateStatus(@, Failed)]
  /\ to_decode' = SendToDecodes(p, {t[1]}, Message("Failed"))
  /\ UNCHANGED <<setup, use, to_prefill, lost, transfer_infos, transfer_queue, outstanding,
       ack_target, boot, sender, sender_conclude, sent, written>>

FinishChunkUncounted(p) ==
  /\ worker[p].pc = "write" /\ worker[p].dst = {}
  /\ MaybeAckDrained(p, outstanding[p])
  /\ worker' = [worker EXCEPT ![p] = IdleWorker]
  /\ UNCHANGED <<setup, use, to_prefill, lost, prefill_status, transfer_infos, transfer_queue,
       outstanding, failed_sessions, boot, sender, sender_conclude, sent, written>>

(* The chunk is no longer outstanding; the room is torn down if it has     *)
(* concluded.                                                              *)
FinishChunk(p) ==
  /\ worker[p].pc = "write" /\ worker[p].dst = {}
  /\ outstanding' = [outstanding EXCEPT ![p] = @ - 1]
  /\ MaybeAckDrained(p, outstanding'[p])
  /\ transfer_infos' = [transfer_infos EXCEPT ![p] =
       IF /\ outstanding'[p] <= 0
          /\ \/ prefill_status[p] \in {Absent, Success}
             \/ worker[p].chunk = setup.chunks /\ prefill_status[p] = Failed
         THEN NoInfos ELSE @]
  /\ worker' = [worker EXCEPT ![p] = IdleWorker]
  /\ UNCHANGED <<setup, use, to_prefill, lost, prefill_status, transfer_queue,
       failed_sessions, boot, sender, sender_conclude, sent, written>>

(* _run_one_probe_pass: a session that answers again is usable again.      *)
Probe(p) == \E d \in failed_sessions[p] :
  /\ failed_sessions' = [failed_sessions EXCEPT ![p] = @ \ {d}]
  /\ UNCHANGED <<channelVars, prefill_status, transfer_infos, transfer_queue, outstanding,
       ack_target, worker, boot, sender, sender_conclude, sent, written>>

-----------------------------------------------------------------------------
(* The bootstrap thread.                                                   *)

(* The pages of a decode rank: the room can start when all have come.      *)
RecvMetadata(p, d, u) ==
  /\ transfer_infos' = [transfer_infos EXCEPT ![p][d] = u]
  /\ prefill_status' = [prefill_status EXCEPT ![p] =
       IF \A e \in D : transfer_infos'[p][e] # 0 THEN UpdateStatus(@, WaitingForInput) ELSE @]
  /\ UNCHANGED <<boot, to_decode>>

(* A room that is gone or has succeeded is acknowledged at once, if no     *)
(* chunk of it is outstanding.                                             *)
AckIfQuiescent(p, d) ==
  to_decode' = IF outstanding[p] = 0
                 THEN SendToDecodes(p, {d}, Message("ABORT_ACK")) ELSE to_decode

(* ABORT, "room in request_status", the first half of room_active.         *)
RecvAbort(p, d) ==
  /\ IF prefill_status[p] = Absent
       THEN AckIfQuiescent(p, d) /\ UNCHANGED boot
       ELSE /\ boot' = [boot EXCEPT ![p] = [pc |-> "read", from |-> d]]
            /\ UNCHANGED to_decode
  /\ UNCHANGED <<transfer_infos, prefill_status>>

BootstrapRecv(p, d) ==
  /\ boot[p].pc = "idle" /\ to_prefill[p][d] # <<>>
  /\ to_prefill' = [to_prefill EXCEPT ![p][d] = Tail(@)]
  /\ LET m == Head(to_prefill[p][d])
     IN IF m.kind = "ABORT" THEN RecvAbort(p, d) ELSE RecvMetadata(p, d, m.use)
  /\ UNCHANGED <<setup, use, lost, transfer_queue, outstanding, ack_target, failed_sessions,
                 worker, sender, sender_conclude, sent, written>>

(* check_status, the second half of room_active: the room may have been    *)
(* cleared since, and the KeyError ends the thread.  A room that succeeded *)
(* is treated like one that is gone; one that is active is marked and its  *)
(* acknowledgement deferred.                                               *)
ReadActive(p) ==
  /\ boot[p].pc = "read"
  /\ CASE prefill_status[p] = Absent ->
            boot' = [boot EXCEPT ![p] = [pc |-> "dead", from |-> None]] /\ UNCHANGED to_decode
       [] prefill_status[p] = Success ->
            boot' = [boot EXCEPT ![p] = IdleBoot] /\ AckIfQuiescent(p, boot[p].from)
       [] OTHER ->
            boot' = [boot EXCEPT ![p].pc = "mark"] /\ UNCHANGED to_decode
  /\ UNCHANGED <<setup, use, to_prefill, lost, prefill_status, transfer_infos,
       transfer_queue, outstanding, ack_target, failed_sessions, worker, sender,
       sender_conclude, sent, written>>

RegisterUnmarked(p) ==
  /\ boot[p].pc = "mark"
  /\ boot' = [boot EXCEPT ![p].pc = "register"]
  /\ UNCHANGED <<channelVars, prefill_status, transfer_infos, transfer_queue, outstanding,
       ack_target, failed_sessions, worker, sender, sender_conclude, sent, written>>

MarkFailed(p) ==
  /\ boot[p].pc = "mark"
  /\ prefill_status' = [prefill_status EXCEPT ![p] = UpdateStatus(@, Failed)]
  /\ boot' = [boot EXCEPT ![p].pc = "register"]
  /\ UNCHANGED <<channelVars, transfer_infos, transfer_queue, outstanding, ack_target,
       failed_sessions, worker, sender, sender_conclude, sent, written>>

(* register_deferred_ack_target, and one try to acknowledge at once.       *)
RegisterAckTarget(p) ==
  /\ boot[p].pc = "register"
  /\ IF outstanding[p] > 0
       THEN /\ ack_target' = [ack_target EXCEPT ![p] = boot[p].from]
            /\ UNCHANGED to_decode
       ELSE /\ ack_target' = [ack_target EXCEPT ![p] = None]
            /\ to_decode' = SendToDecodes(p, {boot[p].from}, Message("ABORT_ACK"))
  /\ boot' = [boot EXCEPT ![p] = IdleBoot]
  /\ UNCHANGED <<setup, use, to_prefill, lost, prefill_status, transfer_infos,
       transfer_queue, outstanding, failed_sessions, worker, sender, sender_conclude,
       sent, written>>
=============================================================================
