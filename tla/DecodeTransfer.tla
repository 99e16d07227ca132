--------------------------- MODULE DecodeTransfer ---------------------------
(***************************************************************************)
(* The decode side: DecodeTransferQueue with the deferred release of the   *)
(* KV pages of aborted requests, the receiver thread of every rank and the *)
(* heartbeat checker.  The schedulers of the decode ranks run in lockstep. *)
(***************************************************************************)
EXTENDS KVChannels

VARIABLES
  decode_status,     \* request_status[room], for each rank
  responses,         \* prefill_response_tracker[room]
  receiver,          \* the request: "none", "new", "transfer", "arm"
  receiver_conclude, \* conclude_state of the receiver, or Absent
  abort_notified,    \* abort_notified of the receiver
  armed,             \* the room has an entry in _deferred_abort_ack_tracker
  acks,              \* and the prefill ranks in it
  held,              \* _deferred_releases: the use whose pages are held, or 0
  release,           \* why the pages of each use were given up, or "no"
  decode_thread      \* "recv", "success", "dead", or the rank whose Success is counted

decodeVars == <<decode_status, responses, receiver, receiver_conclude, abort_notified, armed,
                acks, held, release, decode_thread>>

DecodeInit ==
  /\ decode_status = [d \in Decodes |-> Absent]
  /\ responses = [d \in Decodes |-> {}]
  /\ receiver = "none"
  /\ receiver_conclude = [d \in Decodes |-> Absent]
  /\ abort_notified = [d \in Decodes |-> FALSE]
  /\ armed = [d \in Decodes |-> FALSE]
  /\ acks = [d \in Decodes |-> {}]
  /\ held = [d \in Decodes |-> 0]
  /\ release = [d \in Decodes |-> [u \in Uses |-> "no"]]
  /\ decode_thread = [d \in Decodes |-> "recv"]

-----------------------------------------------------------------------------
(* The scheduler.                                                          *)

(* The request has been allocated its pages and its handshake is over:     *)
(* send_metadata gives them to every prefill rank.                         *)
SendMetadata ==
  /\ receiver = "new"
  /\ receiver' = "transfer"
  /\ decode_status' = [d \in Decodes |->
       IF d \in D THEN UpdateStatus(decode_status[d], WaitingForInput) ELSE Absent]
  /\ receiver_conclude' = [d \in Decodes |-> Absent]
  /\ abort_notified' = [d \in Decodes |-> FALSE]
  /\ to_prefill' = SendToPrefills(D, Metadata(use))
  /\ UNCHANGED <<setup, use, to_decode, lost, responses, armed, acks, held, release,
                 decode_thread>>

(* abort_request: the receivers fail and notify the prefill ranks, once.   *)
AbortReceiver ==
  /\ receiver = "transfer"
  /\ receiver' = "arm"
  /\ decode_status' = [d \in Decodes |-> UpdateStatus(decode_status[d], Failed)]
  /\ receiver_conclude' = [d \in Decodes |-> IF d \in D THEN Failed ELSE Absent]
  /\ to_prefill' = SendToPrefills({d \in D : ~abort_notified[d]}, Message("ABORT"))
  /\ abort_notified' = [d \in Decodes |-> d \in D]
  /\ UNCHANGED <<setup, use, to_decode, lost, responses, armed, acks, held, release,
                 decode_thread>>

(* register_deferred_abort_room, after the ABORT was sent.                 *)
ArmAcks ==
  /\ receiver = "arm"
  /\ receiver' = "transfer"
  /\ armed' = [d \in Decodes |-> d \in D]
  /\ acks' = [d \in Decodes |-> {}]
  /\ UNCHANGED <<channelVars, decode_status, responses, receiver_conclude, abort_notified,
                 held, release, decode_thread>>

ReceiverPoll(d) ==
  IF receiver_conclude[d] # Absent THEN receiver_conclude[d] ELSE decode_status[d]

(* clear(), for the ranks in ds.                                           *)
ClearReceivers(ds) ==
  /\ decode_status' = [d \in Decodes |-> IF d \in ds THEN Absent ELSE decode_status[d]]
  /\ responses' = [d \in Decodes |-> IF d \in ds THEN {} ELSE responses[d]]

(* The failed branch of pop_transferred.  A rank that notified the prefill *)
(* ranks of an abort holds its pages, another one releases them.           *)
FailTransfer(notified) ==
  /\ ClearReceivers(D)
  /\ receiver' = "none"
  /\ receiver_conclude' = [d \in Decodes |-> Absent]
  /\ held' = [d \in Decodes |-> IF d \in D /\ notified[d] THEN use ELSE held[d]]
  /\ release' = [d \in Decodes |->
       IF d \in D /\ ~notified[d] THEN [release[d] EXCEPT ![use] = "failed"] ELSE release[d]]

(* pop_transferred for this request.  The ranks in "late" find that the    *)
(* waiting timeout has passed: they fail and notify the prefill ranks, but *)
(* they do not arm the acknowledgements.                                   *)
PopTransferred(late) ==
  LET expired == {d \in late : receiver_conclude[d] = Absent /\ decode_status[d] = WaitingForInput}
      poll == [d \in D |-> IF d \in expired THEN Failed ELSE ReceiverPoll(d)]
      notified == [d \in Decodes |-> abort_notified[d] \/ d \in expired]
  IN /\ receiver = "transfer"
     /\ to_prefill' = SendToPrefills({d \in expired : ~abort_notified[d]}, Message("ABORT"))
     /\ abort_notified' = notified
     /\ \/ AllReduce(poll, D) = Failed /\ FailTransfer(notified)
        \/ /\ AllReduce(poll, D) = Success
           /\ ClearReceivers(D)
           /\ receiver' = "none"
           /\ receiver_conclude' = [d \in Decodes |-> Absent]
           /\ release' = [d \in Decodes |-> IF d \in D
                            THEN [release[d] EXCEPT ![use] = "committed"] ELSE release[d]]
           /\ UNCHANGED held
        \/ /\ AllReduce(poll, D) \notin {Failed, Success}
           /\ receiver_conclude' = [d \in Decodes |->
                IF d \in D /\ ReceiverPoll(d) = Success THEN Success ELSE receiver_conclude[d]]
           /\ UNCHANGED <<decode_status, responses, receiver, held, release>>
     /\ UNCHANGED <<setup, use, to_decode, lost, armed, acks, decode_thread>>

(* is_abort_release_safe, with an acknowledgement required of every rank.  *)
IsAbortReleaseSafe(d) == armed[d] /\ Cardinality(acks[d]) >= Cardinality(P)

ResolveAcknowledgedOnly(late) ==
  LET released == {d \in D : held[d] # 0 /\ IsAbortReleaseSafe(d)}
  IN /\ receiver # "arm"
     /\ released # {} /\ late \subseteq D
     /\ ClearReceivers(released)
     /\ armed' = [d \in Decodes |-> armed[d] /\ d \notin released]
     /\ acks' = [d \in Decodes |-> IF d \in released THEN {} ELSE acks[d]]
     /\ held' = [d \in Decodes |-> IF d \in released THEN 0 ELSE held[d]]
     /\ release' = [d \in Decodes |-> IF d \in released
          THEN [release[d] EXCEPT ![held[d]] = "drained"] ELSE release[d]]
     /\ UNCHANGED <<channelVars, receiver, receiver_conclude, abort_notified, decode_thread>>

(* resolve_deferred_releases: each rank decides for itself.  The ranks in  *)
(* "late" find that the hold has timed out.                                *)
ResolveDeferredReleases(late) ==
  LET drained == {d \in D : held[d] # 0 /\ IsAbortReleaseSafe(d)}
      released == drained \cup {d \in late : held[d] # 0}
  IN /\ receiver # "arm"
     /\ released # {}
     /\ ClearReceivers(released)
     /\ armed' = [d \in Decodes |-> armed[d] /\ d \notin released]
     /\ acks' = [d \in Decodes |-> IF d \in released THEN {} ELSE acks[d]]
     /\ held' = [d \in Decodes |-> IF d \in released THEN 0 ELSE held[d]]
     /\ release' = [d \in Decodes |-> IF d \in released
          THEN [release[d] EXCEPT ![held[d]] = IF d \in drained THEN "drained" ELSE "timeout"]
          ELSE release[d]]
     /\ UNCHANGED <<channelVars, receiver, receiver_conclude, abort_notified, decode_thread>>

-----------------------------------------------------------------------------
(* The receiver thread and the heartbeat checker.                          *)

(* ABORT_ACK counts while the room is armed.  Failed fails the room.  A    *)
(* Success is counted if the room is still there, in a second step.        *)
DecodeRecv(d, p) ==
  /\ decode_thread[d] = "recv" /\ to_decode[d][p] # <<>>
  /\ to_decode' = [to_decode EXCEPT ![d][p] = Tail(@)]
  /\ LET kind == Head(to_decode[d][p]).kind
     IN /\ acks' = IF kind = "ABORT_ACK" /\ armed[d] THEN [acks EXCEPT ![d] = @ \cup {p}] ELSE acks
        /\ decode_status' = IF kind = "Failed"
             THEN [decode_status EXCEPT ![d] = UpdateStatus(@, Failed)] ELSE decode_status
        /\ decode_thread' = IF kind = "Success" /\ decode_status[d] # Absent
             THEN [decode_thread EXCEPT ![d] = p] ELSE decode_thread
  /\ UNCHANGED <<setup, use, to_prefill, lost, responses, receiver, receiver_conclude,
                 abort_notified, armed, held, release>>

CountFirstResponse(d) ==
  /\ decode_thread[d] \in Prefills
  /\ responses' = [responses EXCEPT ![d] = @ \cup {decode_thread[d]}]
  /\ decode_thread' = [decode_thread EXCEPT ![d] =
       IF decode_status[d] = Absent THEN "dead" ELSE "success"]
  /\ UNCHANGED <<channelVars, decode_status, receiver, receiver_conclude, abort_notified,
                 armed, acks, held, release>>

(* The room may have been cleared since: the KeyError ends the thread.     *)
CountResponse(d) ==
  /\ decode_thread[d] \in Prefills
  /\ responses' = [responses EXCEPT ![d] = @ \cup {decode_thread[d]}]
  /\ decode_thread' = [decode_thread EXCEPT ![d] =
       CASE decode_status[d] = Absent -> "dead"
         [] decode_status[d] # Absent /\ Cardinality(responses'[d]) = Cardinality(P) -> "success"
         [] OTHER -> "recv"]
  /\ UNCHANGED <<channelVars, decode_status, receiver, receiver_conclude, abort_notified,
                 armed, acks, held, release>>

(* update_status(Success), after the last response was counted: a room     *)
(* that was cleared since is there again.                                  *)
MarkSuccess(d) ==
  /\ decode_thread[d] = "success"
  /\ decode_status' = [decode_status EXCEPT ![d] = UpdateStatus(@, Success)]
  /\ decode_thread' = [decode_thread EXCEPT ![d] = "recv"]
  /\ UNCHANGED <<channelVars, responses, receiver, receiver_conclude, abort_notified, armed,
                 acks, held, release>>

(* _handle_node_failure: the prefill node missed too many heartbeats.      *)
HandleNodeFailure(d) ==
  /\ setup.node_fails
  /\ decode_status[d] \notin {Absent, Success, Failed}
  /\ decode_status' = [decode_status EXCEPT ![d] = Failed]
  /\ UNCHANGED <<channelVars, responses, receiver, receiver_conclude, abort_notified, armed,
                 acks, held, release, decode_thread>>
=============================================================================
