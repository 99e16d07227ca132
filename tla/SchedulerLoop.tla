---------------------------- MODULE SchedulerLoop ----------------------------
(***************************************************************************)
(* The scheduler process as its control requests see it                    *)
(* (sglang/srt/managers/scheduler.py): the event loop, normal or           *)
(* overlapped, with pause_generation, continue_generation, abort_request   *)
(* and the weight updates of scheduler_components/weight_updater.py.       *)
(*                                                                         *)
(* One iteration polls the socket, handles every message it got, and then, *)
(* unless the engine is paused, schedules and launches a batch.  With      *)
(* overlap the results of a batch are processed one iteration later, while *)
(* the next batch is already in flight.  KV memory is the subject of       *)
(* KVCache and is left out: any waiting requests may be admitted.  With    *)
(* chunked prefill a prompt takes one batch or two.                        *)
(***************************************************************************)
EXTENDS WeightVersions, FiniteSets

CONSTANTS
  Reqs,       \* generation requests
  MaxTokens   \* bound: output tokens of a request (its max_new_tokens)

VARIABLES
  enable_overlap,  \* chosen at start: the overlapped event loop, or the normal one
  chunked_prefill, \* chosen at start: may a prompt be prefilled in two chunks?
  chan,           \* messages on the socket from the tokenizer manager
  inbox,          \* messages polled in this iteration and not yet handled
  polled,         \* has this iteration polled the socket?
  engine_paused,  \* _engine_paused
  waiting,        \* waiting_queue
  running,        \* running_batch and last_batch, finished requests included
  finished,       \* the finished requests that are still in a batch
  to_finish,      \* requests with to_finish = FINISH_ABORT
  chunked_req,    \* the request, if any, whose last chunk is still to be prefilled
  chunked_abort,  \* _pending_chunked_abort_req
  inflight,       \* result_queue: the batch in flight and its weights
  weights,        \* how many times weights were loaded
  weight_version, \* the version in force: the name the last update gave, if it gave one
  out,            \* for each request the versions that made its tokens
  events,         \* weight_version_events of each request
  spans,          \* weight_versions reported on finishing, or <<>>
  answered,       \* final outputs on their way to the tokenizer manager
  replies,        \* replies to weight updates on their way
  crashed         \* an assertion failed: the process is gone

schedvars == <<chan, inbox, polled, engine_paused, waiting, running, finished,
               to_finish, chunked_req, chunked_abort, inflight, weights,
               weight_version, out, events, spans, answered, replies, crashed>>

NoVersion == 0

(* A batch, the requests in it that prefill a middle chunk, its version.   *)
Batch(B, C, v) == [reqs |-> B, chunk |-> C, version |-> v]
NoBatch == Batch({}, {}, NoVersion)

Gen(r) == [type |-> "generate", rid |-> r]
AbortOne(r) == [type |-> "abort", rid |-> r]
AbortAll == [type |-> "abort_all"]
PauseMsg(mode) == [type |-> "pause", mode |-> mode]
ContinueMsg == [type |-> "continue"]
UpdateMsg(t, flush, version) ==
  [type |-> "update", from |-> t, flush |-> flush, version |-> version]

SchedInit ==
  /\ chan = <<>> /\ inbox = <<>> /\ polled = FALSE
  /\ engine_paused = FALSE
  /\ waiting = {} /\ running = {} /\ finished = {} /\ to_finish = {}
  /\ chunked_req = {} /\ chunked_abort = {}
  /\ inflight = NoBatch
  /\ weights = 1 /\ weight_version = 1
  /\ out = [r \in Reqs |-> <<>>]
  /\ events = [r \in Reqs |-> <<>>]
  /\ spans = [r \in Reqs |-> <<>>]
  /\ answered = {} /\ replies = {}
  /\ crashed = FALSE

(* recv_requests takes all that has arrived.  A paused engine polls again  *)
(* at once; otherwise a batch is run between two polls.                    *)
RecvRequests ==
  /\ ~crashed /\ inbox = <<>> /\ chan # <<>>
  /\ polled => engine_paused
  /\ inbox' = chan /\ chan' = <<>> /\ polled' = TRUE
  /\ UNCHANGED <<engine_paused, waiting, running, finished, to_finish, chunked_req,
                 chunked_abort, inflight, weights, weight_version, out, events, spans,
                 answered, replies, crashed>>

-----------------------------------------------------------------------------
(* process_batch_result of the batch b when the requests gone are finished *)
(* already: a token for every other request whose prompt is prefilled, and *)
(* the final output for the ones that are done: stopped by the model, by   *)
(* length or by an abort.                                                  *)
MayFinish(P) ==
  {D \in SUBSET P : \A r \in P : r \in to_finish \/ Len(out[r]) + 1 = MaxTokens => r \in D}

Processed(b, gone) == b.reqs \ (gone \cup b.chunk)

ProcessBatchResult(b, gone, D) ==
  LET P == Processed(b, gone)
      tokens == [r \in Reqs |-> IF r \in P THEN Append(out[r], b.version) ELSE out[r]]
  IN  /\ D \in MayFinish(P)
      /\ out' = tokens
      /\ spans' = [r \in Reqs |-> IF r \in D
                     THEN ComputeSpans(events[r], weight_version, Len(tokens[r])) ELSE spans[r]]

(* process_pending_chunked_abort ends the chunked request if it is to be   *)
(* aborted.  A marker whose request was retracted since is dropped.        *)
PendingChunkedAbort == chunked_req \cap chunked_abort

(* The rest of an iteration: get_next_batch_to_run first ends a chunked    *)
(* request that is to be aborted and drops the finished ones; it prefills  *)
(* the rest of the chunked request and some waiting ones, one of them      *)
(* perhaps only in part, else it decodes; then run_batch, and the results  *)
(* of this batch (normal loop) or of the last one (overlap).               *)
RunIteration ==
  /\ ~crashed /\ inbox = <<>> /\ ~engine_paused
  /\ \E A \in SUBSET waiting : \E C \in SUBSET A :
       LET aborted == PendingChunkedAbort
           rest == chunked_req \ aborted
           gone == finished \cup aborted
           live == running \ (gone \cup rest)
           B == IF A \cup rest # {} THEN A \cup rest ELSE live
           last == IF enable_overlap THEN inflight ELSE Batch(B, C, weight_version)
       IN  /\ C # {} => chunked_prefill /\ Cardinality(C) = 1
           /\ B = {} => waiting = {}
           /\ \E D \in SUBSET Processed(last, gone) :
                /\ ProcessBatchResult(last, gone, D)
                /\ answered' = answered \cup D \cup aborted
                /\ running' = live \cup rest \cup A
                /\ waiting' = waiting \ A
                /\ finished' = D
                /\ to_finish' = to_finish \ (D \cup aborted)
           /\ chunked_req' = C /\ chunked_abort' = {}
           /\ inflight' = IF enable_overlap /\ B # {}
                            THEN Batch(B, C, weight_version) ELSE NoBatch
  /\ polled' = FALSE
  /\ UNCHANGED <<chan, inbox, engine_paused, weights, weight_version, events, replies,
                 crashed>>

-----------------------------------------------------------------------------
(* The handlers, dispatched by process_input_requests.                     *)
Receive(type) ==
  /\ ~crashed /\ inbox # <<>> /\ Head(inbox).type = type
  /\ inbox' = Tail(inbox)
  /\ UNCHANGED <<chan, polled>>

HandleGenerate ==
  /\ Receive("generate")
  /\ waiting' = waiting \cup {Head(inbox).rid}
  /\ UNCHANGED <<engine_paused, running, finished, to_finish, chunked_req, chunked_abort,
                 inflight, weights, weight_version, out, events, spans, answered, replies,
                 crashed>>

(* The unfinished requests in a batch finish with their next token.        *)
AbortRunning(S) == to_finish' = to_finish \cup ((running \ finished) \cap S)

(* abort_request: a chunked request is marked for the next iteration;      *)
(* waiting requests are answered and dropped; the ones in a batch, which   *)
(* the chunked one also is, are marked.                                    *)
AbortRequests(S) ==
  /\ chunked_abort' = IF chunked_req \cap S # {} THEN chunked_req ELSE chunked_abort
  /\ waiting' = waiting \ S
  /\ answered' = answered \cup (waiting \cap S)
  /\ AbortRunning(S)
  /\ UNCHANGED <<engine_paused, running, finished, chunked_req, inflight, weights,
                 weight_version, out, events, spans, replies, crashed>>

HandleAbort ==
  \/ Receive("abort_all") /\ AbortRequests(Reqs)
  \/ Receive("abort") /\ AbortRequests({Head(inbox).rid})

HandlePauseKeepsBatch ==
  /\ Receive("pause")
  /\ engine_paused' = TRUE
  /\ \E D \in SUBSET Processed(inflight, finished) :
       /\ ProcessBatchResult(inflight, finished, D)
       /\ answered' = answered \cup D
       /\ waiting' = waiting \cup (running \ (finished \cup D))
       /\ to_finish' = to_finish \ D
  /\ inflight' = NoBatch
  /\ UNCHANGED <<running, finished, chunked_req, chunked_abort, weights, weight_version,
                 events, replies, crashed>>

(* pause_generation: in_place only sets the flag; retract first processes  *)
(* the batch in flight and then moves every unfinished request back to the *)
(* waiting queue, the chunked one too.                                     *)
HandlePause ==
  /\ Receive("pause")
  /\ engine_paused' = TRUE
  /\ \/ /\ Head(inbox).mode = "in_place"
        /\ UNCHANGED <<waiting, running, finished, to_finish, chunked_req, inflight, out,
                       spans, answered>>
     \/ /\ Head(inbox).mode = "retract"
        /\ \E D \in SUBSET Processed(inflight, finished) :
             /\ ProcessBatchResult(inflight, finished, D)
             /\ answered' = answered \cup D
             /\ waiting' = waiting \cup ((running \cup chunked_req) \ (finished \cup D))
             /\ to_finish' = to_finish \ D
        /\ running' = {} /\ finished' = {} /\ chunked_req' = {} /\ inflight' = NoBatch
  /\ UNCHANGED <<chunked_abort, weights, weight_version, events, replies, crashed>>

HandleContinue ==
  /\ Receive("continue")
  /\ engine_paused' = FALSE
  /\ UNCHANGED <<waiting, running, finished, to_finish, chunked_req, chunked_abort,
                 inflight, weights, weight_version, out, events, spans, answered, replies,
                 crashed>>

(* is_fully_idle, which flush_cache requires.                              *)
IsFullyIdle == running = {} /\ waiting = {} /\ chunked_req = {} /\ inflight.reqs = {}

RecordRunningOnly(version) ==
  IF version \in {NoVersion, weight_version}
    THEN UNCHANGED <<weight_version, events>>
    ELSE /\ weight_version' = version
         /\ events' = [r \in Reqs |-> IF r \in running \cup chunked_req
              THEN RecordEvent(events[r], weight_version, Len(out[r])) ELSE events[r]]

(* record_weight_version_change: an update that names no version, or the   *)
(* one in force, leaves no trace; else every request in the scheduler that *)
(* has tokens gets an event.                                               *)
RecordVersionChange(version) ==
  IF version \in {NoVersion, weight_version}
    THEN UNCHANGED <<weight_version, events>>
    ELSE /\ weight_version' = version
         /\ events' = [r \in Reqs |->
              IF r \in waiting \cup running \cup chunked_req
                THEN RecordEvent(events[r], weight_version, Len(out[r])) ELSE events[r]]

(* update_weights_from_*: the new weights, the flush and its assertion,    *)
(* then the new version; or a failed load, which only replies.  There is   *)
(* no draft worker.                                                        *)
HandleUpdate ==
  /\ Receive("update")
  /\ LET msg == Head(inbox)
     IN  \/ /\ ~msg.flush \/ IsFullyIdle
            /\ weights' = weights + 1
            /\ RecordVersionChange(msg.version)
            /\ replies' = replies \cup {msg.from}
            /\ UNCHANGED crashed
         \/ /\ msg.flush /\ ~IsFullyIdle
            /\ crashed' = TRUE
            /\ UNCHANGED <<weights, weight_version, events, replies>>
         \/ /\ replies' = replies \cup {msg.from}
            /\ UNCHANGED <<weights, weight_version, events, crashed>>
  /\ UNCHANGED <<engine_paused, waiting, running, finished, to_finish, chunked_req,
                 chunked_abort, inflight, out, spans, answered>>

SchedNext ==
  \/ RecvRequests \/ RunIteration
  \/ HandleGenerate \/ HandleAbort \/ HandlePause \/ HandleContinue \/ HandleUpdate
=============================================================================
