---------------------------- MODULE WeightUpdate ----------------------------
(***************************************************************************)
(* Pausing generation and updating weights while requests are served: the  *)
(* tokenizer manager (sglang/srt/managers/tokenizer_manager.py and         *)
(* tokenizer_control_mixin.py) composed with the RWLock and SchedulerLoop. *)
(*                                                                         *)
(* Every generate call and every control call is an asyncio task; a step   *)
(* runs from one suspension to the next.  A generate call passes the pause *)
(* gate (is_pause_cond), takes the reader side of model_update_lock, sends *)
(* its request and keeps the lock until the final output.  A weight update *)
(* takes the writer side, or, when generation is paused, goes ahead without*)
(* the lock; the update from disk then lets go of is_pause_cond at once,   *)
(* the others hold it until the reply.                                     *)
(***************************************************************************)
EXTENDS SchedulerLoop

CONSTANTS
  Trainers,     \* clients of the control endpoints
  Setups,       \* see SetupType
  Renotify,     \* see RWLock
  None          \* nobody holds is_pause_cond

Tasks == Reqs \cup Trainers

VARIABLES
  setup,                \* the set-up of this behaviour
  readers, writer_active, waiting_writers, lock_pc, woken,  \* model_update_lock
  is_pause,             \* is_pause
  cond_owner,           \* the task that holds is_pause_cond across a suspension
  notified,             \* generate calls woken by is_pause_cond.notify_all
  model_update_result,  \* whose future the update from disk resolves next
  task,                 \* where each task is
  step                  \* the call each trainer is making

lvars == <<readers, writer_active, waiting_writers, lock_pc, woken>>
tmvars == <<is_pause, cond_owner, notified, model_update_result, task, step>>
server == <<enable_overlap, chunked_prefill, setup>>
vars == <<schedvars, lvars, tmvars, server>>

Lock == INSTANCE RWLock WITH pc <- lock_pc, MaxAcquires <- 0, acquires <- 0

Calls ==
  [op : {"pause"}, mode : {"abort", "retract", "in_place"}]
  \cup [op : {"continue"}]
  \cup [op : {"update"}, kind : {"disk", "tensor"}, flush : BOOLEAN, abort : BOOLEAN,
       version : Nat]

(* A server with or without the overlapped loop and chunked prefill,       *)
(* clients of generate calls that may go away or not, and the calls each   *)
(* trainer makes.                                                          *)
SetupType == [overlap : BOOLEAN, chunked : BOOLEAN, disconnects : BOOLEAN,
              program : [Trainers -> Seq(Calls)]]

ASSUME WeightUpdateAssumption ==
  /\ None \notin Tasks
  /\ Setups \subseteq SetupType

Init ==
  /\ setup \in Setups
  /\ enable_overlap = setup.overlap /\ chunked_prefill = setup.chunked
  /\ SchedInit /\ Lock!LockInit
  /\ is_pause = FALSE /\ cond_owner = None /\ notified = {}
  /\ model_update_result = None
  /\ task = [t \in Tasks |-> CASE t \in Reqs -> "new"
                              [] t \in Trainers /\ setup.program[t] = <<>> -> "done"
                              [] OTHER -> "call"]
  /\ step = [t \in Trainers |-> 1]

Call(t) == setup.program[t][step[t]]
CondFree == cond_owner = None
At(t, s) == task[t] = s
Goto(t, s) == task' = [task EXCEPT ![t] = s]
Send(m) == /\ chan' = Append(chan, m)
           /\ UNCHANGED <<inbox, polled, engine_paused, waiting, running, finished,
                          to_finish, chunked_req, chunked_abort, inflight, weights,
                          weight_version, out, events, spans, answered, replies, crashed>>
(* A second abort-all right behind the first has nothing left to abort.    *)
SendAbortAll ==
  IF chan # <<>> /\ chan[Len(chan)] = AbortAll THEN UNCHANGED schedvars ELSE Send(AbortAll)

-----------------------------------------------------------------------------
(* generate_request.  From the gate to the lock there is no suspension.    *)
PauseGate(r) ==
  /\ At(r, "new") \/ (At(r, "paused") /\ r \in notified)
  /\ CondFree
  /\ IF is_pause THEN Goto(r, "paused") /\ UNCHANGED lvars
                 ELSE Goto(r, "locking") /\ Lock!AcquireReader(r)
  /\ notified' = notified \ {r}
  /\ UNCHANGED <<schedvars, is_pause, cond_owner, model_update_result, step>>

WakeReader(r) ==
  /\ Lock!WakeReader(r)
  /\ UNCHANGED <<schedvars, tmvars>>

SendRequest(r) ==
  /\ At(r, "locking") /\ lock_pc[r] = "reading"
  /\ Goto(r, "sent") /\ Send(Gen(r))
  /\ UNCHANGED <<lvars, is_pause, cond_owner, notified, model_update_result, step>>

FinishRequest(r) ==
  /\ At(r, "sent") /\ r \in answered
  /\ Lock!ReleaseReader(r) /\ Goto(r, "done")
  /\ UNCHANGED <<schedvars, is_pause, cond_owner, notified, model_update_result, step>>

(* The client goes away: the wait for the lock is cancelled, or the request*)
(* is aborted and the reader lock released without waiting for the abort.  *)
Disconnect(r) ==
  /\ setup.disconnects
  /\ Goto(r, "gone")
  /\ \/ At(r, "paused") /\ notified' = notified \ {r} /\ UNCHANGED <<schedvars, lvars>>
     \/ /\ At(r, "locking") /\ UNCHANGED <<schedvars, notified>>
        /\ Lock!CancelWait(r) \/ Lock!ReleaseReader(r)
     \/ /\ At(r, "sent") /\ r \notin answered
        /\ Lock!ReleaseReader(r) /\ Send(AbortOne(r)) /\ UNCHANGED notified
  /\ UNCHANGED <<is_pause, cond_owner, model_update_result, step>>

-----------------------------------------------------------------------------
(* The end of a control call: the trainer goes on to its next one.         *)
Return(t) ==
  /\ step' = [step EXCEPT ![t] = @ + 1]
  /\ Goto(t, IF step[t] = Len(setup.program[t]) THEN "done" ELSE "call")

Calling(t, op) == At(t, "call") /\ Call(t).op = op

PauseAbortAtOnce(t) ==
  /\ Calling(t, "pause") /\ Call(t).mode = "abort" /\ CondFree
  /\ is_pause' = TRUE
  /\ SendAbortAll
  /\ Return(t)
  /\ UNCHANGED <<lvars, cond_owner, notified, model_update_result>>

(* pause_generation: abort polls until model_update_lock is free, keeping  *)
(* is_pause_cond while it sleeps; the other modes only tell the scheduler. *)
PauseAbort(t) ==
  /\ \/ Calling(t, "pause") /\ Call(t).mode = "abort" /\ CondFree
     \/ At(t, "sleep")
  /\ is_pause' = TRUE
  /\ SendAbortAll
  /\ IF Lock!IsLocked
       THEN Goto(t, "sleep") /\ cond_owner' = t /\ UNCHANGED step
       ELSE Return(t) /\ cond_owner' = None
  /\ UNCHANGED <<lvars, notified, model_update_result>>

PauseGeneration(t) ==
  /\ Calling(t, "pause") /\ Call(t).mode # "abort" /\ CondFree
  /\ is_pause' = TRUE
  /\ Send(PauseMsg(Call(t).mode))
  /\ Return(t)
  /\ UNCHANGED <<lvars, cond_owner, notified, model_update_result>>

ContinueGenerationSilent(t) ==
  /\ Calling(t, "continue") /\ CondFree
  /\ is_pause' = FALSE
  /\ Send(ContinueMsg)
  /\ Return(t)
  /\ UNCHANGED <<lvars, cond_owner, notified, model_update_result>>

ContinueGeneration(t) ==
  /\ Calling(t, "continue") /\ CondFree
  /\ is_pause' = FALSE
  /\ Send(ContinueMsg)
  /\ notified' = {r \in Reqs : task[r] = "paused"}
  /\ Return(t)
  /\ UNCHANGED <<lvars, cond_owner, model_update_result>>

(* update_weights_from_*: abort_all_requests before anything else.         *)
UpdateWeights(t) ==
  /\ Calling(t, "update")
  /\ IF Call(t).abort THEN SendAbortAll ELSE UNCHANGED schedvars
  /\ Goto(t, "check")
  /\ UNCHANGED <<lvars, is_pause, cond_owner, notified, model_update_result, step>>

(* Dispatch to the scheduler; an update from disk makes a new future.      *)
Dispatch(t) ==
  /\ Goto(t, "updating")
  /\ Send(UpdateMsg(t, Call(t).flush, Call(t).version))
  /\ model_update_result' = IF Call(t).kind = "disk" THEN t ELSE model_update_result

AwaitLock(t) ==
  /\ Goto(t, "locking")
  /\ UNCHANGED <<schedvars, model_update_result>>

CheckPause(t) ==
  /\ At(t, "check") /\ CondFree
  /\ \/ /\ is_pause
        /\ Dispatch(t)
        /\ cond_owner' = IF Call(t).kind = "disk" THEN None ELSE t
        /\ UNCHANGED lvars
     \/ /\ ~is_pause
        /\ Lock!AcquireWriter(t)
        /\ IF Lock!MayWrite THEN Dispatch(t) ELSE AwaitLock(t)
        /\ UNCHANGED cond_owner
  /\ UNCHANGED <<is_pause, notified, step>>

WakeWriter(t) ==
  /\ At(t, "locking") /\ Lock!WakeWriter(t)
  /\ IF Lock!MayWrite THEN Dispatch(t) ELSE AwaitLock(t)
  /\ UNCHANGED <<is_pause, cond_owner, notified, step>>

UpdateDoneHoldingCond(t) ==
  /\ At(t, "updating") /\ t \in replies
  /\ IF lock_pc[t] = "writing" THEN Lock!ReleaseWriter(t) ELSE UNCHANGED lvars
  /\ Return(t)
  /\ UNCHANGED <<schedvars, is_pause, cond_owner, notified, model_update_result>>

(* The reply resolves the future (from disk) or the communicator's event,  *)
(* and the call leaves its lock.                                           *)
UpdateDone(t) ==
  /\ At(t, "updating") /\ t \in replies
  /\ Call(t).kind = "disk" => model_update_result = t
  /\ IF lock_pc[t] = "writing" THEN Lock!ReleaseWriter(t) ELSE UNCHANGED lvars
  /\ cond_owner' = IF cond_owner = t THEN None ELSE cond_owner
  /\ Return(t)
  /\ replies' = replies \ {t}
  /\ UNCHANGED <<chan, inbox, polled, engine_paused, waiting, running, finished,
                 to_finish, chunked_req, chunked_abort, inflight, weights, weight_version,
                 out, events, spans, answered, crashed, is_pause, notified, model_update_result>>

-----------------------------------------------------------------------------
Scheduler == SchedNext /\ UNCHANGED <<lvars, tmvars>>

Generate(r) ==
  PauseGate(r) \/ WakeReader(r) \/ SendRequest(r) \/ FinishRequest(r)

Control(t) ==
  \/ PauseAbort(t) \/ PauseGeneration(t) \/ ContinueGeneration(t)
  \/ UpdateWeights(t) \/ CheckPause(t) \/ WakeWriter(t) \/ UpdateDone(t)

Next ==
  /\ \/ Scheduler
     \/ \E r \in Reqs : Generate(r) \/ Disconnect(r)
     \/ \E t \in Trainers : Control(t)
  /\ UNCHANGED server

(* The scheduler's loop never stops, the event loop runs every ready task, *)
(* asyncio.Lock is first come, first served, and a trainer makes its calls.*)
Fairness ==
  /\ WF_vars(Scheduler /\ UNCHANGED server)
  /\ \A r \in Reqs : WF_vars(Generate(r) /\ UNCHANGED server)
  /\ \A t \in Trainers : WF_vars(Control(t) /\ UNCHANGED server)

Spec == Init /\ [][Next]_vars /\ Fairness

-----------------------------------------------------------------------------
TypeOK ==
  /\ waiting \subseteq Reqs /\ running \subseteq Reqs /\ finished \subseteq running
  /\ waiting \cap running = {}
  /\ inflight.reqs \subseteq running
  /\ chunked_req \subseteq running \ finished /\ Cardinality(chunked_req) <= 1
  /\ weights \in Nat /\ weight_version \in Nat \ {NoVersion}
  /\ \A r \in Reqs : Len(out[r]) \in 0..MaxTokens
  /\ cond_owner \in Trainers \cup {None}

(* The requests a client still waits for that the scheduler works on.      *)
Served(r) == task[r] = "sent" /\ r \in (waiting \cup running) \ finished

(* An update that took the writer lock never meets a live request: the     *)
(* lock is held by every generate call from before its request is sent     *)
(* until after its final output.                                           *)
WriterUpdatesAlone ==
  [][\A t \in Trainers :
       weights' # weights /\ lock_pc[t] = "writing" => \A r \in Reqs : ~Served(r)]_vars

(* meta_info reports which tokens came from which weights: the spans are   *)
(* contiguous ranges from 0 to the number of tokens, and for every prefix  *)
(* that a stop string may leave visible they name the weights that made    *)
(* each token.  (For a client that is still there: its disconnected request*)
(* may run beside an update.)                                              *)
SpansTruthful ==
  \A r \in Reqs : spans[r] # <<>> /\ task[r] # "gone" =>
    /\ spans[r][1].start = 0
    /\ \A k \in 1..(Len(spans[r]) - 1) : /\ spans[r][k].end = spans[r][k + 1].start
                                        /\ spans[r][k].version # spans[r][k + 1].version
    /\ \A n \in 1..Len(out[r]) :
         LET shown == VisibleSpans(spans[r], n)
         IN  Attributes(shown, SubSeq(out[r], 1, n)) /\ shown[Len(shown)].end = n

(* "An update can only happen when SGLang is not actively processing       *)
(* inference tasks": weights change while the engine runs only when no     *)
(* request that a client waits for is in the scheduler.                    *)
UpdatesIdle ==
  [][weights' # weights /\ ~engine_paused => \A r \in Reqs : ~Served(r)]_vars

(* The assertion of flush_cache_after_weight_update never fails.           *)
FlushSucceeds == ~crashed

(* A request that was sent is answered, whatever pauses, retractions and   *)
(* updates happen in between, as long as every pause is followed by a      *)
(* continue_generation (and the scheduler is there).                       *)
RequestsAnswered == \A r \in Reqs : <>(task[r] \in {"done", "gone"} \/ crashed)

(* Every control call returns: no wait of a trainer on the pause condition,*)
(* on the lock or on a reply lasts for ever.                               *)
CallsReturn == \A t \in Trainers : <>(task[t] = "done" \/ crashed)
=============================================================================
