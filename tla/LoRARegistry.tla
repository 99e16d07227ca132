---------------------------- MODULE LoRARegistry ----------------------------
(***************************************************************************)
(* The life of a LoRA adapter in the tokenizer-manager process: the        *)
(* LoRARegistry with its usage counters, the load / unload handlers that   *)
(* run under lora_update_lock, the generate_request calls that acquire     *)
(* adapters, and the scheduler's set of loaded adapters.                   *)
(*                                                                         *)
(* Everything runs on one asyncio loop, so a step of the model is the code *)
(* between two real suspension points.  The registry's RWLock is never     *)
(* held across one, so its sections are parts of larger steps; the places  *)
(* where a coroutine really suspends are lora_update_lock, wait_for_zero,  *)
(* the reply of the scheduler, and asyncio.gather in acquire(list).        *)
(***************************************************************************)
EXTENDS Naturals, Integers, Sequences, FiniteSets

CONSTANTS
  Names,           \* adapter names known to the users
  PinnedNames,     \* the names that are loaded with pinned = True
  MaxLoads,        \* bound: how many uuids one name may consume
  MaxLoadedLoras,  \* --max-loaded-loras
  Calls,           \* generate_request coroutines
  Ctls,            \* load_lora_adapter / unload_lora_adapter coroutines
  MaxBatch,        \* bound: requests of one call
  Paths,           \* the lora_path arguments of a call: sequences of names
  Kinds,           \* subset of {"str", "list", "parallel"}: forms of a call
  Ends,            \* subset of EndKinds: how a dispatched request may end
  TokenizeFails,   \* TRUE iff _tokenize_one_request may raise
  Disconnects,     \* TRUE iff the client of a call may go away (CancelledError)
  UnloadFails,     \* TRUE iff the scheduler may report a failed unload
  None

(* "output" : a BatchStrOutput without abort, or an abort without status;
   "output5xx" : a BatchStrOutput whose finish_reason is an abort with status
   500 or 503 (running timeout, grammar failure); "echo" : an AbortReq echo
   without a status (aborted in the waiting queue); "echo5xx" : an AbortReq
   echo with status 500 or 503 (queue full, waiting timeout, out of memory). *)
EndKinds == {"output", "output5xx", "echo", "echo5xx"}

ASSUME ConstAssumption ==
  /\ PinnedNames \subseteq Names
  /\ MaxLoads \in Nat /\ MaxLoadedLoras \in Nat \ {0}
  /\ MaxBatch \in Nat \ {0}
  /\ \A p \in Paths : p \in Seq(Names) /\ Len(p) \in 1..MaxBatch
  /\ Kinds \subseteq {"str", "list", "parallel"}
  /\ Ends \subseteq EndKinds
  /\ {TokenizeFails, Disconnects, UnloadFails} \subseteq BOOLEAN
  /\ Calls \cap Ctls = {} /\ IsFiniteSet(Calls)
  /\ None \notin Names \cup Calls \cup Ctls \cup Kinds

Tasks == Calls \cup Ctls

(* A LoRARef: its uuid is fresh, so it is the name and a load number.       *)
Ids == Names \X (1..MaxLoads)
NameOf(id) == id[1]
Pinned(id) == NameOf(id) \in PinnedNames

Subs == Calls \X (0..MaxBatch)

VARIABLES
  registry,        \* _registry: the ids that are registered
  lru,             \* its order: <<a, b>> when a was used less recently than b
  counters,        \* _counters: values ...
  counted,         \*   ... and the ids that have an entry
  backend,         \* lora_manager.lora_refs of the scheduler
  used,            \* the uuids that were given out
  lora_ref_cache,  \* names that were loaded at some time
  lora_update_lock,\* FIFO of the coroutines: the head holds the lock
  wire,            \* messages on their way to the scheduler (ZMQ, FIFO)
  replies,         \* its replies on their way back
  pc,              \* where each coroutine is suspended
  op,              \* the adapter a load or unload is working on
  call,            \* form, lora_path and names still to load of each call
  sub              \* the requests of each call, <<c, 0>> caches the prefix

registryVars == <<registry, lru, counters, counted, lora_ref_cache>>
backendVars == <<backend, wire, replies>>
vars == <<registry, lru, counters, counted, backend, used, lora_ref_cache,
          lora_update_lock, wire, replies, pc, op, call, sub>>

-----------------------------------------------------------------------------
(* The registry (lora_registry.py).                                         *)

Registered(n) == \E id \in registry : NameOf(id) = n
IdOf(n) == CHOOSE id \in registry : NameOf(id) = n

(* The order after OrderedDict.move_to_end on each id of q, first to last.  *)
MoveToEnd(q) ==
  LET last(x) == CHOOSE i \in DOMAIN q : q[i] = x /\ \A j \in DOMAIN q : q[j] = x => j <= i
      moved == {q[i] : i \in DOMAIN q}
  IN  {p \in registry \X registry :
         /\ p[1] # p[2]
         /\ IF p[2] \in moved THEN p[1] \in moved => last(p[1]) < last(p[2])
                              ELSE p[1] \notin moved /\ p \in lru}

(* The sequences that list a set, in any order.                             *)
Listings(S) == {q \in [1..Cardinality(S) -> S] : \A x \in S : \E i \in DOMAIN q : q[i] = x}

(* _lookup of each name of a lora_path in turn: the ids that are found before
   a name is missing.                                                       *)
Found(path) ==
  LET n == CHOOSE k \in 0..Len(path) :
             /\ \A i \in 1..k : Registered(path[i])
             /\ k < Len(path) => ~Registered(path[k + 1])
  IN  [i \in 1..n |-> IdOf(path[i])]

(* lru_lora_name(exclude_pinned=True).                                      *)
LruUnpinned(reg, order) ==
  {id \in reg : ~Pinned(id) /\ \A x \in reg : Pinned(x) \/ x = id \/ <<id, x>> \in order}

LockedAnyway(t) == lora_update_lock # <<>>

-----------------------------------------------------------------------------
(* lora_update_lock, an asyncio.Lock: FIFO.                                 *)

Holds(t) == lora_update_lock # <<>> /\ Head(lora_update_lock) = t

(* The coroutine that awaits the communicator's answer, if there is one.    *)
Awaiting(t) == pc[t] \in {"load_sent", "unload_sent"}

NoOp == [name |-> None, id |-> None, mode |-> None, ok |-> FALSE]
NoCall == [kind |-> None, path |-> <<>>, todo |-> {}]
NoSub == [id |-> None, st |-> "none", rel |-> 0]

Init ==
  /\ registry = {} /\ lru = {} /\ counted = {} /\ backend = {} /\ used = {}
  /\ counters = [id \in Ids |-> 0]
  /\ lora_ref_cache = {}
  /\ lora_update_lock = <<>> /\ wire = <<>> /\ replies = <<>>
  /\ pc = [t \in Tasks |-> "idle"]
  /\ op = [t \in Tasks |-> NoOp]
  /\ call = [c \in Calls |-> NoCall]
  /\ sub = [s \in Subs |-> NoSub]

-----------------------------------------------------------------------------
(* load_lora_adapter and unload_lora_adapter, run by an API handler or by a
   call that reloads an evicted adapter.                                    *)

(* Enter `async with lora_update_lock` for an update of name n.             *)
Enqueue(t, mode, n) ==
  /\ lora_update_lock' = Append(lora_update_lock, t)
  /\ pc' = [pc EXCEPT ![t] = "lock"]
  /\ op' = [op EXCEPT ![t] = [name |-> n, id |-> None, mode |-> mode, ok |-> FALSE]]

(* Bound: a name has a uuid left for every load that is under way.          *)
MayLoad(n) ==
  Cardinality({id \in used : NameOf(id) = n})
    + Cardinality({t \in Tasks : op[t].name = n /\ op[t].mode = "load" /\ op[t].id = None})
    < MaxLoads

BeginControl(t) ==
  /\ pc[t] = "idle"
  /\ \E n \in Names, mode \in {"load", "unload"} :
       /\ mode = "load" => MayLoad(n)
       /\ Enqueue(t, mode, n)
  /\ UNCHANGED <<registryVars, backendVars, used, call, sub>>

ReturnLocked(t, ok) ==
  /\ lora_update_lock' = IF ok THEN Tail(lora_update_lock) ELSE lora_update_lock
  /\ pc' = [pc EXCEPT ![t] = IF t \in Ctls THEN "idle" ELSE IF ok THEN "resolve" ELSE "error"]
  /\ op' = [op EXCEPT ![t] = NoOp]

(* The end of an update: the lock is released; a call goes on with the next
   name it has to load, or with an error.                                   *)
Return(t, ok) ==
  /\ lora_update_lock' = Tail(lora_update_lock)
  /\ pc' = [pc EXCEPT ![t] = IF t \in Ctls THEN "idle" ELSE IF ok THEN "resolve" ELSE "error"]
  /\ op' = [op EXCEPT ![t] = NoOp]

(* A new LoRARef is made and sent to the scheduler.                         *)
SendLoad(t) ==
  /\ pc[t] = "lock" /\ op[t].mode = "load" /\ Holds(t)
  /\ \E id \in Ids \ used :
       /\ NameOf(id) = op[t].name
       /\ \A x \in Ids \ used : NameOf(x) = NameOf(id) => id[2] <= x[2]
       /\ used' = used \cup {id}
       /\ wire' = Append(wire, [kind |-> "load", id |-> id])
       /\ op' = [op EXCEPT ![t].id = id]
  /\ pc' = [pc EXCEPT ![t] = "load_sent"]
  /\ UNCHANGED <<registryVars, backend, replies, lora_update_lock, call, sub>>

NeverEvict(t, reg, order, ok) == registry' = reg /\ lru' = order /\ Return(t, ok)

(* The loop on max_loaded_loras, entered with registry reg in order `order`:
   unregister the least recently used adapter and go on to wait_for_unload,
   raise ValueError when there is none, or leave with the result ok.        *)
EvictOrReturn(t, reg, order, ok) ==
  IF Cardinality(reg) > MaxLoadedLoras /\ LruUnpinned(reg, order) # {}
  THEN \E id \in LruUnpinned(reg, order) :
         /\ registry' = reg \ {id}
         /\ lru' = {p \in order : id \notin {p[1], p[2]}}
         /\ pc' = [pc EXCEPT ![t] = "unload_wait"]
         /\ op' = [op EXCEPT ![t] = [@ EXCEPT !.id = id, !.ok = ok]]
         /\ UNCHANGED lora_update_lock
  ELSE /\ registry' = reg /\ lru' = order
       /\ Return(t, ok /\ Cardinality(reg) <= MaxLoadedLoras)

(* The scheduler's answer to a load: register the adapter when it succeeded.
   An "already loaded" error is a success for a call that reloads.          *)
LoadReply(t) ==
  /\ pc[t] = "load_sent" /\ replies # <<>>
  /\ replies' = Tail(replies)
  /\ LET res == Head(replies)
         id == op[t].id
     IN  IF res = "ok"
         THEN IF Registered(NameOf(id))
              THEN Return(t, FALSE) /\ UNCHANGED registryVars
              ELSE /\ counters' = [counters EXCEPT ![id] = 0]
                   /\ counted' = counted \cup {id}
                   /\ lora_ref_cache' = lora_ref_cache \cup {NameOf(id)}
                   /\ EvictOrReturn(t, registry \cup {id}, lru \cup (registry \X {id}), TRUE)
         ELSE /\ EvictOrReturn(t, registry, lru, res = "already")
              /\ UNCHANGED <<counters, counted, lora_ref_cache>>
  /\ UNCHANGED <<backend, used, wire, call, sub>>

UnloadStaysRegistered(t) ==
  /\ pc[t] = "lock" /\ op[t].mode = "unload" /\ Holds(t) /\ Registered(op[t].name)
  /\ pc' = [pc EXCEPT ![t] = "unload_wait"]
  /\ op' = [op EXCEPT ![t].id = IdOf(op[t].name)]
  /\ UNCHANGED <<registryVars, lora_update_lock, backendVars, used, call, sub>>

(* _unload_lora_adapter_locked up to its first suspension: unregister.      *)
UnloadLocked(t) ==
  /\ pc[t] = "lock" /\ op[t].mode = "unload" /\ Holds(t)
  /\ IF Registered(op[t].name)
     THEN LET id == IdOf(op[t].name) IN
          /\ registry' = registry \ {id}
          /\ lru' = {p \in lru : id \notin {p[1], p[2]}}
          /\ pc' = [pc EXCEPT ![t] = "unload_wait"]
          /\ op' = [op EXCEPT ![t].id = id]
          /\ UNCHANGED lora_update_lock
     ELSE Return(t, FALSE) /\ UNCHANGED <<registry, lru>>
  /\ UNCHANGED <<counters, counted, lora_ref_cache, backendVars, used, call, sub>>

UnloadAtOnce(t) ==
  /\ pc[t] = "unload_wait"
  /\ counted' = counted \ {op[t].id}
  /\ wire' = Append(wire, [kind |-> "unload", id |-> op[t].id])
  /\ pc' = [pc EXCEPT ![t] = "unload_sent"]
  /\ UNCHANGED <<registry, lru, counters, lora_ref_cache, backend, replies, used,
                 lora_update_lock, op, call, sub>>

(* wait_for_unload returns: the counter is zero and is deleted, and the
   unload is sent to the scheduler.                                         *)
WaitForUnload(t) ==
  /\ pc[t] = "unload_wait"
  /\ counters[op[t].id] = 0
  /\ counted' = counted \ {op[t].id}
  /\ wire' = Append(wire, [kind |-> "unload", id |-> op[t].id])
  /\ pc' = [pc EXCEPT ![t] = "unload_sent"]
  /\ UNCHANGED <<registry, lru, counters, lora_ref_cache, backend, replies, used,
                 lora_update_lock, op, call, sub>>

(* The scheduler's answer to an unload: the next round of the loop on
   max_loaded_loras, or the end of unload_lora_adapter.                     *)
UnloadReply(t) ==
  /\ pc[t] = "unload_sent" /\ replies # <<>>
  /\ replies' = Tail(replies)
  /\ IF op[t].mode = "load" /\ Head(replies) = "ok"
     THEN EvictOrReturn(t, registry, lru, op[t].ok)
     ELSE Return(t, FALSE) /\ UNCHANGED <<registry, lru>>
  /\ UNCHANGED <<counters, counted, lora_ref_cache, backend, wire, used, call, sub>>

(* FanOutCommunicator.handle_recv without a waiter.                         *)
DropReply ==
  /\ replies # <<>> /\ \A t \in Tasks : ~Awaiting(t)
  /\ replies' = Tail(replies)
  /\ UNCHANGED <<registryVars, backend, wire, used, lora_update_lock, pc, op, call, sub>>

(* The scheduler handles the next message: LoRAManager.load_lora_adapter and
   unload_lora_adapter.                                                     *)
Backend ==
  /\ wire # <<>>
  /\ wire' = Tail(wire)
  /\ LET m == Head(wire) IN
     \/ /\ m.kind = "load"
        /\ IF \E id \in backend : NameOf(id) = NameOf(m.id)
           THEN replies' = Append(replies, "already") /\ UNCHANGED backend
           ELSE \/ replies' = Append(replies, "ok") /\ backend' = backend \cup {m.id}
                \/ replies' = Append(replies, "other") /\ UNCHANGED backend
     \/ /\ m.kind = "unload"
        /\ \/ replies' = Append(replies, "ok") /\ backend' = backend \ {m.id}
           \/ UnloadFails /\ replies' = Append(replies, "other") /\ UNCHANGED backend
  /\ UNCHANGED <<registryVars, used, lora_update_lock, pc, op, call, sub>>

-----------------------------------------------------------------------------
(* generate_request.                                                        *)

(* _resolve_lora_path: reject too many adapters, and get_unregistered_loras. *)
Start(c) ==
  /\ pc[c] = "idle"
  /\ \E kind \in Kinds, path \in Paths :
       LET names == {path[i] : i \in DOMAIN path}
           hits == {IdOf(n) : n \in {m \in names : Registered(m)}}
       IN  /\ kind = "str" => Len(path) = 1
           /\ kind = "parallel" => Cardinality(names) = 1 /\ Len(path) > 1
           /\ IF Cardinality(names) > MaxLoadedLoras
              THEN /\ pc' = [pc EXCEPT ![c] = "error"]
                   /\ UNCHANGED <<lru, call>>
              ELSE /\ pc' = [pc EXCEPT ![c] = "resolve"]
                   /\ \E q \in Listings(hits) : lru' = MoveToEnd(q)
                   /\ call' = [call EXCEPT ![c] =
                        [kind |-> kind, path |-> path,
                         todo |-> {n \in names : ~Registered(n)}]]
  /\ UNCHANGED <<registry, counters, counted, lora_ref_cache, backendVars, used,
                 lora_update_lock, op, sub>>

(* The loop of _resolve_lora_path over the names that are not registered.   *)
Reload(c) ==
  /\ pc[c] = "resolve"
  /\ \E n \in call[c].todo :
       /\ call' = [call EXCEPT ![c].todo = @ \ {n}]
       /\ IF n \in lora_ref_cache
          THEN MayLoad(n) /\ Enqueue(c, "load", n)
          ELSE /\ pc' = [pc EXCEPT ![c] = "error"]
               /\ UNCHANGED <<lora_update_lock, op>>
  /\ UNCHANGED <<registryVars, backendVars, used, sub>>

(* LoRARegistry.acquire.  With a str the counter is incremented before the
   coroutine suspends; with a list asyncio.gather runs each increment later,
   on the counter object that the lookup found.                             *)
Acquire(c) ==
  /\ pc[c] = "resolve" /\ call[c].todo = {}
  /\ LET ids == Found(call[c].path)
         looked == [s \in Subs |->
           IF s[1] = c /\ s[2] \in DOMAIN ids
           THEN [id |-> ids[s[2]], st |-> "looked", rel |-> 0] ELSE sub[s]]
     IN  /\ lru' = MoveToEnd(ids)
         /\ IF Len(ids) < Len(call[c].path)
            THEN /\ pc' = [pc EXCEPT ![c] = "error"]
                 /\ UNCHANGED <<counters, sub>>
            ELSE /\ pc' = [pc EXCEPT ![c] = "acquire"]
                 /\ IF call[c].kind = "str"
                    THEN /\ counters' = [counters EXCEPT ![ids[1]] = @ + 1]
                         /\ sub' = [sub EXCEPT ![<<c, 1>>] =
                                      [id |-> ids[1], st |-> "held", rel |-> 0]]
                    ELSE sub' = looked /\ UNCHANGED counters
  /\ UNCHANGED <<registry, counted, lora_ref_cache, backendVars, used,
                 lora_update_lock, op, call>>

(* One increment of the gather.                                             *)
Increment(c) ==
  /\ pc[c] = "acquire"
  /\ \E s \in Subs :
       /\ s[1] = c /\ sub[s].st = "looked"
       /\ sub' = [sub EXCEPT ![s].st = "held"]
       /\ counters' = IF sub[s].id \in counted
                      THEN [counters EXCEPT ![sub[s].id] = @ + 1] ELSE counters
  /\ UNCHANGED <<registry, lru, counted, lora_ref_cache, backendVars, used,
                 lora_update_lock, pc, op, call>>

(* Tokenize and send the next request of the call.  With parallel sampling a
   request <<c, 0>> that caches the common prefix runs first, to its end.   *)
Dispatch(c) ==
  /\ pc[c] = "acquire"
  /\ \A s \in Subs : s[1] = c => sub[s].st # "looked"
  /\ \E i \in 0..MaxBatch :
       IF i = 0
       THEN /\ call[c].kind = "parallel" /\ sub[<<c, 0>>].st = "none"
            /\ sub' = [sub EXCEPT ![<<c, 0>>] =
                         [id |-> sub[<<c, 1>>].id, st |-> "dispatched", rel |-> 0]]
       ELSE /\ sub[<<c, i>>].st = "held"
            /\ \A j \in 1..(i - 1) : sub[<<c, j>>].st # "held"
            /\ call[c].kind = "parallel" => sub[<<c, 0>>].st = "done"
            /\ sub' = [sub EXCEPT ![<<c, i>>].st = "dispatched"]
  /\ UNCHANGED <<registryVars, backendVars, used, lora_update_lock, pc, op, call>>

(* Tokenization raises, or the client goes away: _release_req_states_on_failure
   forgets the requests that were not sent and aborts the others.  A coroutine
   that holds or awaits lora_update_lock leaves it.                         *)
Fail(c) ==
  /\ \/ /\ TokenizeFails /\ pc[c] = "acquire"
        /\ \A s \in Subs : s[1] = c => sub[s].st # "looked"
        /\ \E s \in Subs : s[1] = c /\ sub[s].st = "held"
     \/ Disconnects /\ pc[c] \notin {"idle", "error"}
  /\ pc' = [pc EXCEPT ![c] = "error"]
  /\ op' = [op EXCEPT ![c] = NoOp]
  /\ LET q == lora_update_lock IN
     \/ \E i \in DOMAIN q : /\ q[i] = c
                            /\ lora_update_lock' = SubSeq(q, 1, i - 1) \o SubSeq(q, i + 1, Len(q))
     \/ UNCHANGED lora_update_lock /\ \A i \in DOMAIN q : q[i] # c
  /\ sub' = [s \in Subs |-> IF s[1] = c /\ sub[s].st \in {"looked", "held"}
                            THEN [sub[s] EXCEPT !.st = "done"] ELSE sub[s]]
  /\ UNCHANGED <<registryVars, backendVars, used, call>>

ReleaseTwice(c) ==
  /\ \E s \in Subs : /\ s[1] = c /\ sub[s].st = "dispatched"
                     /\ sub' = [sub EXCEPT ![s].st = "done", ![s].rel = 2]
  /\ UNCHANGED <<registryVars, backendVars, used, lora_update_lock, pc, op, call>>

(* A request ends in the scheduler and its last message is handled:
   _handle_batch_output schedules one release; the coroutine that waits for
   the response, if it is still there, schedules one for a 5xx abort.       *)
EndRequest(c) ==
  /\ \E s \in Subs, e \in Ends :
       /\ s[1] = c /\ sub[s].st = "dispatched"
       /\ sub' = [sub EXCEPT ![s] =
                    [id |-> sub[s].id, st |-> "done",
                     rel |-> (IF e \in {"output", "output5xx"} THEN 1 ELSE 0)
                             + (IF e \in {"output5xx", "echo5xx"} /\ pc[c] # "error"
                                THEN 1 ELSE 0)]]
  /\ UNCHANGED <<registryVars, backendVars, used, lora_update_lock, pc, op, call>>

ReleaseAgain(c) ==
  /\ \E s \in Subs :
       /\ s[1] = c /\ sub[s].st = "done"
       /\ sub' = [sub EXCEPT ![s].rel = @ - 1]
       /\ counters' = [counters EXCEPT ![sub[s].id] = @ - 1]
  /\ UNCHANGED <<registry, lru, counted, lora_ref_cache, backendVars, used,
                 lora_update_lock, pc, op, call>>

(* LoRARegistry.release(str); without a counter it raises KeyError.         *)
Release(c) ==
  /\ \E s \in Subs :
       /\ s[1] = c /\ sub[s].rel > 0
       /\ sub' = [sub EXCEPT ![s].rel = @ - 1]
       /\ counters' = IF sub[s].id \in counted
                      THEN [counters EXCEPT ![sub[s].id] = @ - 1] ELSE counters
  /\ UNCHANGED <<registry, lru, counted, lora_ref_cache, backendVars, used,
                 lora_update_lock, pc, op, call>>

-----------------------------------------------------------------------------
UpdateStep(t) == SendLoad(t) \/ LoadReply(t) \/ UnloadLocked(t) \/ WaitForUnload(t)
                 \/ UnloadReply(t)
CallStep(c) == Reload(c) \/ Acquire(c) \/ Increment(c) \/ Dispatch(c)
               \/ EndRequest(c) \/ Release(c)

Next ==
  \/ \E t \in Ctls : BeginControl(t)
  \/ \E t \in Tasks : UpdateStep(t)
  \/ Backend \/ DropReply
  \/ \E c \in Calls : Start(c) \/ CallStep(c) \/ Fail(c)

Spec == Init /\ [][Next]_vars

(* asyncio runs every coroutine that can run, the scheduler reads its socket,
   and a request that was dispatched ends: it has max_new_tokens.           *)
Fairness ==
  /\ \A t \in Tasks : WF_vars(UpdateStep(t))
  /\ \A c \in Calls : WF_vars(CallStep(c))
  /\ WF_vars(Backend) /\ WF_vars(DropReply)

FairSpec == Spec /\ Fairness

-----------------------------------------------------------------------------
PcType == {"idle", "lock", "load_sent", "unload_wait", "unload_sent", "resolve", "acquire",
           "error"}
OpType == [name : Names \cup {None}, id : Ids \cup {None}, mode : {"load", "unload", None},
           ok : BOOLEAN]

(* The types of the variables of the registry, its users and the scheduler. *)
TypeOK ==
  /\ registry \subseteq Ids /\ counted \subseteq Ids /\ backend \subseteq Ids /\ used \subseteq Ids
  /\ lru \subseteq registry \X registry
  /\ counters \in [Ids -> Int]
  /\ lora_ref_cache \subseteq Names
  /\ lora_update_lock \in Seq(Tasks)
  /\ wire \in Seq([kind : {"load", "unload"}, id : Ids])
  /\ replies \in Seq({"ok", "already", "other"})
  /\ pc \in [Tasks -> PcType] /\ op \in [Tasks -> OpType]
  /\ call \in [Calls -> [kind : Kinds \cup {None}, path : Seq(Names), todo : SUBSET Names]]
  /\ sub \in [Subs -> [id : Ids \cup {None}, rel : 0..2,
                       st : {"none", "looked", "held", "dispatched", "done"}]]

(* A request between its acquire and its end.                               *)
InUse(s) == sub[s].st \in {"held", "dispatched"}

(* The scheduler never drops an adapter that a request still uses:
   _unload_lora_adapter_locked sends the unload only after wait_for_unload. *)
InUseIsLoaded == \A s \in Subs : InUse(s) => sub[s].id \in backend

(* A counter is the number of requests that use the adapter plus the releases
   that are scheduled: acquire and release are paired for each request.     *)
CounterExact ==
  \A id \in counted :
    counters[id] = Cardinality({s \in Subs : sub[s].id = id /\ (InUse(s) \/ sub[s].rel > 0)})

(* Tokenizer manager and scheduler agree whenever no update is in progress:
   the two-phase update ends with the registry equal to the loaded set.     *)
EventuallyConsistent == lora_update_lock = <<>> => registry = backend

(* Whatever fails, acquire finds a counter for each registered adapter, and a
   name stands for one adapter.                                             *)
RegistryCounted ==
  /\ registry \subseteq counted
  /\ \A a, b \in registry : NameOf(a) = NameOf(b) => a = b

(* --max-loaded-loras holds between updates, and an update exceeds it by one
   adapter at most.                                                         *)
LoadedBound ==
  /\ lora_update_lock = <<>> => Cardinality(backend) <= MaxLoadedLoras
  /\ Cardinality(backend) <= MaxLoadedLoras + 1

(* Every update that waits for lora_update_lock completes: no load or unload
   blocks the ones queued behind it for ever.                               *)
UpdatesComplete == \A t \in Ctls : pc[t] = "lock" ~> pc[t] = "idle"
=============================================================================
