-------------------------- MODULE LoRARegistryInv ---------------------------
(***************************************************************************)
(* What holds of LoRARegistry for any number of adapters, calls and control*)
(* coroutines: whatever fails, the types, the update lock, and a counter   *)
(* for every registered adapter; while no update is abandoned, the         *)
(* agreement of registry and scheduler, and the bound on loaded adapters.  *)
(***************************************************************************)
EXTENDS LoRARegistry, FiniteSetTheorems, TLAPS

Busy == {"load_sent", "unload_wait", "unload_sent"}

SubType == [id : Ids \cup {None}, rel : 0..2,
            st : {"none", "looked", "held", "dispatched", "done"}]

CallType == [kind : Kinds \cup {None}, path : Seq(Names), todo : SUBSET Names]

(* Only the holder of the lock is inside an update, and the adapter that it *)
(* unloads is not registered.                                               *)
Exclusive ==
  \A t \in Tasks :
    /\ pc[t] \in Busy => Holds(t) /\ op[t].id \in Ids
    /\ pc[t] = "unload_wait" => op[t].id \notin registry

(* A call that is under way names between one and MaxBatch adapters.        *)
PathsBounded ==
  \A c \in Calls : pc[c] \notin {"idle", "error"} => Len(call[c].path) \in 1..MaxBatch

BaseInv == TypeOK /\ Exclusive /\ PathsBounded /\ RegistryCounted

USE ConstAssumption DEF Tasks, Subs, NameOf

SameHolder == lora_update_lock # <<>> =>
  lora_update_lock' # <<>> /\ Head(lora_update_lock') = Head(lora_update_lock)

(* A message put on a channel that is not empty leaves its head in place. *)
LEMMA HeadAppend ==
  ASSUME NEW S, NEW q \in Seq(S), NEW x \in S, q # <<>>
  PROVE  Append(q, x) # <<>> /\ Head(Append(q, x)) = Head(q)
  <1>1. Len(q) > 0
    OBVIOUS
  <1>2. Append(q, x)[1] = q[1] /\ Len(Append(q, x)) = Len(q) + 1
    BY <1>1
  <1>3. Append(q, x) \in Seq(S)
    OBVIOUS
  <1> QED
    BY <1>1, <1>2, <1>3

(* The first message of a channel, and the others.                          *)
LEMMA HeadTail ==
  ASSUME NEW S, NEW q \in Seq(S), q # <<>>
  PROVE  Head(q) \in S /\ Tail(q) \in Seq(S)
  OBVIOUS

(* A channel without messages.                                              *)
LEMMA NoMessage ==
  ASSUME NEW S, NEW q \in Seq(S), Len(q) = 0
  PROVE  q = <<>>
  OBVIOUS

(* Taking the only message empties the channel. *)
LEMMA TailOfOne ==
  ASSUME NEW S, NEW q \in Seq(S), Len(q) = 1
  PROVE  Tail(q) = <<>> /\ Head(q) = q[1]
  <1>1. q # <<>>
    OBVIOUS
  <1>2. Len(Tail(q)) = 0 /\ Tail(q) \in Seq(S)
    BY <1>1
  <1>3. Tail(q) = <<>>
    BY Zenon, <1>2, NoMessage
  <1>4. Head(q) = q[1]
    BY <1>1
  <1> QED
    BY Zenon, <1>3, <1>4

(* What the loop on max_loaded_loras does to the registry and the lock.     *)
LEMMA EvictEffect ==
  ASSUME NEW t \in Tasks, NEW reg \in SUBSET Ids, NEW order \in SUBSET (reg \X reg),
         NEW ok \in BOOLEAN, TypeOK, Holds(t), EvictOrReturn(t, reg, order, ok)
  PROVE  /\ registry' \subseteq reg /\ lru' \subseteq registry' \X registry'
         /\ op' \in [Tasks -> OpType]
         /\ pc' \in [Tasks -> PcType]
         /\ \A x \in Tasks \ {t} : pc'[x] = pc[x] /\ op'[x] = op[x]
         /\ \/ /\ pc'[t] = "unload_wait" /\ op'[t].id \in reg \ registry'
               /\ lora_update_lock' = lora_update_lock
            \/ /\ pc'[t] \in {"idle", "resolve", "error"}
               /\ t \in Calls => pc'[t] # "idle"
               /\ lora_update_lock' = Tail(lora_update_lock)
  <1>1. CASE Cardinality(reg) > MaxLoadedLoras /\ LruUnpinned(reg, order) # {}
    <2>1. PICK id \in LruUnpinned(reg, order) :
             /\ registry' = reg \ {id}
             /\ lru' = {p \in order : id \notin {p[1], p[2]}}
             /\ pc' = [pc EXCEPT ![t] = "unload_wait"]
             /\ op' = [op EXCEPT ![t] = [@ EXCEPT !.id = id, !.ok = ok]]
             /\ UNCHANGED lora_update_lock
      BY Zenon, <1>1 DEF EvictOrReturn
    <2>2. id \in reg
      BY Zenon DEF LruUnpinned
    <2>3. registry' \subseteq reg /\ lru' \subseteq registry' \X registry'
      BY Zenon, <2>1
    <2>5. op[t] \in OpType
      BY Zenon DEF TypeOK
    <2> DEFINE r == [op[t] EXCEPT !.id = id, !.ok = ok]
    <2>6. r \in OpType /\ r.id = id
      BY Zenon, <2>2, <2>5 DEF OpType
    <2>7. op' = [op EXCEPT ![t] = r]
      BY Zenon, <2>1
    <2> HIDE DEF r
    <2>4. op' \in [Tasks -> OpType] /\ op'[t].id = id
      BY Zenon, <2>6, <2>7 DEF TypeOK
    <2> QED
      BY <2>1, <2>2, <2>3, <2>4 DEF TypeOK, PcType
  <1>2. CASE ~(Cardinality(reg) > MaxLoadedLoras /\ LruUnpinned(reg, order) # {})
    <2>1. /\ registry' = reg /\ lru' = order
          /\ lora_update_lock' = Tail(lora_update_lock)
          /\ op' = [op EXCEPT ![t] = NoOp]
          /\ \E w \in {"idle", "resolve", "error"} :
               pc' = [pc EXCEPT ![t] = w] /\ (t \in Calls => w # "idle")
      BY Zenon, <1>2 DEF EvictOrReturn, Return
    <2>2. op' \in [Tasks -> OpType]
      BY Zenon, <2>1 DEF TypeOK, NoOp, OpType
    <2> QED
      BY ZenonT(30), <2>1, <2>2 DEF TypeOK, PcType
  <1> QED
    BY Zenon, <1>1, <1>2

(* Entering the queue of the lock.                                          *)
LEMMA EnqueueEffect ==
  ASSUME TypeOK, NEW t \in Tasks, NEW n \in Names, NEW mode \in {"load", "unload"},
         Enqueue(t, mode, n), pc[t] \in {"idle", "resolve"}
  PROVE  /\ op' \in [Tasks -> OpType] /\ pc' \in [Tasks -> PcType]
         /\ lora_update_lock' \in Seq(Tasks)
         /\ SameHolder
         /\ \A x \in Tasks : \/ pc'[x] = pc[x] /\ op'[x] = op[x]
                             \/ pc[x] \notin Busy /\ pc'[x] \notin Busy
         /\ \A x \in Tasks \ {t} : pc'[x] = pc[x]
         /\ pc'[t] = "lock"
  <1>2. op' \in [Tasks -> OpType]
    BY Zenon DEF TypeOK, OpType, Enqueue
  <1>3. pc' \in [Tasks -> PcType] /\ lora_update_lock' \in Seq(Tasks)
    BY DEF TypeOK, PcType, Enqueue
  <1>4. SameHolder
    BY HeadAppend DEF TypeOK, SameHolder, Enqueue
  <1> QED
    BY Zenon, <1>2, <1>3, <1>4 DEF Enqueue, TypeOK, Busy

(* A further round of the loop.                                             *)
LEMMA EvictAgain ==
  ASSUME TypeOK, NEW t \in Tasks, Holds(t),
         EvictOrReturn(t, registry, lru, TRUE) \/ EvictOrReturn(t, registry, lru, FALSE)
  PROVE  /\ registry' \subseteq registry /\ lru' \subseteq registry' \X registry'
         /\ op' \in [Tasks -> OpType] /\ pc' \in [Tasks -> PcType]
         /\ \A x \in Tasks \ {t} : pc'[x] = pc[x] /\ op'[x] = op[x]
         /\ \/ /\ pc'[t] = "unload_wait" /\ op'[t].id \in registry \ registry'
               /\ lora_update_lock' = lora_update_lock
            \/ /\ pc'[t] \in {"idle", "resolve", "error"}
               /\ lora_update_lock' = Tail(lora_update_lock)
  <1>0. TypeOK /\ registry \subseteq Ids /\ lru \in SUBSET (registry \X registry)
    BY Zenon DEF TypeOK
  <1>1. CASE EvictOrReturn(t, registry, lru, TRUE)
    BY Zenon, <1>0, <1>1, EvictEffect DEF EvictOrReturn
  <1>2. CASE EvictOrReturn(t, registry, lru, FALSE)
    BY Zenon, <1>0, <1>2, EvictEffect DEF EvictOrReturn
  <1> QED
    BY Zenon, <1>1, <1>2

(* The holder of the lock may do what it likes to its own update: nobody    *)
(* else is inside one.                                                      *)
LEMMA HolderKeeps ==
  ASSUME Exclusive, NEW t \in Tasks, Holds(t),
         \A x \in Tasks \ {t} : pc'[x] = pc[x],
         pc'[t] \in Busy => lora_update_lock' = lora_update_lock /\ op'[t].id \in Ids,
         pc'[t] = "unload_wait" => op'[t].id \notin registry'
  PROVE  Exclusive'
  <1>1. \A x \in Tasks \ {t} : pc'[x] \notin Busy
    BY Zenon DEF Exclusive, Holds
  <1> QED
    BY Zenon, <1>1 DEF Exclusive, Holds, Busy

(* Nor does a step outside the updates disturb one.                         *)
LEMMA OthersKeep ==
  ASSUME Exclusive, registry' = registry,
         \A x \in Tasks : \/ pc'[x] = pc[x] /\ op'[x] = op[x]
                          \/ pc'[x] \notin Busy,
         SameHolder
  PROVE  Exclusive'
  BY Zenon DEF Exclusive, SameHolder, Holds, Busy

(* Calls that keep their adapters, or end, keep the bound on their batch. *)
LEMMA PathsKept ==
  ASSUME PathsBounded, \A c \in Calls : call'[c].path = call[c].path,
         \A c \in Calls : pc'[c] = pc[c] \/ pc[c] \notin {"idle", "error"} \/ pc'[c] = "error"
  PROVE  PathsBounded'
  BY Zenon DEF PathsBounded

(* A registry that only shrinks keeps its counters and its names apart.     *)
LEMMA RegistryShrinks ==
  ASSUME RegistryCounted, registry' \subseteq registry, registry' \subseteq counted'
  PROVE  RegistryCounted'
  BY Zenon DEF RegistryCounted

(* A load or unload request of a client keeps the base invariant.         *)
LEMMA BeginControlBase ==
  ASSUME BaseInv, NEW t \in Ctls, BeginControl(t)
  PROVE  BaseInv'
  <1>1. PICK n \in Names, mode \in {"load", "unload"} : Enqueue(t, mode, n)
    BY Zenon DEF BeginControl
  <1>2. t \in Tasks /\ pc[t] \in {"idle", "resolve"} /\ TypeOK /\ t \notin Calls
    BY Zenon DEF BeginControl, BaseInv
  <1>3. UNCHANGED <<registry, lru, counters, counted, lora_ref_cache, backend, wire,
                    replies, used, call, sub>>
    BY Zenon DEF BeginControl, registryVars, backendVars
  <1>4. /\ op' \in [Tasks -> OpType] /\ pc' \in [Tasks -> PcType]
        /\ lora_update_lock' \in Seq(Tasks)
        /\ SameHolder
        /\ \A x \in Tasks : \/ pc'[x] = pc[x] /\ op'[x] = op[x]
                            \/ pc[x] \notin Busy /\ pc'[x] \notin Busy
        /\ \A x \in Tasks \ {t} : pc'[x] = pc[x]
    BY Zenon, <1>1, <1>2, EnqueueEffect DEF Enqueue
  <1>5. TypeOK'
    BY Zenon, <1>2, <1>3, <1>4 DEF TypeOK
  <1>6. Exclusive' /\ PathsBounded'
    BY Zenon, <1>2, <1>3, <1>4, OthersKeep, PathsKept DEF BaseInv
  <1>7. RegistryCounted'
    BY Zenon, <1>3 DEF BaseInv, RegistryCounted
  <1> QED
    BY Zenon, <1>5, <1>6, <1>7 DEF BaseInv

(* load_lora_adapter keeps it when it sends a new adapter to the scheduler.*)
LEMMA SendLoadBase ==
  ASSUME BaseInv, NEW t \in Tasks, SendLoad(t)
  PROVE  BaseInv'
  <1>1. PICK id \in Ids \ used :
          /\ used' = used \cup {id}
          /\ wire' = Append(wire, [kind |-> "load", id |-> id])
          /\ op' = [op EXCEPT ![t].id = id]
    BY Zenon DEF SendLoad
  <1>2. pc[t] = "lock" /\ Holds(t) /\ pc' = [pc EXCEPT ![t] = "load_sent"] /\ TypeOK
    BY Zenon DEF SendLoad, BaseInv
  <1>3. UNCHANGED <<registry, lru, counters, counted, lora_ref_cache, backend, replies,
                    lora_update_lock, call, sub>>
    BY Zenon DEF SendLoad, registryVars
  <1>4. op[t] \in OpType
    BY Zenon, <1>2 DEF TypeOK
  <1>5. [op[t] EXCEPT !.id = id] \in OpType /\ [op[t] EXCEPT !.id = id].id = id
    BY Zenon, <1>4 DEF OpType
  <1>6. op' \in [Tasks -> OpType] /\ op'[t].id = id
    BY Zenon, <1>1, <1>2, <1>5 DEF TypeOK
  <1>7. /\ pc' \in [Tasks -> PcType] /\ pc'[t] = "load_sent"
        /\ \A x \in Tasks \ {t} : pc'[x] = pc[x]
    BY Zenon, <1>2 DEF TypeOK, PcType
  <1>8. wire' \in Seq([kind : {"load", "unload"}, id : Ids])
    BY <1>1, <1>2 DEF TypeOK
  <1>9. TypeOK'
    BY Zenon, <1>1, <1>2, <1>3, <1>6, <1>7, <1>8 DEF TypeOK
  <1>10. Exclusive'
    BY Zenon, <1>2, <1>3, <1>6, <1>7, HolderKeeps DEF BaseInv
  <1>11. PathsBounded' /\ RegistryCounted'
    BY Zenon, <1>2, <1>3, <1>7, PathsKept DEF BaseInv, RegistryCounted
  <1> QED
    BY Zenon, <1>9, <1>10, <1>11 DEF BaseInv

(* The end of a step of the lock's holder that leaves sub and call alone.   *)
LEMMA UpdateBase ==
  ASSUME BaseInv, NEW t \in Tasks, Holds(t), pc[t] \notin {"idle", "error"},
         registry' \subseteq Ids, lru' \subseteq registry' \X registry',
         counted' \subseteq Ids, counters' \in [Ids -> Int], lora_ref_cache' \subseteq Names,
         op' \in [Tasks -> OpType], pc' \in [Tasks -> PcType],
         \A x \in Tasks \ {t} : pc'[x] = pc[x],
         \/ /\ pc'[t] = "unload_wait" /\ op'[t].id \in Ids \ registry'
            /\ lora_update_lock' = lora_update_lock
         \/ /\ pc'[t] \in {"idle", "resolve", "error"}
            /\ lora_update_lock' = Tail(lora_update_lock),
         UNCHANGED <<backend, used, wire, call, sub>>,
         replies' \in Seq({"ok", "already", "other"}),
         RegistryCounted'
  PROVE  BaseInv'
  <1>1. lora_update_lock' \in Seq(Tasks)
    <2>1. lora_update_lock \in Seq(Tasks) /\ lora_update_lock # <<>>
      BY Zenon DEF BaseInv, TypeOK, Holds
    <2>2. Tail(lora_update_lock) \in Seq(Tasks)
      BY <2>1
    <2> QED
      BY Zenon, <2>1, <2>2
  <1>2. TypeOK'
    BY ZenonT(30), <1>1 DEF BaseInv, TypeOK
  <1>3. Exclusive'
    BY Zenon, HolderKeeps DEF BaseInv, Busy
  <1>4. PathsBounded'
    BY Zenon, PathsKept DEF BaseInv
  <1> QED
    BY Zenon, <1>2, <1>3, <1>4 DEF BaseInv

(* A further round of the loop on max_loaded_loras.                         *)
LEMMA EvictBase ==
  ASSUME BaseInv, NEW t \in Tasks, Holds(t), pc[t] \notin {"idle", "error"},
         EvictOrReturn(t, registry, lru, TRUE) \/ EvictOrReturn(t, registry, lru, FALSE),
         UNCHANGED <<counters, counted, lora_ref_cache, backend, used, wire, call, sub>>,
         replies' \in Seq({"ok", "already", "other"})
  PROVE  BaseInv'
  <1>1. TypeOK /\ RegistryCounted
    BY Zenon DEF BaseInv
  <1>2. /\ registry' \subseteq registry /\ lru' \subseteq registry' \X registry'
        /\ op' \in [Tasks -> OpType] /\ pc' \in [Tasks -> PcType]
        /\ \A x \in Tasks \ {t} : pc'[x] = pc[x] /\ op'[x] = op[x]
        /\ \/ /\ pc'[t] = "unload_wait" /\ op'[t].id \in registry \ registry'
              /\ lora_update_lock' = lora_update_lock
           \/ /\ pc'[t] \in {"idle", "resolve", "error"}
              /\ lora_update_lock' = Tail(lora_update_lock)
    BY Zenon, <1>1, EvictAgain DEF EvictOrReturn
  <1>3. RegistryCounted'
    BY Zenon, <1>1, <1>2 DEF RegistryCounted
  <1>4. /\ registry' \subseteq Ids /\ counted' \subseteq Ids /\ counters' \in [Ids -> Int]
        /\ lora_ref_cache' \subseteq Names
        /\ pc'[t] = "unload_wait" => op'[t].id \in Ids \ registry'
    BY Zenon, <1>1, <1>2 DEF TypeOK
  <1> QED
    BY ZenonT(30), <1>2, <1>3, <1>4, UpdateBase

(* The end of an update that changed nothing.                               *)
LEMMA ReturnBase ==
  ASSUME BaseInv, NEW t \in Tasks, Holds(t), pc[t] \notin {"idle", "error"}, Return(t, FALSE),
         UNCHANGED <<registry, lru, counters, counted, lora_ref_cache, backend, used, wire,
                     call, sub>>,
         replies' \in Seq({"ok", "already", "other"})
  PROVE  BaseInv'
  <1>1. TypeOK /\ RegistryCounted
    BY Zenon DEF BaseInv
  <1>2. op' \in [Tasks -> OpType]
    BY Zenon, <1>1 DEF Return, TypeOK, NoOp, OpType
  <1>3. /\ pc' \in [Tasks -> PcType] /\ pc'[t] \in {"idle", "resolve", "error"}
        /\ \A x \in Tasks \ {t} : pc'[x] = pc[x]
        /\ lora_update_lock' = Tail(lora_update_lock)
    BY Zenon, <1>1 DEF Return, TypeOK, PcType
  <1>4. RegistryCounted'
    BY Zenon, <1>1 DEF RegistryCounted
  <1>5. /\ registry' \subseteq Ids /\ lru' \subseteq registry' \X registry'
        /\ counted' \subseteq Ids /\ counters' \in [Ids -> Int] /\ lora_ref_cache' \subseteq Names
    BY Zenon, <1>1 DEF TypeOK
  <1> QED
    BY ZenonT(30), <1>2, <1>3, <1>4, <1>5, UpdateBase

(* load_lora_adapter keeps it when the scheduler has answered: it registers
   the adapter with its counter and starts the eviction of another.       *)
LEMMA LoadReplyBase ==
  ASSUME BaseInv, NEW t \in Tasks, LoadReply(t)
  PROVE  BaseInv'
  <1>1. pc[t] = "load_sent" /\ replies # <<>> /\ replies' = Tail(replies)
    BY Zenon DEF LoadReply
  <1>2. UNCHANGED <<backend, used, wire, call, sub>>
    BY Zenon DEF LoadReply
  <1>3. Holds(t) /\ op[t].id \in Ids /\ pc[t] \notin {"idle", "error"}
    BY Zenon, <1>1 DEF BaseInv, Exclusive, Busy
  <1>4. replies' \in Seq({"ok", "already", "other"})
    BY <1>1 DEF BaseInv, TypeOK
  <1>5. TypeOK /\ registry \subseteq Ids /\ lru \in SUBSET (registry \X registry) /\ RegistryCounted
    BY Zenon DEF BaseInv, TypeOK
  <1> DEFINE id == op[t].id
  <1>6. CASE Head(replies) = "ok" /\ Registered(NameOf(id))
    <2>1. Return(t, FALSE) /\ UNCHANGED <<registry, lru, counters, counted, lora_ref_cache>>
      BY ZenonT(30), <1>6 DEF LoadReply, registryVars
    <2> QED
      BY ZenonT(30), <1>2, <1>3, <1>4, <2>1, ReturnBase
  <1>7. CASE Head(replies) = "ok" /\ ~Registered(NameOf(id))
    <2> DEFINE reg == registry \cup {id}
               ord == lru \cup (registry \X {id})
    <2>1. /\ counters' = [counters EXCEPT ![id] = 0] /\ counted' = counted \cup {id}
          /\ lora_ref_cache' = lora_ref_cache \cup {NameOf(id)}
          /\ EvictOrReturn(t, reg, ord, TRUE)
      BY Zenon, <1>7 DEF LoadReply
    <2>2. reg \in SUBSET Ids /\ ord \in SUBSET (reg \X reg) /\ reg \subseteq counted'
      BY Zenon, <2>1, <1>3, <1>5 DEF RegistryCounted
    <2>3. \A a, b \in reg : NameOf(a) = NameOf(b) => a = b
      BY Zenon, <1>5, <1>7 DEF RegistryCounted, Registered
    <2>4. NameOf(id) \in Names
      BY Zenon, <1>3 DEF Ids, NameOf
    <2> HIDE DEF reg, ord, id
    <2>5. /\ registry' \subseteq reg /\ lru' \subseteq registry' \X registry'
          /\ op' \in [Tasks -> OpType] /\ pc' \in [Tasks -> PcType]
          /\ \A x \in Tasks \ {t} : pc'[x] = pc[x] /\ op'[x] = op[x]
          /\ \/ /\ pc'[t] = "unload_wait" /\ op'[t].id \in reg \ registry'
                /\ lora_update_lock' = lora_update_lock
             \/ /\ pc'[t] \in {"idle", "resolve", "error"}
                /\ lora_update_lock' = Tail(lora_update_lock)
      BY ZenonT(30), <1>3, <1>5, <2>1, <2>2, EvictEffect DEF EvictOrReturn
    <2>6. RegistryCounted'
      BY Zenon, <2>2, <2>3, <2>5 DEF RegistryCounted
    <2>7. counters' \in [Ids -> Int]
      <3>1. counters \in [Ids -> Int]
        BY Zenon, <1>5 DEF TypeOK
      <3>2. counters' = [counters EXCEPT ![id] = 0]
        BY Zenon, <2>1
      <3>3. 0 \in Int
        OBVIOUS
      <3> QED
        BY Zenon, <3>1, <3>2, <3>3
    <2>8. counted' \subseteq Ids /\ lora_ref_cache' \subseteq Names
      BY Zenon, <1>3, <1>5, <2>1, <2>4 DEF TypeOK, id
    <2>9. registry' \subseteq Ids /\ (pc'[t] = "unload_wait" => op'[t].id \in Ids \ registry')
      BY Zenon, <2>2, <2>5
    <2> QED
      BY ZenonT(30), <1>2, <1>3, <1>4, <2>5, <2>6, <2>7, <2>8, <2>9, UpdateBase
  <1>8. CASE Head(replies) # "ok"
    <2>1. EvictOrReturn(t, registry, lru, Head(replies) = "already")
          /\ UNCHANGED <<counters, counted, lora_ref_cache>>
      BY Zenon, <1>8 DEF LoadReply
    <2>2. \/ EvictOrReturn(t, registry, lru, TRUE)
          \/ EvictOrReturn(t, registry, lru, FALSE)
      <3>1. CASE Head(replies) = "already"
        BY Zenon, <2>1, <3>1 DEF EvictOrReturn, Return
      <3>2. CASE Head(replies) # "already"
        BY Zenon, <2>1, <3>2 DEF EvictOrReturn, Return
      <3> QED
        BY Zenon, <3>1, <3>2
    <2> QED
      BY ZenonT(30), <1>2, <1>3, <1>4, <2>1, <2>2, EvictBase
  <1> QED
    BY Zenon, <1>6, <1>7, <1>8

(* unload_lora_adapter keeps it when it takes an adapter out of the registry.*)
LEMMA UnloadLockedBase ==
  ASSUME BaseInv, NEW t \in Tasks, UnloadLocked(t)
  PROVE  BaseInv'
  <1>1. pc[t] = "lock" /\ Holds(t) /\ TypeOK /\ RegistryCounted /\ pc[t] \notin {"idle", "error"}
    BY Zenon DEF UnloadLocked, BaseInv
  <1>2. UNCHANGED <<counters, counted, lora_ref_cache, backend, wire, replies, used, call, sub>>
    BY Zenon DEF UnloadLocked, backendVars
  <1>3. /\ counted' \subseteq Ids /\ counters' \in [Ids -> Int] /\ lora_ref_cache' \subseteq Names
        /\ replies' \in Seq({"ok", "already", "other"})
    BY Zenon, <1>1, <1>2 DEF TypeOK
  <1>4. CASE Registered(op[t].name)
    <2> DEFINE id == IdOf(op[t].name)
    <2>1. /\ registry' = registry \ {id}
          /\ lru' = {p \in lru : id \notin {p[1], p[2]}}
          /\ pc' = [pc EXCEPT ![t] = "unload_wait"]
          /\ op' = [op EXCEPT ![t].id = id]
          /\ UNCHANGED lora_update_lock
      BY Zenon, <1>4 DEF UnloadLocked
    <2>2. id \in registry
      BY Zenon, <1>4 DEF Registered, IdOf
    <2> HIDE DEF id
    <2>3. id \in Ids /\ op[t] \in OpType
      BY Zenon, <1>1, <2>2 DEF TypeOK
    <2>4. [op[t] EXCEPT !.id = id] \in OpType /\ [op[t] EXCEPT !.id = id].id = id
      BY Zenon, <2>3 DEF OpType
    <2>5. op' \in [Tasks -> OpType] /\ op'[t].id = id
      BY Zenon, <1>1, <2>1, <2>4 DEF TypeOK
    <2>6. registry' \subseteq Ids /\ lru' \subseteq registry' \X registry'
      BY Zenon, <1>1, <2>1 DEF TypeOK
    <2>7. /\ pc' \in [Tasks -> PcType] /\ pc'[t] = "unload_wait"
          /\ \A x \in Tasks \ {t} : pc'[x] = pc[x]
      BY Zenon, <1>1, <2>1 DEF TypeOK, PcType
    <2>8. RegistryCounted' /\ op'[t].id \in Ids \ registry'
      BY <1>1, <1>2, <2>1, <2>3, <2>5 DEF RegistryCounted
    <2>9. lora_update_lock' = lora_update_lock /\ UNCHANGED <<backend, used, wire, call, sub>>
      BY Zenon, <1>2, <2>1
    <2> QED
      BY ZenonT(30), <1>1, <1>3, <2>5, <2>6, <2>7, <2>8, <2>9, UpdateBase
  <1>5. CASE ~Registered(op[t].name)
    <2>1. Return(t, FALSE) /\ UNCHANGED <<registry, lru>>
      BY Zenon, <1>5 DEF UnloadLocked
    <2> QED
      BY ZenonT(30), <1>1, <1>2, <1>3, <2>1, ReturnBase
  <1> QED
    BY Zenon, <1>4, <1>5

(* wait_for_unload keeps it: the counter that it deletes is of an adapter out
   of the registry.                                                       *)
LEMMA WaitForUnloadBase ==
  ASSUME BaseInv, NEW t \in Tasks, WaitForUnload(t)
  PROVE  BaseInv'
  <1> DEFINE id == op[t].id
  <1>1. /\ pc[t] = "unload_wait" /\ counted' = counted \ {id}
        /\ wire' = Append(wire, [kind |-> "unload", id |-> id])
        /\ pc' = [pc EXCEPT ![t] = "unload_sent"]
    BY Zenon DEF WaitForUnload
  <1>2. UNCHANGED <<registry, lru, counters, lora_ref_cache, backend, replies, used,
                    lora_update_lock, op, call, sub>>
    BY Zenon DEF WaitForUnload
  <1>3. Holds(t) /\ id \in Ids \ registry /\ TypeOK /\ RegistryCounted
    BY Zenon, <1>1 DEF BaseInv, Exclusive, Busy
  <1>4. wire' \in Seq([kind : {"load", "unload"}, id : Ids])
    BY <1>1, <1>3 DEF TypeOK
  <1>5. /\ pc' \in [Tasks -> PcType] /\ pc'[t] = "unload_sent"
        /\ \A x \in Tasks \ {t} : pc'[x] = pc[x]
    BY Zenon, <1>1, <1>3 DEF TypeOK, PcType
  <1>6. counted' \subseteq Ids
    BY Zenon, <1>1, <1>3 DEF TypeOK
  <1>7. TypeOK'
    BY ZenonT(30), <1>2, <1>3, <1>4, <1>5, <1>6 DEF TypeOK
  <1>8. Exclusive'
    BY Zenon, <1>1, <1>2, <1>3, <1>5, HolderKeeps DEF BaseInv
  <1>9. PathsBounded'
    BY Zenon, <1>1, <1>2, <1>5, PathsKept DEF BaseInv
  <1>10. RegistryCounted'
    BY Zenon, <1>1, <1>2, <1>3 DEF RegistryCounted
  <1> QED
    BY Zenon, <1>7, <1>8, <1>9, <1>10 DEF BaseInv

(* unload_lora_adapter keeps it when the scheduler has answered.          *)
LEMMA UnloadReplyBase ==
  ASSUME BaseInv, NEW t \in Tasks, UnloadReply(t)
  PROVE  BaseInv'
  <1>1. pc[t] = "unload_sent" /\ replies # <<>> /\ replies' = Tail(replies)
    BY ZenonT(30) DEF UnloadReply
  <1>2. UNCHANGED <<counters, counted, lora_ref_cache, backend, wire, used, call, sub>>
    BY ZenonT(30) DEF UnloadReply
  <1>3. Holds(t) /\ TypeOK /\ pc[t] \notin {"idle", "error"}
    BY Zenon, <1>1 DEF BaseInv, Exclusive, Busy
  <1>4. replies' \in Seq({"ok", "already", "other"})
    BY <1>1, <1>3 DEF TypeOK
  <1>5. CASE op[t].mode = "load" /\ Head(replies) = "ok"
    <2>1. EvictOrReturn(t, registry, lru, op[t].ok)
      BY Zenon, <1>5 DEF UnloadReply
    <2>2. op[t].ok \in BOOLEAN
      BY Zenon, <1>3 DEF TypeOK, OpType
    <2>3. \/ EvictOrReturn(t, registry, lru, TRUE)
          \/ EvictOrReturn(t, registry, lru, FALSE)
      BY Zenon, <2>1, <2>2 DEF EvictOrReturn, Return
    <2> QED
      BY ZenonT(30), <1>2, <1>3, <1>4, <2>3, EvictBase
  <1>6. CASE ~(op[t].mode = "load" /\ Head(replies) = "ok")
    <2>1. Return(t, FALSE) /\ UNCHANGED <<registry, lru>>
      BY ZenonT(30), <1>6 DEF UnloadReply
    <2> QED
      BY ZenonT(30), <1>2, <1>3, <1>4, <2>1, ReturnBase
  <1> QED
    BY Zenon, <1>5, <1>6

(* The scheduler's side: only the channels and its own set change.          *)
LEMMA BackendBase ==
  ASSUME BaseInv, Backend \/ DropReply
  PROVE  BaseInv'
  <1>1. UNCHANGED <<registry, lru, counters, counted, lora_ref_cache, used, lora_update_lock,
                    pc, op, call, sub>>
    BY ZenonT(30) DEF Backend, DropReply, registryVars
  <1>2. /\ wire' \in Seq([kind : {"load", "unload"}, id : Ids]) /\ backend' \subseteq Ids
        /\ replies' \in Seq({"ok", "already", "other"})
    <2>1. /\ wire \in Seq([kind : {"load", "unload"}, id : Ids]) /\ backend \subseteq Ids
          /\ replies \in Seq({"ok", "already", "other"})
      BY Zenon DEF BaseInv, TypeOK
    <2>2. CASE Backend
      <3>1. wire # <<>> /\ wire' = Tail(wire)
        BY Zenon, <2>2 DEF Backend
      <3>2. Head(wire).id \in Ids /\ wire' \in Seq([kind : {"load", "unload"}, id : Ids])
        <4>1. Head(wire) \in [kind : {"load", "unload"}, id : Ids]
              /\ Tail(wire) \in Seq([kind : {"load", "unload"}, id : Ids])
          BY Zenon, <2>1, <3>1, HeadTail
        <4> QED
          BY Zenon, <3>1, <4>1
      <3>3. /\ \E r \in {"ok", "already", "other"} : replies' = Append(replies, r)
            /\ \/ backend' = backend
               \/ backend' = backend \cup {Head(wire).id}
               \/ backend' = backend \ {Head(wire).id}
        BY Zenon, <2>2 DEF Backend
      <3> QED
        BY <2>1, <3>2, <3>3
    <2>3. CASE DropReply
      BY <2>1, <2>3 DEF DropReply
    <2> QED
      BY Zenon, <2>2, <2>3
  <1>3. TypeOK'
    BY ZenonT(30), <1>1, <1>2 DEF BaseInv, TypeOK
  <1>4. Exclusive' /\ PathsBounded' /\ RegistryCounted'
    BY Zenon, <1>1 DEF BaseInv, Exclusive, PathsBounded, RegistryCounted, Holds
  <1> QED
    BY Zenon, <1>3, <1>4 DEF BaseInv

-----------------------------------------------------------------------------
(* A step of a call outside the updates.                                    *)
LEMMA CallBase ==
  ASSUME BaseInv, NEW c \in Calls,
         UNCHANGED <<registry, counted, lora_ref_cache, backend, wire, replies, used>>,
         lru' \subseteq registry \X registry, counters' \in [Ids -> Int],
         op' \in [Tasks -> OpType], pc' \in [Tasks -> PcType],
         lora_update_lock' \in Seq(Tasks),
         call' \in [Calls -> CallType], sub' \in [Subs -> SubType],
         Exclusive', PathsBounded'
  PROVE  BaseInv'
  <1>1. TypeOK'
    BY ZenonT(30) DEF BaseInv, TypeOK, CallType, SubType
  <1>2. RegistryCounted'
    BY Zenon DEF BaseInv, RegistryCounted
  <1> QED
    BY Zenon, <1>1, <1>2 DEF BaseInv

(* A step of a call that has been admitted changes its requests only.       *)
LEMMA SubBase ==
  ASSUME BaseInv, NEW c \in Calls,
         UNCHANGED <<registry, lru, counted, lora_ref_cache, backend, wire, replies, used,
                     lora_update_lock, pc, op, call>>,
         counters' \in [Ids -> Int], sub' \in [Subs -> SubType]
  PROVE  BaseInv'
  <1>1. /\ lru' \subseteq registry \X registry /\ op' \in [Tasks -> OpType]
        /\ pc' \in [Tasks -> PcType] /\ lora_update_lock' \in Seq(Tasks)
        /\ call' \in [Calls -> CallType]
    BY Zenon DEF BaseInv, TypeOK, CallType
  <1>2. Exclusive' /\ PathsBounded'
    BY Zenon DEF BaseInv, Exclusive, PathsBounded, Holds
  <1> QED
    BY ZenonT(30), <1>1, <1>2, CallBase

(* The types of the variables of calls and updates, as the proofs use them.*)
LEMMA TypesOfCalls ==
  ASSUME BaseInv
  PROVE  /\ sub \in [Subs -> SubType] /\ call \in [Calls -> CallType]
         /\ counters \in [Ids -> Int] /\ pc \in [Tasks -> PcType] /\ op \in [Tasks -> OpType]
         /\ lora_update_lock \in Seq(Tasks)
  BY Zenon DEF BaseInv, TypeOK, SubType, CallType

(* A call that starts keeps the base invariant.                           *)
LEMMA StartBase ==
  ASSUME BaseInv, NEW c \in Calls, Start(c)
  PROVE  BaseInv'
  <1>1. UNCHANGED <<registry, counters, counted, lora_ref_cache, backend, wire, replies, used,
                    lora_update_lock, op, sub>> /\ pc[c] = "idle"
    BY Zenon DEF Start, backendVars
  <1> DEFINE NamesOf(path) == {path[i] : i \in DOMAIN path}
             CallOf(kind, path) == [kind |-> kind, path |-> path,
                                    todo |-> {n \in NamesOf(path) : ~Registered(n)}]
  <1>2. PICK kind \in Kinds, path \in Paths :
          \/ pc' = [pc EXCEPT ![c] = "error"] /\ UNCHANGED <<lru, call>>
          \/ /\ pc' = [pc EXCEPT ![c] = "resolve"]
             /\ \E q : lru' = MoveToEnd(q)
             /\ call' = [call EXCEPT ![c] = CallOf(kind, path)]
    <2>1. PICK kind \in Kinds, path \in Paths :
            IF Cardinality(NamesOf(path)) > MaxLoadedLoras
            THEN pc' = [pc EXCEPT ![c] = "error"] /\ UNCHANGED <<lru, call>>
            ELSE /\ pc' = [pc EXCEPT ![c] = "resolve"]
                 /\ \E q \in Listings({IdOf(n) : n \in {m \in NamesOf(path) : Registered(m)}}) :
                      lru' = MoveToEnd(q)
                 /\ call' = [call EXCEPT ![c] =
                      [kind |-> kind, path |-> path,
                       todo |-> {n \in NamesOf(path) : ~Registered(n)}]]
      BY Zenon DEF Start
    <2> QED
      BY Zenon, <2>1
  <1>3. path \in Seq(Names) /\ NamesOf(path) \subseteq Names /\ Len(path) \in 1..MaxBatch
    BY <1>2
  <1>4. CallOf(kind, path) \in CallType /\ CallOf(kind, path).path = path
    BY Zenon, <1>3 DEF CallType
  <1> HIDE DEF CallOf
  <1>5. /\ pc' \in [Tasks -> PcType] /\ \A x \in Tasks \ {c} : pc'[x] = pc[x]
        /\ pc'[c] \in {"error", "resolve"}
    BY Zenon, <1>2, TypesOfCalls DEF PcType
  <1>6. /\ call' \in [Calls -> CallType] /\ \A d \in Calls \ {c} : call'[d] = call[d]
        /\ pc'[c] = "resolve" => call'[c].path = path
    <2>1. CASE pc' = [pc EXCEPT ![c] = "error"] /\ UNCHANGED <<lru, call>>
      BY Zenon, <2>1, TypesOfCalls
    <2>2. CASE call' = [call EXCEPT ![c] = CallOf(kind, path)]
      BY Zenon, <1>4, <2>2, TypesOfCalls
    <2> QED
      BY Zenon, <1>2, <2>1, <2>2
  <1>7. lru' \subseteq registry \X registry
    BY Zenon, <1>2 DEF BaseInv, TypeOK, MoveToEnd
  <1>8. Exclusive'
    BY Zenon, <1>1, <1>5, OthersKeep DEF BaseInv, Busy, SameHolder
  <1>9. PathsBounded'
    BY Zenon, <1>3, <1>5, <1>6 DEF BaseInv, PathsBounded
  <1>10. /\ counters' \in [Ids -> Int] /\ op' \in [Tasks -> OpType]
         /\ lora_update_lock' \in Seq(Tasks) /\ sub' \in [Subs -> SubType]
    BY Zenon, <1>1, TypesOfCalls
  <1> QED
    BY ZenonT(30), <1>1, <1>5, <1>6, <1>7, <1>8, <1>9, <1>10, CallBase

(* A call that loads an evicted adapter again keeps it.                   *)
LEMMA ReloadBase ==
  ASSUME BaseInv, NEW c \in Calls, Reload(c)
  PROVE  BaseInv'
  <1>1. UNCHANGED <<registry, lru, counters, counted, lora_ref_cache, backend, wire, replies,
                    used, sub>> /\ pc[c] = "resolve"
    BY Zenon DEF Reload, registryVars, backendVars
  <1>2. PICK n \in call[c].todo :
          /\ call' = [call EXCEPT ![c].todo = @ \ {n}]
          /\ \/ Enqueue(c, "load", n)
             \/ pc' = [pc EXCEPT ![c] = "error"] /\ UNCHANGED <<lora_update_lock, op>>
    BY Zenon DEF Reload
  <1>3. call[c] \in CallType /\ n \in Names
    BY Zenon, <1>2, TypesOfCalls DEF CallType
  <1> DEFINE r == [call[c] EXCEPT !.todo = call[c].todo \ {n}]
  <1>4. r \in CallType /\ r.path = call[c].path
    BY Zenon, <1>3 DEF CallType
  <1>5. call' = [call EXCEPT ![c] = r]
    BY Zenon, <1>2
  <1> HIDE DEF r
  <1>6. /\ call' \in [Calls -> CallType] /\ \A d \in Calls : call'[d].path = call[d].path
    BY Zenon, <1>4, <1>5, TypesOfCalls
  <1>7. /\ op' \in [Tasks -> OpType] /\ pc' \in [Tasks -> PcType]
        /\ lora_update_lock' \in Seq(Tasks)
        /\ SameHolder
        /\ \A x \in Tasks : \/ pc'[x] = pc[x] /\ op'[x] = op[x]
                            \/ pc[x] \notin Busy /\ pc'[x] \notin Busy
        /\ \A x \in Tasks \ {c} : pc'[x] = pc[x]
    <2>1. CASE Enqueue(c, "load", n)
      <3>1. c \in Tasks /\ pc[c] \in {"idle", "resolve"} /\ TypeOK
        BY Zenon, <1>1 DEF BaseInv
      <3> QED
        BY ZenonT(30), <1>3, <2>1, <3>1, EnqueueEffect DEF Enqueue
    <2>2. CASE pc' = [pc EXCEPT ![c] = "error"] /\ UNCHANGED <<lora_update_lock, op>>
      BY Zenon, <2>2, <1>1, TypesOfCalls DEF PcType, SameHolder, Busy
    <2> QED
      BY Zenon, <2>1, <2>2, <1>2
  <1>8. Exclusive'
    BY Zenon, <1>1, <1>7, OthersKeep DEF BaseInv
  <1>9. PathsBounded'
    BY Zenon, <1>1, <1>6, <1>7, PathsKept DEF BaseInv
  <1>10. lru' \subseteq registry \X registry /\ counters' \in [Ids -> Int] /\ sub' \in [Subs -> SubType]
    BY Zenon, <1>1, TypesOfCalls DEF BaseInv, TypeOK
  <1> QED
    BY ZenonT(30), <1>1, <1>6, <1>7, <1>8, <1>9, <1>10, CallBase

(* A set of numbers that is not empty has a smallest.                       *)
LEMMA SmallestOf ==
  ASSUME NEW T \in SUBSET Nat, T # {}
  PROVE  \E m \in T : \A x \in T : m <= x
  <1>1. IsWellFoundedOn(OpToRel(<, Nat), Nat)
    BY Zenon, NatLessThanWellFounded, Zenon
  <1>2. PICK m \in T : \A y \in T : ~(<<y, m>> \in OpToRel(<, Nat))
    BY Zenon, <1>1, WFMin, Zenon
  <1>3. \A y \in T : ~(y < m)
    BY Zenon, <1>2 DEF OpToRel
  <1> QED
    BY <1>3

(* The lookups of a lora_path find registered adapters, up to the first     *)
(* name that is missing.                                                    *)
LEMMA FoundSome ==
  ASSUME NEW path \in Seq(Names)
  PROVE  \E n \in 0..Len(path) :
           /\ Found(path) = [i \in 1..n |-> IdOf(path[i])]
           /\ Found(path) \in Seq(registry) /\ Len(Found(path)) = n
           /\ \A i \in 1..n : Found(path)[i] \in registry
  <1> DEFINE P(k) == /\ \A i \in 1..k : Registered(path[i])
                     /\ k < Len(path) => ~Registered(path[k + 1])
             Bad == {i \in 1..Len(path) : ~Registered(path[i])}
  <1>1. \E k \in 0..Len(path) : P(k)
    <2>1. CASE Bad = {}
      <3>1. P(Len(path)) /\ Len(path) \in 0..Len(path)
        BY <2>1
      <3> QED
        BY Zenon, <3>1
    <2>2. CASE Bad # {}
      <3>1. PICK m \in Bad : \A x \in Bad : m <= x
        <4>1. Bad \in SUBSET Nat
          OBVIOUS
        <4> HIDE DEF Bad
        <4> QED
          BY Zenon, <2>2, <4>1, SmallestOf
      <3>2. m - 1 \in 0..Len(path) /\ P(m - 1)
        BY <3>1
      <3> QED
        BY Zenon, <3>2
    <2> QED
      BY Zenon, <2>1, <2>2
  <1> DEFINE n == CHOOSE k \in 0..Len(path) : P(k)
  <1>2. n \in 0..Len(path) /\ P(n)
    BY Zenon, <1>1
  <1>3. Found(path) = [i \in 1..n |-> IdOf(path[i])]
    BY Zenon DEF Found
  <1> HIDE DEF n
  <1>4. \A i \in 1..n : IdOf(path[i]) \in registry
    BY Zenon, <1>2 DEF Registered, IdOf
  <1>5. /\ Found(path) \in Seq(registry) /\ Len(Found(path)) = n
        /\ \A i \in 1..n : Found(path)[i] \in registry
    BY <1>2, <1>3, <1>4
  <1> QED
    BY Zenon, <1>2, <1>3, <1>5

(* A call that looks its adapters up and acquires them keeps it.          *)
LEMMA AcquireBase ==
  ASSUME BaseInv, NEW c \in Calls, Acquire(c)
  PROVE  BaseInv'
  <1> DEFINE ids == Found(call[c].path)
             looked == [s \in Subs |->
                IF s[1] = c /\ s[2] \in DOMAIN ids
                THEN [id |-> ids[s[2]], st |-> "looked", rel |-> 0] ELSE sub[s]]
  <1>1. /\ pc[c] = "resolve" /\ lru' = MoveToEnd(ids)
        /\ UNCHANGED <<registry, counted, lora_ref_cache, backend, wire, replies, used,
                       lora_update_lock, op, call>>
    BY Zenon DEF Acquire, backendVars
  <1>2. call[c].path \in Seq(Names) /\ Len(call[c].path) \in 1..MaxBatch
    <2>1. call[c] \in CallType
      BY Zenon, TypesOfCalls
    <2> QED
      BY Zenon, <1>1, <2>1 DEF BaseInv, PathsBounded, CallType
  <1>3. PICK n \in 0..Len(call[c].path) :
          Len(ids) = n /\ DOMAIN ids = 1..n /\ \A i \in 1..n : ids[i] \in registry
    BY Zenon, <1>2, FoundSome
  <1>4. lru' \subseteq registry \X registry /\ registry \subseteq Ids
    BY ZenonT(30), <1>1 DEF MoveToEnd, BaseInv, TypeOK
  <1>5. \/ /\ n < Len(call[c].path)
           /\ pc' = [pc EXCEPT ![c] = "error"] /\ UNCHANGED <<counters, sub>>
        \/ /\ n = Len(call[c].path)
           /\ pc' = [pc EXCEPT ![c] = "acquire"]
           /\ \/ /\ counters' = [counters EXCEPT ![ids[1]] = @ + 1]
                 /\ sub' = [sub EXCEPT ![<<c, 1>>] = [id |-> ids[1], st |-> "held", rel |-> 0]]
              \/ sub' = looked /\ counters' = counters
    <2>1. n < Len(call[c].path) \/ (n = Len(call[c].path) /\ ~(n < Len(call[c].path)))
      BY <1>2
    <2>2. CASE n < Len(call[c].path)
      BY Zenon, <1>3, <2>2 DEF Acquire
    <2>3. CASE n = Len(call[c].path) /\ ~(n < Len(call[c].path))
      BY Zenon, <1>3, <2>3 DEF Acquire
    <2> QED
      BY Zenon, <2>1, <2>2, <2>3
  <1> HIDE DEF ids
  <1>6. looked \in [Subs -> SubType]
    <2> SUFFICES ASSUME NEW s \in Subs
                 PROVE  (IF s[1] = c /\ s[2] \in DOMAIN ids
                         THEN [id |-> ids[s[2]], st |-> "looked", rel |-> 0] ELSE sub[s]) \in SubType
      BY Zenon
    <2>1. sub[s] \in SubType
      BY Zenon, TypesOfCalls
    <2>2. s[2] \in DOMAIN ids => [id |-> ids[s[2]], st |-> "looked", rel |-> 0] \in SubType
      BY <1>3, <1>4 DEF SubType
    <2> QED
      BY Zenon, <2>1, <2>2
  <1> HIDE DEF looked
  <1>7. counters' \in [Ids -> Int] /\ sub' \in [Subs -> SubType]
    <2>1. CASE UNCHANGED <<counters, sub>>
      BY Zenon, <2>1, TypesOfCalls
    <2>2. CASE sub' = looked /\ counters' = counters
      BY Zenon, <2>2, <1>6, TypesOfCalls
    <2>3. CASE /\ n = Len(call[c].path)
               /\ counters' = [counters EXCEPT ![ids[1]] = @ + 1]
               /\ sub' = [sub EXCEPT ![<<c, 1>>] = [id |-> ids[1], st |-> "held", rel |-> 0]]
      <3>0. 1 \in 1..n
        BY <1>2, <2>3
      <3>1. ids[1] \in Ids
        BY Zenon, <1>3, <1>4, <3>0
      <3>2. [id |-> ids[1], st |-> "held", rel |-> 0] \in SubType
        BY <3>1 DEF SubType
      <3>3. sub' \in [Subs -> SubType]
        BY Zenon, <2>3, <3>2, TypesOfCalls
      <3>4. counters' \in [Ids -> Int]
        BY <2>3, <3>1, TypesOfCalls
      <3> QED
        BY Zenon, <3>3, <3>4
    <2> QED
      BY Zenon, <1>5, <2>1, <2>2, <2>3
  <1>8. /\ pc' \in [Tasks -> PcType] /\ pc'[c] \in {"error", "acquire"}
        /\ \A x \in Tasks \ {c} : pc'[x] = pc[x]
    BY Zenon, <1>5, TypesOfCalls DEF PcType
  <1>9. Exclusive'
    BY Zenon, <1>1, <1>8, OthersKeep DEF BaseInv, SameHolder, Busy
  <1>10. PathsBounded'
    BY Zenon, <1>1, <1>8, PathsKept DEF BaseInv
  <1>11. op' \in [Tasks -> OpType] /\ lora_update_lock' \in Seq(Tasks) /\ call' \in [Calls -> CallType]
    BY Zenon, <1>1, TypesOfCalls
  <1> QED
    BY ZenonT(30), <1>1, <1>4, <1>7, <1>8, <1>9, <1>10, <1>11, CallBase

(* The requests of an admitted call: increments, dispatches, ends, releases.*)
LEMMA RequestBase ==
  ASSUME BaseInv, NEW c \in Calls, Increment(c) \/ Dispatch(c) \/ EndRequest(c) \/ Release(c)
  PROVE  BaseInv'
  <1>1. UNCHANGED <<registry, lru, counted, lora_ref_cache, backend, wire, replies, used,
                    lora_update_lock, pc, op, call>>
    BY Zenon DEF Increment, Dispatch, EndRequest, Release, registryVars, backendVars
  <1>2. counters' \in [Ids -> Int]
    <2>1. CASE counters' = counters
      BY Zenon, <2>1, TypesOfCalls
    <2>2. ASSUME NEW id \in Ids, counters' = [counters EXCEPT ![id] = @ + 1]
                                 \/ counters' = [counters EXCEPT ![id] = @ - 1]
          PROVE  counters' \in [Ids -> Int]
      BY <2>2, TypesOfCalls
    <2>3. counted \subseteq Ids
      BY Zenon DEF BaseInv, TypeOK
    <2>4. \/ counters' = counters
          \/ \E id \in counted : counters' = [counters EXCEPT ![id] = @ + 1]
                                 \/ counters' = [counters EXCEPT ![id] = @ - 1]
      BY Zenon DEF Increment, Dispatch, EndRequest, Release, registryVars
    <2> QED
      BY Zenon, <2>1, <2>2, <2>3, <2>4
  <1>3. sub' \in [Subs -> SubType]
    <2>1. ASSUME NEW s \in Subs, NEW r \in SubType, sub' = [sub EXCEPT ![s] = r]
          PROVE  sub' \in [Subs -> SubType]
      BY Zenon, <2>1, TypesOfCalls
    <2>2. CASE Increment(c)
      <3>1. PICK s \in Subs : sub' = [sub EXCEPT ![s].st = "held"]
        BY Zenon, <2>2 DEF Increment
      <3>2. sub[s] \in SubType
        BY Zenon, TypesOfCalls
      <3>3. [sub[s] EXCEPT !.st = "held"] \in SubType
        BY Zenon, <3>2 DEF SubType
      <3> QED
        BY Zenon, <2>1, <3>1, <3>3
    <2>3. CASE Dispatch(c)
      <3>1. PICK i \in 0..MaxBatch :
              \/ sub' = [sub EXCEPT ![<<c, 0>>] =
                           [id |-> sub[<<c, 1>>].id, st |-> "dispatched", rel |-> 0]]
              \/ sub' = [sub EXCEPT ![<<c, i>>].st = "dispatched"]
        BY Zenon, <2>3 DEF Dispatch
      <3>2. <<c, i>> \in Subs /\ <<c, 0>> \in Subs /\ <<c, 1>> \in Subs
        OBVIOUS
      <3>3. sub[<<c, i>>] \in SubType /\ sub[<<c, 1>>] \in SubType
        BY Zenon, <3>2, TypesOfCalls
      <3>4. /\ [sub[<<c, i>>] EXCEPT !.st = "dispatched"] \in SubType
            /\ [id |-> sub[<<c, 1>>].id, st |-> "dispatched", rel |-> 0] \in SubType
        BY <3>3 DEF SubType
      <3> QED
        BY Zenon, <2>1, <3>1, <3>2, <3>4
    <2>4. CASE EndRequest(c)
      <3>1. PICK s \in Subs, e \in Ends :
              sub' = [sub EXCEPT ![s] =
                       [id |-> sub[s].id, st |-> "done",
                        rel |-> (IF e \in {"output", "output5xx"} THEN 1 ELSE 0)
                                + (IF e \in {"output5xx", "echo5xx"} /\ pc[c] # "error"
                                   THEN 1 ELSE 0)]]
        BY Zenon, <2>4 DEF EndRequest
      <3> DEFINE k == (IF e \in {"output", "output5xx"} THEN 1 ELSE 0)
                      + (IF e \in {"output5xx", "echo5xx"} /\ pc[c] # "error" THEN 1 ELSE 0)
      <3>2. k \in 0..2
        OBVIOUS
      <3>3. sub' = [sub EXCEPT ![s] = [id |-> sub[s].id, st |-> "done", rel |-> k]]
        BY Zenon, <3>1
      <3> HIDE DEF k
      <3>4. sub[s] \in SubType
        BY Zenon, TypesOfCalls
      <3>5. [id |-> sub[s].id, st |-> "done", rel |-> k] \in SubType
        BY Zenon, <3>2, <3>4 DEF SubType
      <3> QED
        BY Zenon, <2>1, <3>3, <3>5
    <2>5. CASE Release(c)
      <3>1. PICK s \in Subs : sub[s].rel > 0 /\ sub' = [sub EXCEPT ![s].rel = @ - 1]
        BY Zenon, <2>5 DEF Release
      <3>2. sub[s] \in SubType
        BY TypesOfCalls
      <3>3. [sub[s] EXCEPT !.rel = @ - 1] \in SubType
        BY <3>1, <3>2 DEF SubType
      <3> QED
        BY Zenon, <2>1, <3>1, <3>3
    <2> QED
      BY Zenon, <2>2, <2>3, <2>4, <2>5
  <1> QED
    BY ZenonT(30), <1>1, <1>2, <1>3, SubBase

(* A coroutine that leaves the queue of the lock, as its holder or not.     *)
LEMMA LeaveQueue ==
  ASSUME NEW S, NEW q \in Seq(S), NEW k \in DOMAIN q
  PROVE  LET s == SubSeq(q, 1, k - 1) \o SubSeq(q, k + 1, Len(q)) IN
         s \in Seq(S) /\ (q[k] # Head(q) => s # <<>> /\ Head(s) = Head(q))
  <1> DEFINE a == SubSeq(q, 1, k - 1)
             b == SubSeq(q, k + 1, Len(q))
  <1>1. k \in 1..Len(q) /\ Len(q) \in Nat /\ q # <<>> /\ Head(q) = q[1]
    OBVIOUS
  <1>2. a \in Seq(S) /\ Len(a) = k - 1 /\ \A i \in 1..(k - 1) : a[i] = q[i]
    BY <1>1
  <1>3. b \in Seq(S)
    BY <1>1
  <1> HIDE DEF a, b
  <1>5. a \o b \in Seq(S)
    BY <1>2, <1>3
  <1>6. ASSUME q[k] # Head(q) PROVE a \o b # <<>> /\ Head(a \o b) = Head(q)
    <2>1. k > 1
      BY <1>1, <1>6
    <2>2. Len(a \o b) >= 1 /\ (a \o b)[1] = a[1] /\ a[1] = q[1]
      BY <1>1, <1>2, <1>3, <2>1
    <2> QED
      BY <1>1, <1>5, <2>2
  <1> QED
    BY Zenon, <1>5, <1>6 DEF a, b

(* A call that fails keeps it, wherever it is.                            *)
LEMMA FailBase ==
  ASSUME BaseInv, NEW c \in Calls, Fail(c)
  PROVE  BaseInv'
  <1>1. UNCHANGED <<registry, lru, counters, counted, lora_ref_cache, backend, wire, replies,
                    used, call>>
        /\ pc' = [pc EXCEPT ![c] = "error"] /\ op' = [op EXCEPT ![c] = NoOp]
        /\ sub' = [s \in Subs |-> IF s[1] = c /\ sub[s].st \in {"looked", "held"}
                                  THEN [sub[s] EXCEPT !.st = "done"] ELSE sub[s]]
    BY Zenon DEF Fail, registryVars, backendVars
  <1>2. \/ lora_update_lock' = lora_update_lock
        \/ \E i \in DOMAIN lora_update_lock :
             /\ lora_update_lock[i] = c
             /\ lora_update_lock' = SubSeq(lora_update_lock, 1, i - 1)
                                      \o SubSeq(lora_update_lock, i + 1, Len(lora_update_lock))
    BY Zenon DEF Fail
  <1>3. /\ lora_update_lock' \in Seq(Tasks)
        /\ lora_update_lock # <<>> /\ Head(lora_update_lock) # c =>
             lora_update_lock' # <<>> /\ Head(lora_update_lock') = Head(lora_update_lock)
    <2>1. lora_update_lock \in Seq(Tasks)
      BY Zenon, TypesOfCalls
    <2>2. CASE lora_update_lock' = lora_update_lock
      BY Zenon, <2>1, <2>2
    <2>3. ASSUME NEW i \in DOMAIN lora_update_lock, lora_update_lock[i] = c,
                 lora_update_lock' = SubSeq(lora_update_lock, 1, i - 1)
                                       \o SubSeq(lora_update_lock, i + 1, Len(lora_update_lock))
          PROVE  /\ lora_update_lock' \in Seq(Tasks)
                 /\ Head(lora_update_lock) # c =>
                      lora_update_lock' # <<>> /\ Head(lora_update_lock') = Head(lora_update_lock)
      BY Zenon, <2>1, <2>3, LeaveQueue
    <2> QED
      BY Zenon, <1>2, <2>2, <2>3
  <1>4. /\ pc' \in [Tasks -> PcType] /\ pc'[c] = "error" /\ \A x \in Tasks \ {c} : pc'[x] = pc[x]
    BY Zenon, <1>1, TypesOfCalls DEF PcType
  <1>5. op' \in [Tasks -> OpType] /\ \A x \in Tasks \ {c} : op'[x] = op[x]
    BY Zenon, <1>1, TypesOfCalls DEF NoOp, OpType
  <1>6. sub' \in [Subs -> SubType]
    <2>1. \A s \in Subs : sub[s] \in SubType
      BY Zenon, TypesOfCalls
    <2>2. \A r \in SubType : [r EXCEPT !.st = "done"] \in SubType
      BY Zenon DEF SubType
    <2> QED
      BY Zenon, <1>1, <2>1, <2>2
  <1>7. Exclusive'
    BY Zenon, <1>1, <1>3, <1>4, <1>5 DEF BaseInv, Exclusive, Holds, Busy
  <1>8. PathsBounded'
    BY Zenon, <1>1, <1>4, PathsKept DEF BaseInv
  <1>9. lru' \subseteq registry \X registry /\ counters' \in [Ids -> Int] /\ call' \in [Calls -> CallType]
    BY Zenon, <1>1, TypesOfCalls DEF BaseInv, TypeOK
  <1> QED
    BY ZenonT(30), <1>1, <1>3, <1>4, <1>5, <1>6, <1>7, <1>8, <1>9, CallBase

(* The base invariant holds when the server starts.                       *)
LEMMA InitBase == Init => BaseInv
  <1> SUFFICES ASSUME Init PROVE BaseInv
    BY Zenon
  <1>1. TypeOK
    BY DEF Init, TypeOK, PcType, OpType, Ids, NoOp, NoCall, NoSub
  <1>2. Exclusive /\ PathsBounded /\ RegistryCounted
    BY Zenon DEF Init, Exclusive, PathsBounded, RegistryCounted, Busy
  <1> QED
    BY Zenon, <1>1, <1>2 DEF BaseInv

(* Every step keeps the base invariant.                                   *)
LEMMA NextBase == BaseInv /\ [Next]_vars => BaseInv'
  <1> SUFFICES ASSUME BaseInv, [Next]_vars PROVE BaseInv'
    BY Zenon
  <1>1. CASE \E t \in Ctls : BeginControl(t)
    BY Zenon, <1>1, BeginControlBase
  <1>2. CASE \E t \in Tasks : UpdateStep(t)
    BY ZenonT(30), <1>2, SendLoadBase, LoadReplyBase, UnloadLockedBase, WaitForUnloadBase,
       UnloadReplyBase DEF UpdateStep
  <1>3. CASE Backend \/ DropReply
    BY Zenon, <1>3, BackendBase
  <1>4. CASE \E c \in Calls : Start(c) \/ CallStep(c) \/ Fail(c)
    BY ZenonT(30), <1>4, StartBase, ReloadBase, AcquireBase, RequestBase, FailBase DEF CallStep
  <1>5. CASE UNCHANGED vars
    <2>1. UNCHANGED <<registry, lru, counters, counted, lora_ref_cache, backend, wire, replies,
                      used, lora_update_lock, pc, op, call, sub>>
      BY ZenonT(30), <1>5 DEF vars
    <2>2. TypeOK'
      BY ZenonT(30), <2>1 DEF BaseInv, TypeOK
    <2>3. Exclusive' /\ PathsBounded' /\ RegistryCounted'
      BY Zenon, <2>1 DEF BaseInv, Exclusive, PathsBounded, RegistryCounted, Holds
    <2> QED
      BY Zenon, <2>2, <2>3 DEF BaseInv
  <1> QED
    BY Zenon, <1>1, <1>2, <1>3, <1>4, <1>5, Zenon DEF Next

(* The base invariant always holds.                                       *)
LEMMA AlwaysBase == Spec => []BaseInv
  BY InitBase, NextBase, PTL DEF Spec

(* The variables of the registry, of its users and of the scheduler keep    *)
(* their types whatever fails.                                              *)
THEOREM TypeCorrect == Spec => []TypeOK
  <1>1. BaseInv => TypeOK
    BY Zenon DEF BaseInv
  <1> QED
    BY <1>1, AlwaysBase, PTL

(* Whatever fails, acquire finds a counter for every registered adapter and *)
(* a name stands for one adapter: wait_for_unload deletes the counter of an *)
(* adapter that is out of the registry and that nobody can register again.  *)
THEOREM RegisteredIsCounted == Spec => []RegistryCounted
  <1>1. BaseInv => RegistryCounted
    BY Zenon DEF BaseInv
  <1> QED
    BY <1>1, AlwaysBase, PTL

-----------------------------------------------------------------------------
(* The order of use, and the bound that evicting in that order keeps.       *)

OrderedBy(reg, ord) ==
  /\ \A a \in reg : <<a, a>> \notin ord
  /\ \A a, b \in reg : a = b \/ <<a, b>> \in ord \/ <<b, a>> \in ord
  /\ \A a, b, c \in reg : <<a, b>> \in ord /\ <<b, c>> \in ord => <<a, c>> \in ord

(* validate_new_adapter pins fewer adapters than a batch may use, and a     *)
(* batch uses at most the adapters that may be loaded.                      *)
PinnedFit == IsFiniteSet(PinnedNames) /\ Cardinality(PinnedNames) <= MaxLoadedLoras

Within ==
  /\ IsFiniteSet(registry) /\ Cardinality(registry) <= MaxLoadedLoras
  /\ OrderedBy(registry, lru)

(* A finite registry with an unpinned adapter has one to evict.             *)
LEMMA EvictableExists ==
  ASSUME NEW reg, NEW ord, IsFiniteSet(reg), OrderedBy(reg, ord), NEW x \in reg, ~Pinned(x)
  PROVE  LruUnpinned(reg, ord) # {}
  <1> DEFINE Free == {a \in reg : ~Pinned(a)}
             Before(a) == {b \in Free : <<b, a>> \in ord}
             Counts == {Cardinality(Before(a)) : a \in Free}
  <1>1. IsFiniteSet(Free) /\ \A a : IsFiniteSet(Before(a)) /\ Cardinality(Before(a)) \in Nat
    <2>1. IsFiniteSet(Free)
      BY Zenon, FS_Subset
    <2> HIDE DEF Free
    <2> QED
      BY Zenon, <2>1, FS_Subset, FS_CardinalityType
  <1>2. Counts \in SUBSET Nat /\ Counts # {}
    <2>1. x \in Free
      BY Zenon
    <2> HIDE DEF Free, Before
    <2> QED
      BY ZenonT(30), <1>1, <2>1
  <1>3. PICK m \in Counts : \A k \in Counts : m <= k
    <2> HIDE DEF Counts
    <2> QED
      BY Zenon, <1>2, SmallestOf
  <1>4. PICK a \in Free : m = Cardinality(Before(a))
    BY Zenon
  <1>5. ASSUME NEW b \in Free, b # a, <<a, b>> \notin ord PROVE FALSE
    <2>1. <<b, a>> \in ord
      BY Zenon, <1>5 DEF OrderedBy
    <2>2. Before(b) \subseteq Before(a) /\ b \in Before(a) /\ b \notin Before(b)
      BY Zenon, <2>1 DEF OrderedBy
    <2> HIDE DEF Before, Free
    <2>3. Cardinality(Before(b)) < Cardinality(Before(a))
      BY <1>1, <2>2, FS_Subset
    <2>4. Cardinality(Before(b)) \in Counts
      BY Zenon
    <2> HIDE DEF Counts
    <2>5. m <= Cardinality(Before(b)) /\ m \in Nat
      BY Zenon, <1>2, <1>3, <2>4
    <2> QED
      BY <1>1, <1>4, <2>3, <2>5
  <1>6. a \in LruUnpinned(reg, ord)
    BY Zenon, <1>5 DEF LruUnpinned
  <1> QED
    BY Zenon, <1>6

(* More adapters than may be loaded are not all pinned.                     *)
LEMMA SomeUnpinned ==
  ASSUME PinnedFit, NEW reg \in SUBSET Ids, IsFiniteSet(reg), Cardinality(reg) > MaxLoadedLoras,
         \A a, b \in reg : NameOf(a) = NameOf(b) => a = b
  PROVE  \E x \in reg : ~Pinned(x)
  <1> SUFFICES ASSUME \A x \in reg : Pinned(x) PROVE FALSE
    BY Zenon
  <1> DEFINE f == [a \in reg |-> NameOf(a)]
  <1>1. f \in Injection(reg, PinnedNames)
    BY Zenon DEF Injection, IsInjective, Pinned
  <1> HIDE DEF f
  <1>2. Cardinality(reg) <= Cardinality(PinnedNames)
    BY Zenon, <1>1, FS_Injection DEF PinnedFit
  <1> QED
    BY <1>2, FS_CardinalityType DEF PinnedFit

(* The positions at which a sequence names x have a last one.               *)
LEMMA LastPosition ==
  ASSUME NEW S, NEW q \in Seq(S), NEW x \in {q[i] : i \in DOMAIN q}
  PROVE  \E i \in DOMAIN q : q[i] = x /\ \A j \in DOMAIN q : q[j] = x => j <= i
  <1> DEFINE T == {Len(q) - i : i \in {j \in DOMAIN q : q[j] = x}}
  <1>1. DOMAIN q = 1..Len(q) /\ Len(q) \in Nat
    OBVIOUS
  <1>2. T \in SUBSET Nat /\ T # {}
    BY <1>1
  <1>3. PICK m \in T : \A y \in T : m <= y
    <2> HIDE DEF T
    <2> QED
      BY Zenon, <1>2, SmallestOf
  <1>4. PICK i \in DOMAIN q : q[i] = x /\ m = Len(q) - i
    BY Zenon, <1>3
  <1>5. ASSUME NEW j \in DOMAIN q, q[j] = x PROVE j <= i
    <2>1. Len(q) - j \in T
      BY Zenon, <1>5
    <2>2. m <= Len(q) - j
      BY Zenon, <1>3, <2>1
    <2> QED
      BY <1>1, <1>4, <2>2
  <1> QED
    BY Zenon, <1>4, <1>5

(* move_to_end keeps a total order: the adapters that were moved come last, *)
(* by their last use.                                                       *)
LEMMA MoveOrdered ==
  ASSUME OrderedBy(registry, lru), NEW q \in Seq(registry)
  PROVE  OrderedBy(registry, MoveToEnd(q))
  <1> DEFINE last(x) == CHOOSE i \in DOMAIN q : q[i] = x /\ \A j \in DOMAIN q : q[j] = x => j <= i
             moved == {q[i] : i \in DOMAIN q}
  <1>1. \A x \in moved : last(x) \in DOMAIN q /\ q[last(x)] = x
    <2> SUFFICES ASSUME NEW x \in moved PROVE last(x) \in DOMAIN q /\ q[last(x)] = x
      BY Zenon
    <2>1. \E i \in DOMAIN q : q[i] = x /\ \A j \in DOMAIN q : q[j] = x => j <= i
      BY Zenon, LastPosition
    <2> QED
      BY Zenon, <2>1
  <1>2. \A a, b \in registry : <<a, b>> \in MoveToEnd(q) <=>
          /\ a # b
          /\ IF b \in moved THEN a \in moved => last(a) < last(b)
                            ELSE a \notin moved /\ <<a, b>> \in lru
    BY DEF MoveToEnd
  <1>3. DOMAIN q \subseteq Nat
    OBVIOUS
  <1> HIDE DEF last, moved
  <1>4. \A a, b \in moved : a = b \/ last(a) < last(b) \/ last(b) < last(a)
    BY <1>1, <1>3
  <1>5. \A a, b, c \in moved : last(a) < last(b) /\ last(b) < last(c) => last(a) < last(c) /\ a # c
    BY <1>1, <1>3
  <1>6. \A a \in registry : <<a, a>> \notin MoveToEnd(q)
    BY Zenon, <1>2
  <1>7. \A a, b \in registry : a = b \/ <<a, b>> \in MoveToEnd(q) \/ <<b, a>> \in MoveToEnd(q)
    BY Zenon, <1>2, <1>4 DEF OrderedBy
  <1>8. ASSUME NEW a \in registry, NEW b \in registry, NEW c \in registry,
               <<a, b>> \in MoveToEnd(q), <<b, c>> \in MoveToEnd(q)
        PROVE  <<a, c>> \in MoveToEnd(q)
    <2>1. a # b /\ b # c
      BY Zenon, <1>2, <1>8
    <2>2. CASE c \in moved
      <3>1. CASE a \in moved
        <4>1. b \in moved /\ last(a) < last(b) /\ last(b) < last(c)
          BY Zenon, <1>2, <1>8, <2>2, <3>1
        <4> QED
          BY Zenon, <1>2, <1>5, <2>2, <3>1, <4>1
      <3>2. CASE a \notin moved
        BY Zenon, <1>2, <2>2, <3>2
      <3> QED
        BY Zenon, <3>1, <3>2
    <2>3. CASE c \notin moved
      <3>1. /\ b \notin moved /\ a \notin moved /\ <<b, c>> \in lru /\ <<a, b>> \in lru
        BY Zenon, <1>2, <1>8, <2>3
      <3>2. <<a, c>> \in lru /\ a # c
        BY Zenon, <3>1 DEF OrderedBy
      <3> QED
        BY Zenon, <1>2, <2>3, <3>1, <3>2
    <2> QED
      BY Zenon, <2>2, <2>3
  <1> QED
    BY Zenon, <1>6, <1>7, <1>8 DEF OrderedBy

(* One adapter too many is evicted at once; otherwise nothing is.           *)
LEMMA EvictWithin ==
  ASSUME PinnedFit, NEW t \in Tasks, NEW reg \in SUBSET Ids, NEW order, NEW ok \in BOOLEAN,
         IsFiniteSet(reg), Cardinality(reg) <= MaxLoadedLoras + 1, OrderedBy(reg, order),
         \A a, b \in reg : NameOf(a) = NameOf(b) => a = b,
         EvictOrReturn(t, reg, order, ok)
  PROVE  Within'
  <1>1. CASE Cardinality(reg) > MaxLoadedLoras
    <2>1. \E x \in reg : ~Pinned(x)
      BY Zenon, <1>1, SomeUnpinned
    <2>2. LruUnpinned(reg, order) # {}
      BY Zenon, <2>1, EvictableExists
    <2>3. PICK id \in LruUnpinned(reg, order) :
            registry' = reg \ {id} /\ lru' = {p \in order : id \notin {p[1], p[2]}}
      BY Zenon, <1>1, <2>2 DEF EvictOrReturn
    <2>4. id \in reg
      BY Zenon DEF LruUnpinned
    <2>5. IsFiniteSet(registry') /\ Cardinality(registry') = Cardinality(reg) - 1
      BY Zenon, <2>3, <2>4, FS_RemoveElement
    <2>6. Cardinality(reg) \in Nat
      BY Zenon, FS_CardinalityType
    <2>7. OrderedBy(registry', lru')
      BY Zenon, <2>3 DEF OrderedBy
    <2> QED
      BY <2>5, <2>6, <2>7 DEF Within
  <1>2. CASE ~(Cardinality(reg) > MaxLoadedLoras)
    <2>1. registry' = reg /\ lru' = order
      BY Zenon, <1>2 DEF EvictOrReturn
    <2>2. Cardinality(reg) \in Nat
      BY Zenon, FS_CardinalityType
    <2> QED
      BY <1>2, <2>1, <2>2 DEF Within
  <1> QED
    BY Zenon, <1>1, <1>2

(* What an update finds in a registry that is within its limit.              *)
LEMMA WithinProps ==
  ASSUME BaseInv, Within
  PROVE  /\ registry \in SUBSET Ids /\ \A a, b \in registry : NameOf(a) = NameOf(b) => a = b
         /\ IsFiniteSet(registry) /\ Cardinality(registry) \in Nat
         /\ Cardinality(registry) <= MaxLoadedLoras + 1 /\ OrderedBy(registry, lru)
         /\ lru \subseteq registry \X registry
  <1>1. registry \in SUBSET Ids /\ lru \subseteq registry \X registry
    BY Zenon DEF BaseInv, TypeOK
  <1>2. \A a, b \in registry : NameOf(a) = NameOf(b) => a = b
    BY Zenon DEF BaseInv, RegistryCounted
  <1>3. IsFiniteSet(registry) /\ OrderedBy(registry, lru) /\ Cardinality(registry) <= MaxLoadedLoras
    BY Zenon DEF Within
  <1>4. Cardinality(registry) \in Nat
    BY Zenon, <1>3, FS_CardinalityType
  <1>5. Cardinality(registry) <= MaxLoadedLoras + 1
    BY SMTT(30), <1>3, <1>4
  <1> QED
    BY Zenon, <1>1, <1>2, <1>3, <1>4, <1>5

(* An adapter that is registered beyond the limit has another one evicted in
   the same step.                                                         *)
LEMMA WithinLoadReply ==
  ASSUME PinnedFit, BaseInv, Within, NEW t \in Tasks, LoadReply(t)
  PROVE  Within'
  <1>1. /\ registry \in SUBSET Ids /\ \A a, b \in registry : NameOf(a) = NameOf(b) => a = b
        /\ IsFiniteSet(registry) /\ Cardinality(registry) \in Nat
        /\ Cardinality(registry) <= MaxLoadedLoras + 1 /\ OrderedBy(registry, lru)
        /\ lru \subseteq registry \X registry
    BY Zenon, WithinProps
  <1> DEFINE id == op[t].id
  <1>2. CASE Head(replies) = "ok" /\ Registered(NameOf(id))
    BY Zenon, <1>2 DEF LoadReply, registryVars, Within
  <1>3. CASE Head(replies) = "ok" /\ ~Registered(NameOf(id))
    <2> DEFINE reg == registry \cup {id}
               ord == lru \cup (registry \X {id})
    <2>1. EvictOrReturn(t, reg, ord, TRUE)
      BY Zenon, <1>3 DEF LoadReply
    <2>2. id \in Ids /\ id \notin registry
      BY Zenon, <1>3 DEF LoadReply, BaseInv, Exclusive, Busy, Registered
    <2>3. IsFiniteSet(reg) /\ Cardinality(reg) = Cardinality(registry) + 1
      BY Zenon, <1>1, <2>2, FS_AddElement
    <2>4. OrderedBy(reg, ord)
      BY <1>1, <2>2 DEF OrderedBy
    <2>5. reg \in SUBSET Ids /\ \A a, b \in reg : NameOf(a) = NameOf(b) => a = b
      BY Zenon, <1>1, <1>3, <2>2 DEF Registered
    <2>6. Cardinality(reg) <= MaxLoadedLoras + 1
      BY <1>1, <2>3 DEF Within
    <2> HIDE DEF reg, ord
    <2> QED
      BY ZenonT(30), <2>1, <2>3, <2>4, <2>5, <2>6, EvictWithin DEF EvictOrReturn
  <1>4. CASE Head(replies) # "ok"
    <2>1. EvictOrReturn(t, registry, lru, Head(replies) = "already")
      BY Zenon, <1>4 DEF LoadReply
    <2>2. CASE EvictOrReturn(t, registry, lru, TRUE)
      BY ZenonT(30), <1>1, <2>2, EvictWithin DEF EvictOrReturn
    <2>3. CASE EvictOrReturn(t, registry, lru, FALSE)
      BY ZenonT(30), <1>1, <2>3, EvictWithin DEF EvictOrReturn
    <2>4. CASE Head(replies) = "already"
      BY Zenon, <2>1, <2>2, <2>4 DEF EvictOrReturn, Return
    <2>5. CASE Head(replies) # "already"
      BY Zenon, <2>1, <2>3, <2>5 DEF EvictOrReturn, Return
    <2> QED
      BY Zenon, <2>4, <2>5
  <1> QED
    BY Zenon, <1>2, <1>3, <1>4

(* Taking an adapter out keeps the registry within its limit.             *)
LEMMA WithinUnload ==
  ASSUME PinnedFit, BaseInv, Within, NEW t \in Tasks, UnloadLocked(t) \/ UnloadReply(t)
  PROVE  Within'
  <1>1. /\ registry \in SUBSET Ids /\ \A a, b \in registry : NameOf(a) = NameOf(b) => a = b
        /\ IsFiniteSet(registry) /\ Cardinality(registry) \in Nat
        /\ Cardinality(registry) <= MaxLoadedLoras + 1 /\ OrderedBy(registry, lru)
    BY Zenon, WithinProps
  <1>2. CASE UNCHANGED <<registry, lru>>
    BY Zenon, <1>2 DEF Within
  <1>3. ASSUME NEW id \in registry, registry' = registry \ {id},
               lru' = {p \in lru : id \notin {p[1], p[2]}}
        PROVE  Within'
    <2>1. IsFiniteSet(registry') /\ Cardinality(registry') = Cardinality(registry) - 1
      BY Zenon, <1>1, <1>3, FS_RemoveElement
    <2>2. OrderedBy(registry', lru')
      BY ZenonT(30), <1>1, <1>3 DEF OrderedBy
    <2> QED
      BY <1>1, <2>1, <2>2 DEF Within
  <1>4. CASE UnloadLocked(t)
    <2>1. Registered(op[t].name) => IdOf(op[t].name) \in registry
      BY Zenon DEF Registered, IdOf
    <2> QED
      BY Zenon, <1>2, <1>3, <1>4, <2>1 DEF UnloadLocked
  <1>5. CASE UnloadReply(t)
    <2>1. \/ UNCHANGED <<registry, lru>>
          \/ EvictOrReturn(t, registry, lru, op[t].ok)
      BY Zenon, <1>5 DEF UnloadReply
    <2>2. op[t].ok \in BOOLEAN
      <3>1. op[t] \in OpType
        BY Zenon, TypesOfCalls
      <3> QED
        BY Zenon, <3>1 DEF OpType
    <2>3. CASE EvictOrReturn(t, registry, lru, TRUE)
      BY ZenonT(30), <1>1, <2>3, EvictWithin DEF EvictOrReturn
    <2>4. CASE EvictOrReturn(t, registry, lru, FALSE)
      BY ZenonT(30), <1>1, <2>4, EvictWithin DEF EvictOrReturn
    <2> QED
      BY Zenon, <1>2, <2>1, <2>2, <2>3, <2>4 DEF EvictOrReturn, Return
  <1> QED
    BY Zenon, <1>4, <1>5

(* The lookups of Start and Acquire touch registered adapters.              *)
LEMMA WithinLookup ==
  ASSUME BaseInv, Within, NEW c \in Calls, Start(c) \/ Acquire(c)
  PROVE  Within'
  <1>1. registry' = registry
    BY Zenon DEF Start, Acquire
  <1>2. CASE lru' = lru
    BY Zenon, <1>1, <1>2 DEF Within
  <1>3. ASSUME NEW q \in Seq(registry), lru' = MoveToEnd(q) PROVE Within'
    BY Zenon, <1>1, <1>3, MoveOrdered DEF Within
  <1>4. CASE Acquire(c)
    <2>1. call[c] \in CallType
      BY Zenon, TypesOfCalls
    <2>2. call[c].path \in Seq(Names)
      BY Zenon, <2>1 DEF CallType
    <2>3. Found(call[c].path) \in Seq(registry) /\ lru' = MoveToEnd(Found(call[c].path))
      BY Zenon, <1>4, <2>2, FoundSome DEF Acquire
    <2> QED
      BY Zenon, <1>3, <2>3
  <1>5. CASE Start(c)
    <2> DEFINE NamesOf(path) == {path[i] : i \in DOMAIN path}
               Hits(path) == {IdOf(n) : n \in {m \in NamesOf(path) : Registered(m)}}
    <2>1. PICK path \in Paths : lru' = lru \/ \E q \in Listings(Hits(path)) : lru' = MoveToEnd(q)
      BY Zenon, <1>5 DEF Start
    <2>2. Hits(path) \subseteq registry
      BY Zenon DEF Registered, IdOf
    <2>3. IsFiniteSet(Hits(path)) /\ Cardinality(Hits(path)) \in Nat
      BY Zenon, <2>2, FS_Subset, FS_CardinalityType DEF Within
    <2> HIDE DEF Hits
    <2>4. \A q \in Listings(Hits(path)) : q \in Seq(registry)
      BY <2>2, <2>3 DEF Listings
    <2> QED
      BY Zenon, <1>2, <1>3, <2>1, <2>4
  <1> QED
    BY Zenon, <1>4, <1>5

(* Every step keeps the registry within its limit.                        *)
LEMMA WithinStep ==
  ASSUME PinnedFit, BaseInv, Within, [Next]_vars
  PROVE  Within'
  <1>1. ASSUME UNCHANGED <<registry, lru>> PROVE Within'
    BY Zenon, <1>1 DEF Within
  <1>2. CASE \E t \in Ctls : BeginControl(t)
    BY Zenon, <1>1, <1>2 DEF BeginControl, registryVars
  <1>3. CASE \E t \in Tasks : UpdateStep(t)
    <2>1. PICK t \in Tasks : UpdateStep(t)
      BY Zenon, <1>3
    <2>2. CASE SendLoad(t) \/ WaitForUnload(t)
      BY Zenon, <1>1, <2>2 DEF SendLoad, WaitForUnload, registryVars
    <2> QED
      BY Zenon, <2>1, <2>2, WithinLoadReply, WithinUnload DEF UpdateStep
  <1>4. CASE Backend \/ DropReply
    BY Zenon, <1>1, <1>4 DEF Backend, DropReply, registryVars
  <1>5. CASE \E c \in Calls : Start(c) \/ CallStep(c) \/ Fail(c)
    <2>1. PICK c \in Calls : Start(c) \/ CallStep(c) \/ Fail(c)
      BY Zenon, <1>5
    <2>2. CASE Reload(c) \/ Increment(c) \/ Dispatch(c) \/ EndRequest(c) \/ Release(c) \/ Fail(c)
      BY Zenon, <1>1, <2>2 DEF Reload, Increment, Dispatch, EndRequest, Release, Fail, registryVars
    <2> QED
      BY Zenon, <2>1, <2>2, WithinLookup DEF CallStep
  <1>6. CASE UNCHANGED vars
    BY Zenon, <1>1, <1>6 DEF vars
  <1> QED
    BY Zenon, <1>2, <1>3, <1>4, <1>5, <1>6, Zenon DEF Next

-----------------------------------------------------------------------------
(* The two-phase update: what the scheduler has loaded, at every point of   *)
(* an update that nobody abandons.                                          *)

(* No client goes away during an update, and no unload fails in the        *)
(* scheduler.                                                               *)
Orderly == Disconnects = FALSE /\ UnloadFails = FALSE

(* The update under way awaits one message or one reply, its own.           *)
InStep ==
  /\ (\A t \in Tasks : ~Awaiting(t)) => wire = <<>> /\ replies = <<>>
  /\ \A t \in Tasks : Awaiting(t) =>
       \/ /\ replies = <<>> /\ Len(wire) = 1 /\ wire[1].id = op[t].id
          /\ wire[1].kind = IF pc[t] = "load_sent" THEN "load" ELSE "unload"
       \/ wire = <<>> /\ Len(replies) = 1

Answered(r) == replies # <<>> /\ replies[1] = r

Mirrored(t) ==
  /\ pc[t] = "load_sent" =>
       IF Answered("ok") THEN backend = registry \cup {op[t].id} /\ ~Registered(NameOf(op[t].id))
                         ELSE backend = registry
  /\ pc[t] = "unload_wait" => backend = registry \cup {op[t].id}
  /\ pc[t] = "unload_sent" =>
       IF replies = <<>> THEN backend = registry \cup {op[t].id} /\ op[t].id \notin registry
                         ELSE replies[1] = "ok" /\ backend = registry

Synced ==
  /\ InStep
  /\ (\A t \in Tasks : pc[t] \notin Busy) => backend = registry
  /\ \A t \in Tasks : Mirrored(t)

(* A step of the lock's holder: nobody else is inside an update.            *)
LEMMA HolderSyncs ==
  ASSUME BaseInv, NEW t \in Tasks, Holds(t),
         \A x \in Tasks \ {t} : pc'[x] = pc[x],
         ~Awaiting(t)' => wire' = <<>> /\ replies' = <<>>,
         Awaiting(t)' =>
           \/ /\ replies' = <<>> /\ Len(wire') = 1 /\ wire'[1].id = op'[t].id
              /\ wire'[1].kind = IF pc'[t] = "load_sent" THEN "load" ELSE "unload"
           \/ wire' = <<>> /\ Len(replies') = 1,
         pc'[t] \notin Busy => backend' = registry',
         Mirrored(t)'
  PROVE  Synced'
  <1>1. \A x \in Tasks \ {t} : pc'[x] \notin Busy
    BY Zenon DEF BaseInv, Exclusive, Holds
  <1>2. \A x \in Tasks \ {t} : ~Awaiting(x)' /\ Mirrored(x)'
    BY Zenon, <1>1 DEF Busy, Awaiting, Mirrored
  <1>3. InStep'
    BY Zenon, <1>2 DEF InStep
  <1> QED
    BY Zenon, <1>2, <1>3 DEF Synced

(* A step outside the updates.                                              *)
LEMMA OthersSync ==
  ASSUME Synced, UNCHANGED <<wire, replies, backend, registry>>,
         \A x \in Tasks : \/ pc'[x] = pc[x] /\ op'[x] = op[x]
                          \/ pc[x] \notin Busy /\ pc'[x] \notin Busy
  PROVE  Synced'
  <1>1. \A x \in Tasks : (Awaiting(x)' <=> Awaiting(x)) /\ (pc'[x] \in Busy <=> pc[x] \in Busy)
    BY Zenon DEF Awaiting, Busy
  <1>2. \A x \in Tasks : Awaiting(x) => pc'[x] = pc[x] /\ op'[x] = op[x]
    BY Zenon DEF Awaiting, Busy
  <1>3. InStep'
    BY ZenonT(30), <1>1, <1>2 DEF Synced, InStep
  <1>4. \A x \in Tasks : Mirrored(x)'
    BY ZenonT(30) DEF Synced, Mirrored, Busy, Answered, Registered
  <1> QED
    BY Zenon, <1>1, <1>3, <1>4 DEF Synced

(* Nobody is inside an update while the holder has yet to begin its own.    *)
LEMMA NobodyBusy ==
  ASSUME BaseInv, Synced, NEW t \in Tasks, Holds(t), pc[t] = "lock"
  PROVE  wire = <<>> /\ replies = <<>> /\ backend = registry
  <1>1. \A x \in Tasks : pc[x] \notin Busy
    BY Zenon DEF BaseInv, Exclusive, Holds, Busy
  <1> QED
    BY Zenon, <1>1 DEF Synced, InStep, Awaiting, Busy

(* The loop on max_loaded_loras loses no adapter: the one it takes out of   *)
(* the registry is the one it unloads.                                      *)
LEMMA EvictExact ==
  ASSUME BaseInv, NEW t \in Tasks, NEW reg, NEW order, NEW ok, EvictOrReturn(t, reg, order, ok)
  PROVE  /\ \A x \in Tasks \ {t} : pc'[x] = pc[x]
         /\ \/ pc'[t] = "unload_wait" /\ reg = registry' \cup {op'[t].id}
            \/ pc'[t] \in {"idle", "resolve", "error"} /\ registry' = reg
  <1>1. pc \in [Tasks -> PcType] /\ op[t] \in OpType /\ op \in [Tasks -> OpType]
    BY Zenon, TypesOfCalls
  <1>2. CASE Cardinality(reg) > MaxLoadedLoras /\ LruUnpinned(reg, order) # {}
    <2>1. PICK id \in LruUnpinned(reg, order) :
             /\ registry' = reg \ {id}
             /\ pc' = [pc EXCEPT ![t] = "unload_wait"]
             /\ op' = [op EXCEPT ![t] = [@ EXCEPT !.id = id, !.ok = ok]]
      BY Zenon, <1>2 DEF EvictOrReturn
    <2>2. id \in reg
      BY Zenon DEF LruUnpinned
    <2> DEFINE r == [op[t] EXCEPT !.id = id, !.ok = ok]
    <2>3. r.id = id
      BY Zenon, <1>1 DEF OpType
    <2>4. op' = [op EXCEPT ![t] = r]
      BY Zenon, <2>1
    <2> HIDE DEF r
    <2>5. op'[t].id = id
      BY Zenon, <1>1, <2>3, <2>4
    <2> QED
      BY Zenon, <1>1, <2>1, <2>2, <2>5
  <1>3. CASE ~(Cardinality(reg) > MaxLoadedLoras /\ LruUnpinned(reg, order) # {})
    <2>1. /\ registry' = reg
          /\ \E w \in {"idle", "resolve", "error"} : pc' = [pc EXCEPT ![t] = w]
      BY Zenon, <1>3 DEF EvictOrReturn, Return
    <2> QED
      BY Zenon, <1>1, <2>1
  <1> QED
    BY Zenon, <1>2, <1>3

(* After a reply the update is back in step with the scheduler.             *)
LEMMA EvictSyncs ==
  ASSUME BaseInv, NEW t \in Tasks, Holds(t), NEW reg, NEW order, NEW ok,
         EvictOrReturn(t, reg, order, ok), backend = reg, backend' = backend,
         wire' = <<>>, replies' = <<>>
  PROVE  Synced'
  <1>1. /\ \A x \in Tasks \ {t} : pc'[x] = pc[x]
        /\ \/ pc'[t] = "unload_wait" /\ reg = registry' \cup {op'[t].id}
           \/ pc'[t] \in {"idle", "resolve", "error"} /\ registry' = reg
    BY Zenon, EvictExact DEF EvictOrReturn
  <1>2. ~Awaiting(t)' /\ Mirrored(t)' /\ (pc'[t] \notin Busy => backend' = registry')
    BY Zenon, <1>1 DEF Awaiting, Mirrored, Busy
  <1> QED
    BY Zenon, <1>1, <1>2, HolderSyncs

(* An update that returns leaves the scheduler with the registered adapters.*)
LEMMA ReturnSyncs ==
  ASSUME BaseInv, NEW t \in Tasks, Holds(t), NEW ok, Return(t, ok), backend = registry,
         UNCHANGED <<registry, backend>>, wire' = <<>>, replies' = <<>>
  PROVE  Synced'
  <1>1. /\ pc'[t] \in {"idle", "resolve", "error"} /\ \A x \in Tasks \ {t} : pc'[x] = pc[x]
    BY Zenon, TypesOfCalls DEF Return
  <1>2. ~Awaiting(t)' /\ Mirrored(t)'
    BY Zenon, <1>1 DEF Awaiting, Mirrored
  <1> QED
    BY Zenon, <1>1, <1>2, HolderSyncs

(* A request to the scheduler is the only message under way.              *)
LEMMA SendSyncs ==
  ASSUME BaseInv, Synced, NEW t \in Tasks, SendLoad(t) \/ WaitForUnload(t)
  PROVE  Synced'
  <1>1. UNCHANGED <<registry, backend, replies>>
    BY Zenon DEF SendLoad, WaitForUnload, registryVars
  <1>2. CASE SendLoad(t)
    <2>1. PICK id \in Ids \ used :
            /\ wire' = Append(wire, [kind |-> "load", id |-> id])
            /\ op' = [op EXCEPT ![t].id = id]
      BY Zenon, <1>2 DEF SendLoad
    <2>2. Holds(t) /\ pc[t] = "lock" /\ pc' = [pc EXCEPT ![t] = "load_sent"]
      BY Zenon, <1>2 DEF SendLoad
    <2>3. wire = <<>> /\ replies = <<>> /\ backend = registry
      BY Zenon, <2>2, NobodyBusy
    <2>4. op'[t].id = id
      <3>1. op[t] \in OpType /\ op \in [Tasks -> OpType]
        BY Zenon, TypesOfCalls
      <3> QED
        BY Zenon, <2>1, <3>1 DEF OpType
    <2>5. Len(wire') = 1 /\ wire'[1].id = id /\ wire'[1].kind = "load"
      BY <2>1, <2>3
    <2>6. pc'[t] = "load_sent" /\ \A x \in Tasks \ {t} : pc'[x] = pc[x]
      BY Zenon, <2>2, TypesOfCalls
    <2>7. Mirrored(t)' /\ Awaiting(t)' /\ pc'[t] \in Busy
      BY Zenon, <1>1, <2>3, <2>6 DEF Mirrored, Answered, Awaiting, Busy
    <2> QED
      BY Zenon, <1>1, <2>2, <2>3, <2>4, <2>5, <2>6, <2>7, HolderSyncs
  <1>3. CASE WaitForUnload(t)
    <2>1. /\ pc[t] = "unload_wait" /\ op' = op /\ pc' = [pc EXCEPT ![t] = "unload_sent"]
          /\ wire' = Append(wire, [kind |-> "unload", id |-> op[t].id])
      BY Zenon, <1>3 DEF WaitForUnload
    <2>2. Holds(t) /\ op[t].id \notin registry /\ backend = registry \cup {op[t].id}
      BY Zenon, <2>1 DEF BaseInv, Exclusive, Busy, Synced, Mirrored
    <2>3. wire = <<>> /\ replies = <<>>
      <3>1. \A x \in Tasks : ~Awaiting(x)
        BY Zenon, <2>1, <2>2 DEF BaseInv, Exclusive, Busy, Awaiting, Holds
      <3> QED
        BY Zenon, <3>1 DEF Synced, InStep
    <2>4. Len(wire') = 1 /\ wire'[1].id = op'[t].id /\ wire'[1].kind = "unload"
      BY <2>1, <2>3
    <2>5. pc'[t] = "unload_sent" /\ \A x \in Tasks \ {t} : pc'[x] = pc[x]
      BY Zenon, <2>1, TypesOfCalls
    <2>6. Mirrored(t)' /\ Awaiting(t)' /\ pc'[t] \in Busy
      BY Zenon, <1>1, <2>1, <2>2, <2>3, <2>5 DEF Mirrored, Awaiting, Busy
    <2> QED
      BY Zenon, <1>1, <2>2, <2>3, <2>4, <2>5, <2>6, HolderSyncs
  <1> QED
    BY Zenon, <1>2, <1>3

(* The answer to a load leaves the registry with what the scheduler has.  *)
LEMMA LoadReplySyncs ==
  ASSUME BaseInv, Synced, NEW t \in Tasks, LoadReply(t)
  PROVE  Synced'
  <1>1. pc[t] = "load_sent" /\ replies # <<>> /\ replies' = Tail(replies) /\ UNCHANGED <<wire, backend>>
    BY Zenon DEF LoadReply
  <1>2. Holds(t) /\ Awaiting(t) /\ Mirrored(t)
    BY Zenon, <1>1 DEF BaseInv, Exclusive, Busy, Awaiting, Synced
  <1>3. wire = <<>> /\ Len(replies) = 1 /\ replies \in Seq({"ok", "already", "other"})
    BY Zenon, <1>1, <1>2 DEF Synced, InStep, BaseInv, TypeOK
  <1>4. replies' = <<>> /\ Head(replies) = replies[1] /\ wire' = <<>>
    BY Zenon, <1>1, <1>3, TailOfOne
  <1> DEFINE id == op[t].id
  <1>5. CASE Head(replies) = "ok"
    <2>1. backend = registry \cup {id} /\ ~Registered(NameOf(id))
      BY Zenon, <1>1, <1>2, <1>4, <1>5 DEF Mirrored, Answered
    <2>2. EvictOrReturn(t, registry \cup {id}, lru \cup (registry \X {id}), TRUE)
      BY Zenon, <1>5, <2>1 DEF LoadReply
    <2> HIDE DEF id
    <2> QED
      BY ZenonT(30), <1>1, <1>2, <1>4, <2>1, <2>2, EvictSyncs DEF EvictOrReturn
  <1>6. CASE Head(replies) # "ok"
    <2>1. backend = registry
      BY Zenon, <1>1, <1>2, <1>4, <1>6 DEF Mirrored, Answered
    <2>2. EvictOrReturn(t, registry, lru, Head(replies) = "already")
      BY Zenon, <1>6 DEF LoadReply
    <2> QED
      BY ZenonT(30), <1>1, <1>2, <1>4, <2>1, <2>2, EvictSyncs DEF EvictOrReturn
  <1> QED
    BY Zenon, <1>5, <1>6

(* The answer to an unload leaves the registry with what the scheduler has.*)
LEMMA UnloadReplySyncs ==
  ASSUME BaseInv, Synced, NEW t \in Tasks, UnloadReply(t)
  PROVE  Synced'
  <1>1. pc[t] = "unload_sent" /\ replies # <<>> /\ replies' = Tail(replies) /\ UNCHANGED <<wire, backend>>
    BY Zenon DEF UnloadReply
  <1>2. Holds(t) /\ Awaiting(t) /\ Mirrored(t)
    BY Zenon, <1>1 DEF BaseInv, Exclusive, Busy, Awaiting, Synced
  <1>3. wire = <<>> /\ Len(replies) = 1 /\ replies \in Seq({"ok", "already", "other"})
    BY Zenon, <1>1, <1>2 DEF Synced, InStep, BaseInv, TypeOK
  <1>4. replies' = <<>> /\ Head(replies) = replies[1] /\ wire' = <<>>
    BY Zenon, <1>1, <1>3, TailOfOne
  <1>5. backend = registry
    BY Zenon, <1>1, <1>2 DEF Mirrored
  <1>6. CASE EvictOrReturn(t, registry, lru, op[t].ok)
    BY ZenonT(30), <1>1, <1>2, <1>4, <1>5, <1>6, EvictSyncs DEF EvictOrReturn
  <1>7. CASE Return(t, FALSE) /\ UNCHANGED <<registry, lru>>
    BY Zenon, <1>1, <1>2, <1>4, <1>5, <1>7, ReturnSyncs
  <1> QED
    BY Zenon, <1>6, <1>7 DEF UnloadReply

(* An adapter leaves the registry before the scheduler drops it.          *)
LEMMA UnloadLockedSyncs ==
  ASSUME BaseInv, Synced, NEW t \in Tasks, UnloadLocked(t)
  PROVE  Synced'
  <1>1. pc[t] = "lock" /\ Holds(t) /\ UNCHANGED <<wire, replies, backend>>
    BY Zenon DEF UnloadLocked, backendVars
  <1>2. wire = <<>> /\ replies = <<>> /\ backend = registry
    BY Zenon, <1>1, NobodyBusy
  <1>3. CASE Registered(op[t].name)
    <2> DEFINE id == IdOf(op[t].name)
    <2>1. /\ registry' = registry \ {id} /\ pc' = [pc EXCEPT ![t] = "unload_wait"]
          /\ op' = [op EXCEPT ![t].id = id]
      BY Zenon, <1>3 DEF UnloadLocked
    <2>2. id \in registry
      BY Zenon, <1>3 DEF Registered, IdOf
    <2> HIDE DEF id
    <2>3. op'[t].id = id
      <3>1. op[t] \in OpType /\ op \in [Tasks -> OpType]
        BY Zenon, TypesOfCalls
      <3> QED
        BY Zenon, <2>1, <3>1 DEF OpType
    <2>4. pc'[t] = "unload_wait" /\ \A x \in Tasks \ {t} : pc'[x] = pc[x]
      BY Zenon, <2>1, TypesOfCalls
    <2>5. Mirrored(t)' /\ ~Awaiting(t)' /\ pc'[t] \in Busy
      BY Zenon, <1>1, <1>2, <2>1, <2>2, <2>3, <2>4 DEF Mirrored, Awaiting, Busy
    <2> QED
      BY Zenon, <1>1, <1>2, <2>4, <2>5, HolderSyncs
  <1>4. CASE ~Registered(op[t].name)
    <2>1. Return(t, FALSE) /\ UNCHANGED registry
      BY Zenon, <1>4 DEF UnloadLocked
    <2> QED
      BY Zenon, <1>1, <1>2, <2>1, ReturnSyncs
  <1> QED
    BY Zenon, <1>3, <1>4

(* The scheduler answers the one request under way, and has then the adapters
   that the update expects.                                               *)
LEMMA BackendSyncs ==
  ASSUME Orderly, BaseInv, Synced, Backend
  PROVE  Synced'
  <1>1. UNCHANGED <<registry, pc, op>> /\ wire # <<>> /\ wire' = Tail(wire)
    BY Zenon DEF Backend, registryVars
  <1>2. PICK t \in Tasks : Awaiting(t)
    BY Zenon, <1>1 DEF Synced, InStep
  <1>3. /\ replies = <<>> /\ Len(wire) = 1 /\ wire[1].id = op[t].id
        /\ wire[1].kind = IF pc[t] = "load_sent" THEN "load" ELSE "unload"
    BY Zenon, <1>1, <1>2 DEF Synced, InStep
  <1>4. Holds(t) /\ Mirrored(t) /\ pc[t] \in Busy /\ pc[t] \in {"load_sent", "unload_sent"}
    BY Zenon, <1>2 DEF BaseInv, Exclusive, Busy, Awaiting, Synced
  <1>5. wire' = <<>> /\ Head(wire) = wire[1]
    <2>1. wire \in Seq([kind : {"load", "unload"}, id : Ids])
      BY Zenon DEF BaseInv, TypeOK
    <2> QED
      BY Zenon, <1>1, <1>3, <2>1, TailOfOne
  <1>6. \A r : Append(replies, r) = <<r>>
    BY <1>3
  <1>7. Len(replies') = 1 /\ Mirrored(t)'
    <2>1. CASE pc[t] = "load_sent"
      <3>1. backend = registry /\ wire[1].kind = "load"
        BY Zenon, <1>3, <1>4, <2>1 DEF Mirrored, Answered
      <3>2. \/ replies' = <<"already">> /\ backend' = backend
            \/ replies' = <<"other">> /\ backend' = backend
            \/ /\ replies' = <<"ok">> /\ backend' = backend \cup {op[t].id}
               /\ ~\E id \in backend : NameOf(id) = NameOf(op[t].id)
        BY Zenon, <1>3, <1>5, <1>6, <3>1 DEF Backend
      <3> QED
        BY <1>1, <2>1, <3>1, <3>2 DEF Mirrored, Answered, Registered
    <2>2. CASE pc[t] = "unload_sent"
      <3>1. backend = registry \cup {op[t].id} /\ op[t].id \notin registry /\ wire[1].kind = "unload"
        BY Zenon, <1>3, <1>4, <2>2 DEF Mirrored
      <3>2. replies' = <<"ok">> /\ backend' = backend \ {op[t].id}
        BY Zenon, <1>3, <1>5, <1>6, <3>1 DEF Backend, Orderly
      <3> QED
        BY Zenon, <1>1, <2>2, <3>1, <3>2 DEF Mirrored
    <2> QED
      BY Zenon, <1>4, <2>1, <2>2
  <1> QED
    BY Zenon, <1>1, <1>2, <1>4, <1>5, <1>7, HolderSyncs DEF Awaiting

(* Queueing for the lock, the calls and the requests stay outside updates.  *)
LEMMA CallsSync ==
  ASSUME Orderly, BaseInv, Synced, NEW t \in Tasks,
         \/ t \in Ctls /\ BeginControl(t)
         \/ t \in Calls /\ (Start(t) \/ CallStep(t) \/ Fail(t))
  PROVE  Synced'
  <1>1. pc \in [Tasks -> PcType] /\ op \in [Tasks -> OpType]
    BY Zenon, TypesOfCalls
  <1>2. ASSUME UNCHANGED <<wire, replies, backend, registry>>, pc[t] \notin Busy,
               NEW w \in PcType \ Busy, pc' = [pc EXCEPT ![t] = w],
               op' = op \/ \E v : op' = [op EXCEPT ![t] = v]
        PROVE  Synced'
    <2>1. pc'[t] \notin Busy /\ \A x \in Tasks \ {t} : pc'[x] = pc[x] /\ op'[x] = op[x]
      BY Zenon, <1>1, <1>2
    <2> QED
      BY Zenon, <1>2, <2>1, OthersSync
  <1>3. /\ "lock" \in PcType \ Busy /\ "error" \in PcType \ Busy /\ "resolve" \in PcType \ Busy
        /\ "acquire" \in PcType \ Busy /\ "idle" \in PcType \ Busy
    BY Zenon DEF PcType, Busy
  <1>4. CASE BeginControl(t)
    BY Zenon, <1>2, <1>3, <1>4 DEF BeginControl, Enqueue, registryVars, backendVars
  <1>5. CASE Start(t)
    BY Zenon, <1>2, <1>3, <1>5 DEF Start, backendVars
  <1>6. CASE Reload(t)
    BY Zenon, <1>2, <1>3, <1>6 DEF Reload, Enqueue, registryVars, backendVars
  <1>7. CASE Acquire(t)
    BY Zenon, <1>2, <1>3, <1>7 DEF Acquire, backendVars
  <1>8. CASE Fail(t)
    <2>1. pc[t] = "acquire"
      BY Zenon, <1>8 DEF Fail, Orderly
    <2> QED
      BY Zenon, <1>2, <1>3, <1>8, <2>1 DEF Fail, registryVars, backendVars
  <1>9. CASE Increment(t) \/ Dispatch(t) \/ EndRequest(t) \/ Release(t)
    <2>1. UNCHANGED <<wire, replies, backend, registry, pc, op>>
      BY Zenon, <1>9 DEF Increment, Dispatch, EndRequest, Release, registryVars, backendVars
    <2> QED
      BY Zenon, <2>1, OthersSync
  <1> QED
    BY Zenon, <1>4, <1>5, <1>6, <1>7, <1>8, <1>9 DEF CallStep

(* Every step keeps the scheduler in step with the update under way.        *)
LEMMA SyncedStep ==
  ASSUME Orderly, BaseInv, Synced, [Next]_vars
  PROVE  Synced'
  <1>1. CASE \E t \in Ctls : BeginControl(t)
    BY Zenon, <1>1, CallsSync
  <1>2. CASE \E t \in Tasks : UpdateStep(t)
    BY Zenon, <1>2, SendSyncs, LoadReplySyncs, UnloadLockedSyncs, UnloadReplySyncs DEF UpdateStep
  <1>3. CASE Backend
    BY Zenon, <1>3, BackendSyncs
  <1>4. CASE DropReply
    BY Zenon, <1>4 DEF DropReply, Synced, InStep
  <1>5. CASE \E c \in Calls : Start(c) \/ CallStep(c) \/ Fail(c)
    BY Zenon, <1>5, CallsSync
  <1>6. CASE UNCHANGED vars
    BY Zenon, <1>6, OthersSync DEF vars
  <1> QED
    BY Zenon, <1>1, <1>2, <1>3, <1>4, <1>5, <1>6, Zenon DEF Next

(* The server starts with nothing loaded and nobody inside an update.       *)
LEMMA InitSynced ==
  ASSUME Init
  PROVE  Within /\ Synced
  <1>1. registry = {} /\ backend = {} /\ lru = {} /\ wire = <<>> /\ replies = <<>>
        /\ \A t \in Tasks : pc[t] = "idle"
    BY Zenon DEF Init
  <1>2. Within
    BY <1>1, FS_EmptySet DEF Within, OrderedBy
  <1>3. Synced
    BY Zenon, <1>1 DEF Synced, InStep, Awaiting, Mirrored
  <1> QED
    BY Zenon, <1>2, <1>3

(* While nobody abandons an update and no unload fails in the scheduler, the*)
(* registry and the scheduler agree whenever lora_update_lock is free,      *)
(* whatever loads, unloads, evictions and failing loads came before.        *)
THEOREM RegistryMatchesScheduler ==
  ASSUME Orderly
  PROVE  Spec => []EventuallyConsistent
  <1>1. Init => BaseInv /\ Synced
    BY Zenon, InitBase, InitSynced
  <1>2. BaseInv /\ Synced /\ [Next]_vars => (BaseInv /\ Synced)'
    BY Zenon, NextBase, SyncedStep
  <1>3. BaseInv /\ Synced => EventuallyConsistent
    <2> SUFFICES ASSUME BaseInv, Synced, lora_update_lock = <<>> PROVE registry = backend
      BY Zenon DEF EventuallyConsistent
    <2>1. \A t \in Tasks : pc[t] \notin Busy
      BY Zenon DEF BaseInv, Exclusive, Holds
    <2> QED
      BY Zenon, <2>1 DEF Synced
  <1> QED
    BY <1>1, <1>2, <1>3, PTL DEF Spec

(* The scheduler has at most one adapter more than the registry.            *)
LEMMA OneAdapterMore ==
  ASSUME BaseInv, Synced
  PROVE  backend = registry \/ \E id : backend = registry \cup {id}
  <1>1. CASE \A t \in Tasks : pc[t] \notin Busy
    BY Zenon, <1>1 DEF Synced
  <1>2. CASE \E t \in Tasks : pc[t] \in Busy
    <2>1. PICK t \in Tasks : pc[t] \in Busy
      BY Zenon, <1>2
    <2>2. Mirrored(t)
      BY Zenon DEF Synced
    <2> QED
      BY Zenon, <2>1, <2>2 DEF Mirrored, Busy
  <1> QED
    BY Zenon, <1>1, <1>2

(* --max-loaded-loras holds between updates and is exceeded by one adapter  *)
(* during one, as the pinned adapters alone fit the bound: the loop on      *)
(* max_loaded_loras always finds an adapter to evict.                       *)
THEOREM LoadedIsBounded ==
  ASSUME Orderly, PinnedFit
  PROVE  Spec => []LoadedBound
  <1>1. Init => BaseInv /\ Synced /\ Within
    BY Zenon, InitBase, InitSynced
  <1>2. BaseInv /\ Synced /\ Within /\ [Next]_vars => (BaseInv /\ Synced /\ Within)'
    BY Zenon, NextBase, SyncedStep, WithinStep
  <1>3. BaseInv /\ Synced /\ Within => LoadedBound
    <2> SUFFICES ASSUME BaseInv, Synced, Within PROVE LoadedBound
      BY Zenon
    <2>1. lora_update_lock = <<>> => registry = backend
      <3>1. lora_update_lock = <<>> => \A t \in Tasks : pc[t] \notin Busy
        BY Zenon DEF BaseInv, Exclusive, Holds
      <3> QED
        BY Zenon, <3>1 DEF Synced
    <2>2. IsFiniteSet(registry) /\ Cardinality(registry) <= MaxLoadedLoras
          /\ Cardinality(registry) \in Nat
      BY Zenon, FS_CardinalityType DEF Within
    <2>3. Cardinality(backend) <= MaxLoadedLoras + 1
      <3>1. CASE backend = registry
        BY <2>2, <3>1
      <3>2. CASE \E id : backend = registry \cup {id}
        <4>1. PICK id : backend = registry \cup {id}
          BY Zenon, <3>2
        <4>2. Cardinality(backend) \in {Cardinality(registry), Cardinality(registry) + 1}
          BY Zenon, <2>2, <4>1, FS_AddElement
        <4> QED
          BY <2>2, <4>2
      <3> QED
        BY Zenon, <3>1, <3>2, OneAdapterMore
    <2> QED
      BY Zenon, <2>1, <2>2, <2>3 DEF LoadedBound
  <1> QED
    BY <1>1, <1>2, <1>3, PTL DEF Spec
=============================================================================
