------------------------- MODULE LoRARegistryProofs -------------------------
(***************************************************************************)
(* InUseIsLoaded and CounterExact for any number of adapters, calls and    *)
(* control coroutines, when every call names one adapter, tokenization     *)
(* succeeds, no client goes away, and a request ends by an output without  *)
(* a 5xx abort or by an AbortReq echo with one.                            *)
(***************************************************************************)
EXTENDS LoRARegistryInv

USE ConstAssumption DEF Tasks, Subs, NameOf

Quiet ==
  /\ Kinds = {"str"} /\ Ends \subseteq {"output", "echo5xx"}
  /\ TokenizeFails = FALSE /\ Disconnects = FALSE

(* The requests that account for the value of a counter.                    *)
Users(id) == {s \in Subs : sub[s].id = id /\ (InUse(s) \/ sub[s].rel > 0)}

(* Only the holder of the lock is inside an update, and at most one message
   or one reply, its own, is under way.                                     *)
Serial ==
  /\ \A t \in Tasks : pc[t] \in Busy => Holds(t) /\ op[t].id \in Ids
  /\ (\A t \in Tasks : ~Awaiting(t)) => wire = <<>> /\ replies = <<>>
  /\ \A t \in Tasks : Awaiting(t) =>
       \/ /\ replies = <<>> /\ Len(wire) = 1 /\ wire[1].id = op[t].id
          /\ wire[1].kind = IF pc[t] = "load_sent" THEN "load" ELSE "unload"
       \/ /\ wire = <<>> /\ Len(replies) = 1
          /\ pc[t] = "load_sent" /\ replies[1] = "ok" => op[t].id \in backend

(* What the adapter of an update is known to be.                            *)
Updating ==
  \A t \in Tasks :
    /\ pc[t] = "load_sent" => op[t].id \in used \ counted
    /\ pc[t] = "unload_wait" => op[t].id \in counted \ registry
    /\ pc[t] = "unload_sent" => op[t].id \notin counted

CallsQuiet ==
  /\ \A c \in Calls : pc[c] \notin {"idle", "error"} =>
                      call[c].kind = "str" /\ Len(call[c].path) = 1
  /\ \A s \in Subs :
       /\ sub[s].st # "looked" /\ sub[s].rel <= 1
       /\ sub[s].st = "none" \/ pc[s[1]] = "acquire"
       /\ sub[s].rel > 0 => sub[s].st = "done"

Counting ==
  /\ registry \subseteq counted /\ counted \subseteq backend /\ counted \subseteq used
  /\ \A s \in Subs : InUse(s) \/ sub[s].rel > 0 => sub[s].id \in counted
  /\ \A id \in counted : counters[id] = Cardinality(Users(id))

IInv == TypeOK /\ Serial /\ Updating /\ CallsQuiet /\ Counting

(* The sub-requests of all calls are finitely many: a call has at most
   MaxBatch of them. *)
LEMMA SubsFinite == IsFiniteSet(Subs)
  <1>1. IsFiniteSet(0..MaxBatch)
    BY FS_Interval
  <1> QED
    BY Zenon, <1>1, FS_Product

(* The in-flight requests of an adapter can be counted. *)
LEMMA UsersFinite == \A id \in Ids : IsFiniteSet(Users(id)) /\ Cardinality(Users(id)) \in Nat
  BY Zenon, SubsFinite, FS_Subset, FS_CardinalityType DEF Users

(* Init establishes the invariant: nothing is loaded and nobody waits.      *)
LEMMA InitInv == Init => IInv
  <1> SUFFICES ASSUME Init PROVE IInv
    BY Zenon
  <1>1. TypeOK
    BY DEF Init, TypeOK, PcType, OpType, Ids, NoOp, NoCall, NoSub
  <1>2. Serial
    BY Zenon DEF Init, Serial, Busy, Awaiting
  <1>3. Updating /\ CallsQuiet /\ Counting
    BY DEF Init, Updating, CallsQuiet, Counting, NoSub, InUse
  <1> QED
    BY Zenon, <1>1, <1>2, <1>3 DEF IInv

(* An action that leaves sub, counters and counted alone keeps Counting, if it
   registers no adapter without a counter and drops none from the scheduler
   that has one.                                                            *)
LEMMA CountingKept ==
  ASSUME Counting, UNCHANGED <<sub, counters, counted>>,
         registry' \subseteq counted, counted \subseteq backend', used \subseteq used'
  PROVE  Counting'
  BY Zenon DEF Counting, Users, InUse

(* A step that is not one of the updates that are under way keeps what is
   known of them.                                                           *)
LEMMA SideStep ==
  ASSUME IInv, UNCHANGED <<wire, replies, backend, used, counted, registry>>,
         \A x \in Tasks : \/ pc'[x] = pc[x] /\ op'[x] = op[x]
                          \/ pc[x] \notin Busy /\ pc'[x] \notin Busy,
         SameHolder
  PROVE  Serial' /\ Updating'
  <1>1. Serial'
    BY Zenon DEF IInv, Serial, Busy, Awaiting, Holds, SameHolder
  <1>2. Updating'
    BY Zenon DEF IInv, Updating, Busy
  <1> QED
    BY Zenon, <1>1, <1>2

(* The holder of the lock may do what it likes, as nobody else is inside an
   update.                                                                  *)
LEMMA HolderStep ==
  ASSUME IInv, NEW t \in Tasks, Holds(t),
         \A x \in Tasks \ {t} : pc'[x] = pc[x],
         pc'[t] \in Busy => lora_update_lock' = lora_update_lock /\ op'[t].id \in Ids,
         ~Awaiting(t)' => wire' = <<>> /\ replies' = <<>>,
         Awaiting(t)' =>
           \/ /\ replies' = <<>> /\ Len(wire') = 1 /\ wire'[1].id = op'[t].id
              /\ wire'[1].kind = IF pc'[t] = "load_sent" THEN "load" ELSE "unload"
           \/ /\ wire' = <<>> /\ Len(replies') = 1
              /\ pc'[t] = "load_sent" /\ replies'[1] = "ok" => op'[t].id \in backend',
         pc'[t] = "load_sent" => op'[t].id \in used' \ counted',
         pc'[t] = "unload_wait" => op'[t].id \in counted' \ registry',
         pc'[t] = "unload_sent" => op'[t].id \notin counted'
  PROVE  Serial' /\ Updating'
  <1>1. \A x \in Tasks \ {t} : pc'[x] \notin Busy
    BY Zenon DEF IInv, Serial, Holds
  <1>2. \A x \in Tasks \ {t} : ~Awaiting(x)'
    BY Zenon, <1>1 DEF Busy, Awaiting
  <1>3. \A x \in Tasks : pc'[x] \in Busy => Holds(x)' /\ op'[x].id \in Ids
    BY <1>1 DEF Holds
  <1>4. Serial'
    BY Zenon, <1>2, <1>3 DEF Serial
  <1>5. Updating'
    BY Zenon, <1>1 DEF Updating, Busy
  <1> QED
    BY Zenon, <1>4, <1>5

(* A step of an update leaves the requests of the calls alone.              *)
LEMMA CallsKept ==
  ASSUME IInv, UNCHANGED <<sub, call>>,
         \A c \in Calls : pc'[c] = pc[c] \/ pc[c] \notin {"idle", "error", "acquire"}
  PROVE  CallsQuiet'
  BY Zenon DEF IInv, CallsQuiet

(* A load or unload call that queues for lora_update_lock keeps the invariant. *)
LEMMA BeginControlInv ==
  ASSUME IInv, NEW t \in Ctls, BeginControl(t)
  PROVE  IInv'
  <1>1. PICK n \in Names, mode \in {"load", "unload"} : Enqueue(t, mode, n)
    BY Zenon DEF BeginControl
  <1>2. t \in Tasks /\ pc[t] \in {"idle", "resolve"} /\ pc[t] = "idle"
    BY Zenon DEF BeginControl
  <1>3. UNCHANGED <<registry, lru, counters, counted, lora_ref_cache, backend, wire,
                    replies, used, call, sub>>
    BY Zenon DEF BeginControl, registryVars, backendVars
  <1>4. /\ op' \in [Tasks -> OpType] /\ pc' \in [Tasks -> PcType]
        /\ lora_update_lock' \in Seq(Tasks)
        /\ SameHolder
        /\ \A x \in Tasks : \/ pc'[x] = pc[x] /\ op'[x] = op[x]
                            \/ pc[x] \notin Busy /\ pc'[x] \notin Busy
        /\ \A x \in Tasks \ {t} : pc'[x] = pc[x]
    BY Zenon, <1>1, <1>2, EnqueueEffect DEF Enqueue, IInv
  <1>5. TypeOK'
    BY Zenon, <1>3, <1>4 DEF IInv, TypeOK
  <1>6. Serial' /\ Updating'
    BY Zenon, <1>3, <1>4, SideStep
  <1>7. CallsQuiet'
    BY Zenon, <1>3, <1>4, CallsKept
  <1>8. Counting'
    BY Zenon, <1>3, CountingKept DEF IInv, Counting
  <1> QED
    BY Zenon, <1>5, <1>6, <1>7, <1>8 DEF IInv

(* Sending a load to the scheduler under a fresh lora_id keeps the invariant. *)
LEMMA SendLoadInv ==
  ASSUME IInv, NEW t \in Tasks, SendLoad(t)
  PROVE  IInv'
  <1>1. PICK id \in Ids \ used :
          /\ used' = used \cup {id}
          /\ wire' = Append(wire, [kind |-> "load", id |-> id])
          /\ op' = [op EXCEPT ![t].id = id]
    BY Zenon DEF SendLoad
  <1>2. pc[t] = "lock" /\ Holds(t) /\ pc' = [pc EXCEPT ![t] = "load_sent"]
    BY Zenon DEF SendLoad
  <1>3. UNCHANGED <<registry, lru, counters, counted, lora_ref_cache, backend, replies,
                    lora_update_lock, call, sub>>
    BY Zenon DEF SendLoad, registryVars
  <1>o. op[t] \in OpType
    BY Zenon DEF IInv, TypeOK
  <1>r. [op[t] EXCEPT !.id = id] \in OpType /\ [op[t] EXCEPT !.id = id].id = id
    BY Zenon, <1>o DEF OpType
  <1>4. op' \in [Tasks -> OpType] /\ op'[t].id = id
    BY Zenon, <1>1, <1>r DEF IInv, TypeOK
  <1>5. pc' \in [Tasks -> PcType]
    BY Zenon, <1>2 DEF IInv, TypeOK, PcType
  <1>6. wire = <<>> /\ replies = <<>>
    BY Zenon, <1>2 DEF IInv, Serial, Busy, Awaiting, Holds
  <1>7. wire' = <<[kind |-> "load", id |-> id]>>
    BY <1>1, <1>6
  <1>8. wire' \in Seq([kind : {"load", "unload"}, id : Ids])
    BY <1>7
  <1>9. TypeOK'
    BY Zenon, <1>1, <1>3, <1>4, <1>5, <1>8 DEF IInv, TypeOK
  <1>10. pc'[t] = "load_sent" /\ \A x \in Tasks \ {t} : pc'[x] = pc[x]
    BY Zenon, <1>2 DEF IInv, TypeOK
  <1>11. id \in used' \ counted'
    BY Zenon, <1>1, <1>3 DEF IInv, Counting
  <1>12. Serial' /\ Updating'
    BY Zenon, <1>2, <1>3, <1>4, <1>6, <1>7, <1>10, <1>11, HolderStep DEF Awaiting
  <1>13. CallsQuiet'
    BY Zenon, <1>2, <1>3, <1>10, CallsKept
  <1>14. Counting'
    BY Zenon, <1>1, <1>3, CountingKept DEF IInv, Counting
  <1> QED
    BY Zenon, <1>9, <1>12, <1>13, <1>14 DEF IInv

(* The scheduler's answer to a load: the adapter is registered after it is in
   the scheduler, with a counter that starts at zero.                       *)
LEMMA LoadReplyInv ==
  ASSUME IInv, NEW t \in Tasks, LoadReply(t)
  PROVE  IInv'
  <1>1. pc[t] = "load_sent" /\ replies # <<>> /\ replies' = Tail(replies)
    BY Zenon DEF LoadReply
  <1>2. UNCHANGED <<backend, used, wire, call, sub>>
    BY Zenon DEF LoadReply
  <1>3. Holds(t) /\ op[t].id \in Ids
    BY Zenon, <1>1 DEF IInv, Serial, Busy
  <1>4. /\ wire = <<>> /\ Len(replies) = 1
        /\ replies[1] = "ok" => op[t].id \in backend
    BY Zenon, <1>1 DEF IInv, Serial, Awaiting
  <1>5. replies' = <<>> /\ Head(replies) = replies[1]
    BY <1>1, <1>4 DEF IInv, TypeOK
  <1> DEFINE id == op[t].id
  <1>6. id \in used \ counted /\ id \in Ids
    BY Zenon, <1>1, <1>3 DEF IInv, Updating
  <1>7. TypeOK /\ Counting /\ registry \subseteq Ids /\ lru \in SUBSET (registry \X registry)
    BY Zenon DEF IInv, TypeOK
  <1>8. /\ registry' \subseteq counted' /\ registry' \subseteq Ids
        /\ lru' \subseteq registry' \X registry'
        /\ op' \in [Tasks -> OpType] /\ pc' \in [Tasks -> PcType]
        /\ \A x \in Tasks \ {t} : pc'[x] = pc[x] /\ op'[x] = op[x]
        /\ \/ /\ pc'[t] = "unload_wait" /\ op'[t].id \in counted' \ registry'
              /\ op'[t].id \in Ids /\ lora_update_lock' = lora_update_lock
           \/ /\ pc'[t] \in {"idle", "resolve", "error"}
              /\ lora_update_lock' = Tail(lora_update_lock)
        /\ \/ UNCHANGED <<counters, counted, lora_ref_cache>>
           \/ /\ counters' = [counters EXCEPT ![id] = 0] /\ counted' = counted \cup {id}
              /\ lora_ref_cache' = lora_ref_cache \cup {NameOf(id)} /\ id \in backend
    <2>1. CASE Head(replies) = "ok" /\ Registered(NameOf(id))
      <3>1. Return(t, FALSE) /\ UNCHANGED <<registry, lru, counters, counted, lora_ref_cache>>
        BY ZenonT(30), <2>1 DEF LoadReply, registryVars
      <3>2. op' \in [Tasks -> OpType]
        BY Zenon, <3>1, <1>7 DEF Return, TypeOK, NoOp, OpType
      <3> QED
        BY Zenon, <3>1, <3>2, <1>7 DEF Return, TypeOK, PcType, Counting
    <2>2. CASE Head(replies) = "ok" /\ ~Registered(NameOf(id))
      <3> DEFINE reg == registry \cup {id}
                 ord == lru \cup (registry \X {id})
      <3>1. /\ counters' = [counters EXCEPT ![id] = 0] /\ counted' = counted \cup {id}
            /\ lora_ref_cache' = lora_ref_cache \cup {NameOf(id)}
            /\ EvictOrReturn(t, reg, ord, TRUE)
        BY Zenon, <2>2 DEF LoadReply
      <3>2. reg \in SUBSET Ids /\ ord \in SUBSET (reg \X reg) /\ reg \subseteq counted'
        BY Zenon, <3>1, <1>6, <1>7 DEF Counting
      <3>3. id \in backend
        BY Zenon, <2>2, <1>4, <1>5
      <3> HIDE DEF reg, ord, id
      <3> QED
        BY ZenonT(30), <3>1, <3>2, <3>3, <1>3, <1>7, EvictEffect DEF EvictOrReturn
    <2>3. CASE Head(replies) # "ok"
      <3>1. EvictOrReturn(t, registry, lru, Head(replies) = "already")
            /\ UNCHANGED <<counters, counted, lora_ref_cache>>
        BY Zenon, <2>3 DEF LoadReply
      <3>2. \/ EvictOrReturn(t, registry, lru, TRUE)
            \/ EvictOrReturn(t, registry, lru, FALSE)
        <4>1. CASE Head(replies) = "already"
          BY Zenon, <3>1, <4>1 DEF EvictOrReturn, Return
        <4>2. CASE Head(replies) # "already"
          BY Zenon, <3>1, <4>2 DEF EvictOrReturn, Return
        <4> QED
          BY Zenon, <4>1, <4>2
      <3>4. /\ registry' \subseteq registry /\ lru' \subseteq registry' \X registry'
            /\ op' \in [Tasks -> OpType] /\ pc' \in [Tasks -> PcType]
            /\ \A x \in Tasks \ {t} : pc'[x] = pc[x] /\ op'[x] = op[x]
            /\ \/ /\ pc'[t] = "unload_wait" /\ op'[t].id \in registry \ registry'
                  /\ lora_update_lock' = lora_update_lock
               \/ /\ pc'[t] \in {"idle", "resolve", "error"}
                  /\ lora_update_lock' = Tail(lora_update_lock)
        BY Zenon, <3>2, <1>3, <1>7, EvictAgain DEF EvictOrReturn
      <3>5. UNCHANGED <<counters, counted, lora_ref_cache>>
        BY Zenon, <3>1
      <3> QED
        BY Zenon, <3>4, <3>5, <1>7 DEF Counting
    <2> QED
      BY Zenon, <2>1, <2>2, <2>3
  <1>9. /\ counters' \in [Ids -> Int] /\ counted' \subseteq Ids
        /\ lora_ref_cache' \subseteq Names
        /\ counted' \subseteq backend /\ counted' \subseteq used
    <2>1. CASE UNCHANGED <<counters, counted, lora_ref_cache>>
      BY Zenon, <2>1, <1>7 DEF TypeOK, Counting
    <2>2. CASE /\ counters' = [counters EXCEPT ![id] = 0] /\ counted' = counted \cup {id}
               /\ lora_ref_cache' = lora_ref_cache \cup {NameOf(id)} /\ id \in backend
      <3>1. NameOf(id) \in Names
        BY Zenon, <1>6 DEF Ids, NameOf
      <3> HIDE DEF id
      <3>2. counters' \in [Ids -> Int]
        BY <2>2, <1>7 DEF TypeOK
      <3>3. lora_ref_cache' \subseteq Names
        BY Zenon, <2>2, <3>1, <1>7 DEF TypeOK
      <3> QED
        BY Zenon, <2>2, <3>2, <3>3, <1>6, <1>7 DEF TypeOK, Counting
    <2> QED
      BY Zenon, <2>1, <2>2, <1>8
  <1>10. lora_update_lock' \in Seq(Tasks)
    <2>1. lora_update_lock \in Seq(Tasks) /\ lora_update_lock # <<>>
      BY Zenon, <1>3, <1>7 DEF TypeOK, Holds
    <2> QED
      BY <2>1, <1>8
  <1> HIDE DEF id
  <1>11. TypeOK'
    BY SMTT(30), <1>2, <1>5, <1>7, <1>8, <1>9, <1>10 DEF TypeOK
  <1>12. Serial' /\ Updating'
    BY Zenon, <1>2, <1>3, <1>4, <1>5, <1>8, HolderStep DEF Awaiting, Busy
  <1>13. CallsQuiet'
    BY Zenon, <1>1, <1>2, <1>8, CallsKept
  <1>14. Counting'
    <2>1. CASE UNCHANGED <<counters, counted, lora_ref_cache>>
      BY Zenon, <2>1, <1>2, <1>7, <1>8, CountingKept DEF Counting
    <2>2. CASE counters' = [counters EXCEPT ![id] = 0] /\ counted' = counted \cup {id}
      <3>1. Users(id) = {} /\ \A x \in Ids : Users(x)' = Users(x)
        BY ZenonT(30), <1>2, <1>6, <1>7 DEF Counting, Users, InUse
      <3>2. \A x \in counted' : counters'[x] = Cardinality(Users(x)')
        <4>1. Cardinality(Users(id)) = 0
          BY Zenon, <3>1, FS_EmptySet
        <4>2. counters'[id] = 0 /\ \A x \in counted : counters'[x] = counters[x]
          BY Zenon, <2>2, <1>6, <1>7 DEF TypeOK
        <4>3. \A x \in counted' : Users(x)' = Users(x)
          BY Zenon, <3>1, <2>2, <1>6, <1>7 DEF TypeOK
        <4>4. \A x \in counted : counters[x] = Cardinality(Users(x))
          BY Zenon, <1>7 DEF Counting
        <4> QED
          BY Zenon, <2>2, <4>1, <4>2, <4>3, <4>4
      <3>3. \A s \in Subs : (InUse(s) \/ sub[s].rel > 0)' => sub'[s].id \in counted'
        BY Zenon, <2>2, <1>2, <1>7 DEF Counting, InUse
      <3> QED
        BY Zenon, <3>2, <3>3, <1>2, <1>8, <1>9 DEF Counting
    <2> QED
      BY Zenon, <2>1, <2>2, <1>8
  <1> QED
    BY Zenon, <1>11, <1>12, <1>13, <1>14 DEF IInv

(* unload_lora_adapter takes the adapter out of the registry.               *)
LEMMA UnloadLockedInv ==
  ASSUME IInv, NEW t \in Tasks, UnloadLocked(t)
  PROVE  IInv'
  <1>1. pc[t] = "lock" /\ Holds(t) /\ TypeOK /\ Counting
    BY Zenon DEF UnloadLocked, IInv
  <1>2. UNCHANGED <<counters, counted, lora_ref_cache, backend, wire, replies, used, call, sub>>
    BY Zenon DEF UnloadLocked, backendVars
  <1>3. wire = <<>> /\ replies = <<>>
    BY Zenon, <1>1 DEF IInv, Serial, Busy, Awaiting, Holds
  <1>4. /\ registry' \subseteq registry /\ lru' \subseteq registry' \X registry'
        /\ op' \in [Tasks -> OpType] /\ pc' \in [Tasks -> PcType]
        /\ lora_update_lock' \in Seq(Tasks)
        /\ \A x \in Tasks \ {t} : pc'[x] = pc[x]
        /\ \/ /\ pc'[t] = "unload_wait" /\ op'[t].id \in counted \ registry'
              /\ op'[t].id \in Ids /\ lora_update_lock' = lora_update_lock
           \/ pc'[t] \in {"idle", "resolve", "error"}
    <2>1. CASE Registered(op[t].name)
      <3> DEFINE id == IdOf(op[t].name)
      <3>1. /\ registry' = registry \ {id}
            /\ lru' = {p \in lru : id \notin {p[1], p[2]}}
            /\ pc' = [pc EXCEPT ![t] = "unload_wait"]
            /\ op' = [op EXCEPT ![t].id = id]
            /\ UNCHANGED lora_update_lock
        BY Zenon, <2>1 DEF UnloadLocked
      <3>2. id \in registry
        BY Zenon, <2>1 DEF Registered, IdOf
      <3> HIDE DEF id
      <3>3. id \in Ids /\ id \in counted
        BY Zenon, <3>2, <1>1 DEF TypeOK, Counting
      <3>4. op[t] \in OpType
        BY Zenon, <1>1 DEF TypeOK
      <3>5. [op[t] EXCEPT !.id = id] \in OpType /\ [op[t] EXCEPT !.id = id].id = id
        BY Zenon, <3>3, <3>4 DEF OpType
      <3>6. op' \in [Tasks -> OpType] /\ op'[t].id = id
        BY Zenon, <3>1, <3>5, <1>1 DEF TypeOK
      <3>7. lru' \subseteq registry' \X registry'
        BY Zenon, <3>1, <1>1 DEF TypeOK
      <3> QED
        BY <3>1, <3>3, <3>6, <3>7, <1>1 DEF TypeOK, PcType
    <2>2. CASE ~Registered(op[t].name)
      <3>1. Return(t, FALSE) /\ UNCHANGED <<registry, lru>>
        BY Zenon, <2>2 DEF UnloadLocked
      <3>2. op' \in [Tasks -> OpType]
        BY Zenon, <3>1, <1>1 DEF Return, TypeOK, NoOp, OpType
      <3>3. lora_update_lock' \in Seq(Tasks)
        BY <3>1, <1>1 DEF Return, TypeOK, Holds
      <3> QED
        BY Zenon, <3>1, <3>2, <3>3, <1>1 DEF Return, TypeOK, PcType
    <2> QED
      BY Zenon, <2>1, <2>2
  <1>5. TypeOK'
    BY Zenon, <1>1, <1>2, <1>4 DEF TypeOK
  <1>6. Serial' /\ Updating'
    BY Zenon, <1>1, <1>2, <1>3, <1>4, HolderStep DEF Awaiting, Busy
  <1>7. CallsQuiet'
    BY Zenon, <1>1, <1>2, <1>4, CallsKept
  <1>8. Counting'
    BY ZenonT(30), <1>1, <1>2, <1>4, CountingKept DEF Counting
  <1> QED
    BY <1>5, <1>6, <1>7, <1>8 DEF IInv

(* wait_for_unload returns only at zero: then no request uses the adapter.  *)
LEMMA WaitForUnloadInv ==
  ASSUME IInv, NEW t \in Tasks, WaitForUnload(t)
  PROVE  IInv'
  <1> DEFINE id == op[t].id
  <1>1. /\ pc[t] = "unload_wait" /\ counters[id] = 0 /\ counted' = counted \ {id}
        /\ wire' = Append(wire, [kind |-> "unload", id |-> id])
        /\ pc' = [pc EXCEPT ![t] = "unload_sent"]
    BY Zenon DEF WaitForUnload
  <1>2. UNCHANGED <<registry, lru, counters, lora_ref_cache, backend, replies, used,
                    lora_update_lock, op, call, sub>>
    BY Zenon DEF WaitForUnload
  <1>3. Holds(t) /\ id \in Ids /\ id \in counted \ registry
    BY Zenon, <1>1 DEF IInv, Serial, Busy, Updating
  <1>4. wire = <<>> /\ replies = <<>>
    BY Zenon, <1>1, <1>3 DEF IInv, Serial, Busy, Awaiting, Holds
  <1>5. wire' = <<[kind |-> "unload", id |-> id]>>
    BY SMTT(30), <1>1, <1>4
  <1>6. wire' \in Seq([kind : {"load", "unload"}, id : Ids])
    BY SMTT(30), <1>3, <1>5
  <1>7. pc' \in [Tasks -> PcType] /\ pc'[t] = "unload_sent"
        /\ \A x \in Tasks \ {t} : pc'[x] = pc[x]
    BY Zenon, <1>1 DEF IInv, TypeOK, PcType
  <1>8. TypeOK'
    BY ZenonT(30), <1>1, <1>2, <1>6, <1>7 DEF IInv, TypeOK
  <1>9. Serial' /\ Updating'
    BY SMTT(30), <1>1, <1>2, <1>3, <1>4, <1>5, <1>7, HolderStep DEF Awaiting
  <1>10. CallsQuiet'
    BY Zenon, <1>1, <1>2, <1>7, CallsKept
  <1>11. Users(id) = {}
    <2>1. Cardinality(Users(id)) = 0 /\ IsFiniteSet(Users(id))
      BY Zenon, <1>1, <1>3, UsersFinite DEF IInv, Counting
    <2> QED
      BY Zenon, <2>1, FS_EmptySet
  <1>12. \A s \in Subs : InUse(s) \/ sub[s].rel > 0 => sub[s].id # id
    BY Zenon, <1>11 DEF Users
  <1> HIDE DEF id
  <1>13. Counting'
    BY SMTT(30), <1>1, <1>2, <1>3, <1>12 DEF IInv, Counting, Users, InUse
  <1> QED
    BY <1>8, <1>9, <1>10, <1>13 DEF IInv

(* The scheduler's reply to an unload, which ends the operation and drops the
   adapter's counter, keeps the invariant. *)
LEMMA UnloadReplyInv ==
  ASSUME IInv, NEW t \in Tasks, UnloadReply(t)
  PROVE  IInv'
  <1>1. pc[t] = "unload_sent" /\ replies # <<>> /\ replies' = Tail(replies)
    BY ZenonT(30) DEF UnloadReply
  <1>2. UNCHANGED <<counters, counted, lora_ref_cache, backend, wire, used, call, sub>>
    BY ZenonT(30) DEF UnloadReply
  <1>3. Holds(t) /\ TypeOK /\ Counting
    BY Zenon, <1>1 DEF IInv, Serial, Busy
  <1>4. wire = <<>> /\ Len(replies) = 1
    BY Zenon, <1>1 DEF IInv, Serial, Awaiting
  <1>5. replies' = <<>>
    BY Zenon, <1>1, <1>3, <1>4, TailOfOne DEF TypeOK
  <1>6. /\ registry' \subseteq registry /\ lru' \subseteq registry' \X registry'
        /\ op' \in [Tasks -> OpType] /\ pc' \in [Tasks -> PcType]
        /\ \A x \in Tasks \ {t} : pc'[x] = pc[x]
        /\ \/ /\ pc'[t] = "unload_wait" /\ op'[t].id \in registry \ registry'
              /\ lora_update_lock' = lora_update_lock
           \/ /\ pc'[t] \in {"idle", "resolve", "error"}
              /\ lora_update_lock' = Tail(lora_update_lock)
    <2>1. CASE op[t].mode = "load" /\ Head(replies) = "ok"
      <3>1. EvictOrReturn(t, registry, lru, op[t].ok)
        BY Zenon, <2>1 DEF UnloadReply
      <3>2. op[t].ok \in BOOLEAN
        BY Zenon, <1>3 DEF TypeOK, OpType
      <3>3. \/ EvictOrReturn(t, registry, lru, TRUE)
            \/ EvictOrReturn(t, registry, lru, FALSE)
        BY Zenon, <3>1, <3>2 DEF EvictOrReturn, Return
      <3> QED
        BY Zenon, <3>3, <1>3, EvictAgain DEF EvictOrReturn
    <2>2. CASE ~(op[t].mode = "load" /\ Head(replies) = "ok")
      <3>1. Return(t, FALSE) /\ UNCHANGED <<registry, lru>>
        BY ZenonT(30), <2>2 DEF UnloadReply
      <3>2. op' \in [Tasks -> OpType]
        BY Zenon, <3>1, <1>3 DEF Return, TypeOK, NoOp, OpType
      <3> QED
        BY Zenon, <3>1, <3>2, <1>3 DEF Return, TypeOK, PcType
    <2> QED
      BY Zenon, <2>1, <2>2
  <1>7. lora_update_lock' \in Seq(Tasks)
    <2>1. lora_update_lock \in Seq(Tasks) /\ lora_update_lock # <<>>
      BY Zenon, <1>3 DEF TypeOK, Holds
    <2> QED
      BY <2>1, <1>6
  <1>8. TypeOK'
    BY SMTT(60), <1>2, <1>3, <1>5, <1>6, <1>7 DEF TypeOK
  <1>9. pc'[t] = "unload_wait" => op'[t].id \in Ids /\ op'[t].id \in counted' \ registry'
    BY Zenon, <1>2, <1>3, <1>6 DEF TypeOK, Counting
  <1>10. Serial' /\ Updating'
    BY Zenon, <1>2, <1>3, <1>4, <1>5, <1>6, <1>9, HolderStep DEF Awaiting, Busy
  <1>11. CallsQuiet'
    BY Zenon, <1>1, <1>2, <1>6, CallsKept
  <1>12. Counting'
    BY ZenonT(30), <1>2, <1>3, <1>6, CountingKept DEF Counting
  <1> QED
    BY <1>8, <1>10, <1>11, <1>12 DEF IInv

(* The scheduler adds the adapter of a load, and drops the adapter of an
   unload, which has no counter any more.                                   *)
LEMMA BackendInv ==
  ASSUME IInv, Backend
  PROVE  IInv'
  <1>1. UNCHANGED <<registry, lru, counters, counted, lora_ref_cache, used, lora_update_lock,
                    pc, op, call, sub>> /\ wire # <<>> /\ wire' = Tail(wire)
    BY ZenonT(30) DEF Backend, registryVars
  <1>2. PICK t \in Tasks : Awaiting(t)
    BY Zenon, <1>1 DEF IInv, Serial
  <1>3. /\ replies = <<>> /\ Len(wire) = 1 /\ wire[1].id = op[t].id
        /\ wire[1].kind = IF pc[t] = "load_sent" THEN "load" ELSE "unload"
    BY Zenon, <1>1, <1>2 DEF IInv, Serial
  <1>4. Holds(t) /\ op[t].id \in Ids /\ TypeOK /\ Counting
    BY Zenon, <1>2 DEF IInv, Serial, Awaiting, Busy
  <1>5. wire' = <<>> /\ Head(wire) = wire[1]
    BY ZenonT(30), <1>1, <1>3, <1>4, TailOfOne DEF TypeOK
  <1>6. /\ \E r \in {"ok", "already", "other"} :
             replies' = <<r>> /\ (pc[t] = "load_sent" /\ r = "ok" => op[t].id \in backend')
        /\ counted \subseteq backend' /\ backend' \subseteq Ids
    <2>1. backend \subseteq Ids /\ counted \subseteq backend
      BY Zenon, <1>4 DEF TypeOK, Counting
    <2>2. \A r : Append(replies, r) = <<r>>
      BY <1>3
    <2>3. CASE pc[t] = "load_sent"
      <3>1. wire[1].kind = "load"
        BY Zenon, <2>3, <1>3
      <3>2. \/ replies' = Append(replies, "already") /\ backend' = backend
            \/ replies' = Append(replies, "ok") /\ backend' = backend \cup {op[t].id}
            \/ replies' = Append(replies, "other") /\ backend' = backend
        BY Zenon, <3>1, <1>3, <1>5 DEF Backend
      <3> QED
        BY ZenonT(30), <3>2, <2>1, <2>2, <1>4
    <2>4. CASE pc[t] # "load_sent"
      <3>1. op[t].id \notin counted
        BY Zenon, <2>4, <1>2 DEF IInv, Updating, Awaiting
      <3>2. wire[1].kind = "unload"
        BY Zenon, <2>4, <1>3
      <3>3. \/ replies' = Append(replies, "ok") /\ backend' = backend \ {op[t].id}
            \/ replies' = Append(replies, "other") /\ backend' = backend
        BY Zenon, <3>2, <1>3, <1>5 DEF Backend
      <3> QED
        BY ZenonT(30), <3>1, <3>3, <2>1, <2>2, <2>4
    <2> QED
      BY Zenon, <2>3, <2>4
  <1>7. /\ replies' \in Seq({"ok", "already", "other"}) /\ Len(replies') = 1
        /\ pc[t] = "load_sent" /\ replies'[1] = "ok" => op[t].id \in backend'
    BY SMTT(30), <1>6
  <1>8. TypeOK'
    BY SMTT(60), <1>1, <1>4, <1>5, <1>6, <1>7 DEF TypeOK
  <1>9. Serial' /\ Updating'
    <2>1. /\ pc[t] = "load_sent" => op[t].id \in used' \ counted'
          /\ pc[t] = "unload_sent" => op[t].id \notin counted'
      BY Zenon, <1>1 DEF IInv, Updating
    <2> QED
      BY ZenonT(30), <2>1, <1>1, <1>2, <1>4, <1>5, <1>7, HolderStep DEF Awaiting
  <1>10. CallsQuiet'
    BY ZenonT(30), <1>1, CallsKept
  <1>11. Counting'
    BY ZenonT(30), <1>1, <1>4, <1>6, CountingKept DEF Counting
  <1> QED
    BY Zenon, <1>8, <1>9, <1>10, <1>11 DEF IInv

(* No reply is without a waiter.                                            *)
LEMMA DropReplyInv ==
  ASSUME IInv, DropReply
  PROVE  FALSE
  BY Zenon DEF IInv, Serial, DropReply

(* generate_request: what a step of a call does to sub must keep CallsQuiet
   and Counting; the updates are not touched.                               *)
LEMMA StartInv ==
  ASSUME IInv, Quiet, NEW c \in Calls, Start(c)
  PROVE  IInv'
  <1>1. UNCHANGED <<registry, counters, counted, lora_ref_cache, backend, wire, replies, used,
                    lora_update_lock, op, sub>> /\ pc[c] = "idle"
    BY Zenon DEF Start, backendVars
  <1> DEFINE NamesOf(path) == {path[i] : i \in DOMAIN path}
             CallOf(path) == [kind |-> "str", path |-> path,
                              todo |-> {n \in NamesOf(path) : ~Registered(n)}]
  <1>2. PICK path \in Paths :
          /\ Len(path) = 1
          /\ \/ pc' = [pc EXCEPT ![c] = "error"] /\ UNCHANGED <<lru, call>>
             \/ /\ pc' = [pc EXCEPT ![c] = "resolve"]
                /\ \E q : lru' = MoveToEnd(q)
                /\ call' = [call EXCEPT ![c] = CallOf(path)]
    <2>1. PICK kind \in Kinds, path \in Paths :
            /\ kind = "str" => Len(path) = 1
            /\ IF Cardinality(NamesOf(path)) > MaxLoadedLoras
               THEN pc' = [pc EXCEPT ![c] = "error"] /\ UNCHANGED <<lru, call>>
               ELSE /\ pc' = [pc EXCEPT ![c] = "resolve"]
                    /\ \E q \in Listings({IdOf(n) : n \in {m \in NamesOf(path) : Registered(m)}}) :
                         lru' = MoveToEnd(q)
                    /\ call' = [call EXCEPT ![c] =
                         [kind |-> kind, path |-> path,
                          todo |-> {n \in NamesOf(path) : ~Registered(n)}]]
      BY Zenon DEF Start
    <2>2. kind = "str"
      BY Zenon DEF Quiet
    <2> QED
      BY Zenon, <2>1, <2>2
  <1>3. path \in Seq(Names) /\ {path[i] : i \in DOMAIN path} \subseteq Names /\ Len(path) = 1
    BY <1>2
  <1>4. /\ pc' \in [Tasks -> PcType] /\ \A x \in Tasks \ {c} : pc'[x] = pc[x]
        /\ pc'[c] \in {"error", "resolve"}
    BY Zenon, <1>2 DEF IInv, TypeOK, PcType
  <1>5. /\ call' \in [Calls -> [kind : Kinds \cup {None}, path : Seq(Names), todo : SUBSET Names]]
        /\ \A d \in Calls : d # c => call'[d] = call[d]
        /\ pc'[c] = "resolve" => call'[c].kind = "str" /\ Len(call'[c].path) = 1
    <2> DEFINE r == CallOf(path)
    <2>1. r \in [kind : Kinds \cup {None}, path : Seq(Names), todo : SUBSET Names]
      BY Zenon, <1>3 DEF Quiet
    <2>2. r.kind = "str" /\ Len(r.path) = 1
      BY Zenon, <1>3
    <2>3. \/ pc' = [pc EXCEPT ![c] = "error"] /\ call' = call
          \/ call' = [call EXCEPT ![c] = r]
      BY Zenon, <1>2
    <2> HIDE DEF r
    <2>4. call \in [Calls -> [kind : Kinds \cup {None}, path : Seq(Names), todo : SUBSET Names]]
          /\ pc \in [Tasks -> PcType]
      BY Zenon DEF IInv, TypeOK
    <2>5. CASE call' = [call EXCEPT ![c] = r]
      BY ZenonT(30), <2>1, <2>2, <2>4, <2>5
    <2>6. CASE pc' = [pc EXCEPT ![c] = "error"] /\ call' = call
      <3>1. pc'[c] # "resolve"
        BY Zenon, <2>4, <2>6
      <3> QED
        BY Zenon, <2>4, <2>6, <3>1
    <2> QED
      BY Zenon, <2>3, <2>5, <2>6
  <1>6. lru' \subseteq registry \X registry
    BY Zenon, <1>2 DEF IInv, TypeOK, MoveToEnd
  <1>7. TypeOK'
    BY ZenonT(30), <1>1, <1>4, <1>5, <1>6 DEF IInv, TypeOK
  <1>8. Serial' /\ Updating'
    BY Zenon, <1>1, <1>4, SideStep DEF Busy, SameHolder
  <1>9. CallsQuiet'
    <2>1. \A s \in Subs : s[1] = c => sub[s].st = "none"
      BY Zenon, <1>1 DEF IInv, CallsQuiet
    <2>2. \A d \in Calls : pc'[d] \notin {"idle", "error"} =>
                         call'[d].kind = "str" /\ Len(call'[d].path) = 1
      BY SMTT(30), <1>4, <1>5 DEF IInv, CallsQuiet
    <2>3. \A s \in Subs : s[1] \in Calls /\ (s[1] # c => pc'[s[1]] = pc[s[1]])
      BY Zenon, <1>4
    <2>4. \A s \in Subs : sub[s].st = "none" \/ pc'[s[1]] = "acquire"
      BY ZenonT(30), <2>1, <2>3 DEF IInv, CallsQuiet
    <2> QED
      BY Zenon, <2>2, <2>4, <1>1 DEF IInv, CallsQuiet
  <1>10. Counting'
    BY Zenon, <1>1, CountingKept DEF IInv, Counting
  <1> QED
    BY Zenon, <1>7, <1>8, <1>9, <1>10 DEF IInv

(* A generate call that has to load its evicted adapter again keeps the
   invariant: it becomes one more waiter for lora_update_lock. *)
LEMMA ReloadInv ==
  ASSUME IInv, NEW c \in Calls, Reload(c)
  PROVE  IInv'
  <1>1. UNCHANGED <<registry, lru, counters, counted, lora_ref_cache, backend, wire, replies,
                    used, sub>> /\ pc[c] = "resolve"
    BY Zenon DEF Reload, registryVars, backendVars
  <1>2. PICK n \in call[c].todo :
          /\ call' = [call EXCEPT ![c].todo = @ \ {n}]
          /\ \/ Enqueue(c, "load", n)
             \/ pc' = [pc EXCEPT ![c] = "error"] /\ UNCHANGED <<lora_update_lock, op>>
    BY Zenon DEF Reload
  <1>3. call[c] \in [kind : Kinds \cup {None}, path : Seq(Names), todo : SUBSET Names]
    BY Zenon DEF IInv, TypeOK
  <1> DEFINE r == [call[c] EXCEPT !.todo = call[c].todo \ {n}]
  <1>4. /\ r \in [kind : Kinds \cup {None}, path : Seq(Names), todo : SUBSET Names]
        /\ r.kind = call[c].kind /\ r.path = call[c].path
    BY Zenon, <1>3
  <1>5. call' = [call EXCEPT ![c] = r]
    BY Zenon, <1>2
  <1> HIDE DEF r
  <1>6. /\ call' \in [Calls -> [kind : Kinds \cup {None}, path : Seq(Names), todo : SUBSET Names]]
        /\ \A d \in Calls : call'[d].kind = call[d].kind /\ call'[d].path = call[d].path
    BY Zenon, <1>4, <1>5 DEF IInv, TypeOK
  <1>7. /\ op' \in [Tasks -> OpType] /\ pc' \in [Tasks -> PcType]
        /\ lora_update_lock' \in Seq(Tasks)
        /\ SameHolder
        /\ \A x \in Tasks : \/ pc'[x] = pc[x] /\ op'[x] = op[x]
                            \/ pc[x] \notin Busy /\ pc'[x] \notin Busy
        /\ \A x \in Tasks \ {c} : pc'[x] = pc[x]
    <2>1. CASE Enqueue(c, "load", n)
      <3>1. c \in Tasks /\ n \in Names /\ pc[c] \in {"idle", "resolve"}
        BY Zenon, <1>1, <1>3
      <3> QED
        BY ZenonT(30), <2>1, <3>1, EnqueueEffect DEF Enqueue, IInv
    <2>2. CASE pc' = [pc EXCEPT ![c] = "error"] /\ UNCHANGED <<lora_update_lock, op>>
      BY Zenon, <2>2, <1>1 DEF IInv, TypeOK, PcType, SameHolder, Busy
    <2> QED
      BY Zenon, <2>1, <2>2, <1>2
  <1>8. TypeOK'
    BY Zenon, <1>1, <1>6, <1>7 DEF IInv, TypeOK
  <1>9. Serial' /\ Updating'
    BY Zenon, <1>1, <1>7, SideStep
  <1>10. CallsQuiet'
    BY ZenonT(30), <1>1, <1>6, <1>7 DEF IInv, CallsQuiet
  <1>11. Counting'
    BY Zenon, <1>1, CountingKept DEF IInv, Counting
  <1> QED
    BY Zenon, <1>8, <1>9, <1>10, <1>11 DEF IInv

(* A step of a call that changes nothing but one request of it, in a way that
   the accounting allows.                                                   *)
LEMMA SubStep ==
  ASSUME IInv, NEW c \in Calls, NEW i \in 0..MaxBatch, NEW r \in SubType,
         sub' = [sub EXCEPT ![<<c, i>>] = r],
         UNCHANGED <<registry, counted, lora_ref_cache, backend, wire, replies, used,
                     lora_update_lock, op, call>>,
         lru' \subseteq registry \X registry, counters' \in [Ids -> Int],
         pc' \in [Tasks -> PcType], \A x \in Tasks \ {c} : pc'[x] = pc[x],
         pc[c] \in {"resolve", "acquire"}, pc'[c] = "acquire",
         r.st \notin {"none", "looked"}, r.rel <= 1, r.rel > 0 => r.st = "done",
         r.st \in {"held", "dispatched"} \/ r.rel > 0 => r.id \in counted,
         \A id \in counted : counters'[id] = Cardinality(Users(id)')
  PROVE  IInv'
  <1>1. <<c, i>> \in Subs /\ c \in Tasks /\ TypeOK /\ Counting
    BY Zenon DEF IInv
  <1>2. sub \in [Subs -> SubType]
    BY Zenon, <1>1 DEF TypeOK, SubType
  <1>3. /\ sub' \in [Subs -> SubType] /\ sub'[<<c, i>>] = r
        /\ \A s \in Subs : s # <<c, i>> => sub'[s] = sub[s]
    BY Zenon, <1>1, <1>2
  <1>4. TypeOK'
    BY Zenon, <1>1, <1>3 DEF TypeOK, SubType
  <1>5. Serial' /\ Updating'
    BY Zenon, SideStep DEF Busy, SameHolder
  <1>6. CallsQuiet'
    <2>1. \A d \in Calls : pc'[d] \notin {"idle", "error"} =>
                         call'[d].kind = "str" /\ Len(call'[d].path) = 1
      BY Zenon DEF IInv, CallsQuiet
    <2>2. \A s \in Subs : s # <<c, i>> => sub'[s] = sub[s]
      BY Zenon, <1>3
    <2>3. \A s \in Subs : s[1] \in Calls /\ (pc[s[1]] = "acquire" => pc'[s[1]] = "acquire")
      BY Zenon
    <2>4. \A s \in Subs : /\ sub'[s].st # "looked" /\ sub'[s].rel <= 1
                          /\ sub'[s].st = "none" \/ pc'[s[1]] = "acquire"
                          /\ sub'[s].rel > 0 => sub'[s].st = "done"
      BY SMTT(30), <2>2, <2>3, <1>3 DEF IInv, CallsQuiet
    <2> QED
      BY Zenon, <2>1, <2>4 DEF CallsQuiet
  <1>7. \A s \in Subs : (InUse(s) \/ sub[s].rel > 0)' => sub'[s].id \in counted'
    BY Zenon, <1>1, <1>3 DEF Counting, InUse
  <1>8. Counting'
    BY Zenon, <1>1, <1>7 DEF Counting
  <1> QED
    BY Zenon, <1>4, <1>5, <1>6, <1>8 DEF IInv

(* With one name, acquire finds the registered adapter of that name.        *)
LEMMA FoundOne ==
  ASSUME NEW path \in Seq(Names), Len(path) = 1, ~(Len(Found(path)) < Len(path))
  PROVE  Found(path)[1] \in registry
  <1>1. PICK n \in 0..Len(path) : Len(Found(path)) = n /\ \A i \in 1..n : Found(path)[i] \in registry
    BY Zenon, FoundSome
  <1>2. 1 \in 1..n
    BY <1>1
  <1> QED
    BY Zenon, <1>1, <1>2

(* acquire with one name counts the request before anything else can run.   *)
LEMMA AcquireInv ==
  ASSUME IInv, NEW c \in Calls, Acquire(c)
  PROVE  IInv'
  <1> DEFINE ids == Found(call[c].path)
  <1>1. /\ pc[c] = "resolve"
        /\ UNCHANGED <<registry, counted, lora_ref_cache, backend, wire, replies, used,
                       lora_update_lock, op, call>>
        /\ lru' = MoveToEnd(ids)
    BY Zenon DEF Acquire, backendVars
  <1>2. call[c].kind = "str" /\ Len(call[c].path) = 1 /\ call[c].path \in Seq(Names)
    BY ZenonT(30), <1>1 DEF IInv, CallsQuiet, TypeOK
  <1>3. lru' \subseteq registry \X registry
    BY ZenonT(30), <1>1 DEF MoveToEnd
  <1>4. TypeOK /\ Counting /\ c \in Tasks
    BY Zenon DEF IInv
  <1>5. CASE Len(ids) < Len(call[c].path)
    <2>1. pc' = [pc EXCEPT ![c] = "error"] /\ UNCHANGED <<counters, sub>>
      BY ZenonT(30), <1>5 DEF Acquire
    <2>2. pc' \in [Tasks -> PcType] /\ pc'[c] = "error" /\ \A x \in Tasks \ {c} : pc'[x] = pc[x]
      BY Zenon, <2>1, <1>4 DEF TypeOK, PcType
    <2>3. TypeOK'
      BY Zenon, <2>1, <2>2, <1>1, <1>3, <1>4 DEF TypeOK
    <2>4. Serial' /\ Updating'
      BY ZenonT(30), <2>2, <1>1, SideStep DEF Busy, SameHolder
    <2>5. CallsQuiet'
      BY Zenon, <2>1, <2>2, <1>1, CallsKept
    <2>6. Counting'
      BY Zenon, <2>1, <1>1, <1>4, CountingKept DEF Counting
    <2> QED
      BY Zenon, <2>3, <2>4, <2>5, <2>6 DEF IInv
  <1>6. CASE ~(Len(ids) < Len(call[c].path))
    <2>2. PICK id \in registry : id = ids[1]
      BY ZenonT(30), <1>2, <1>6, FoundOne
    <2> DEFINE r == [id |-> id, st |-> "held", rel |-> 0]
    <2>1. /\ pc' = [pc EXCEPT ![c] = "acquire"]
          /\ counters' = [counters EXCEPT ![id] = @ + 1]
          /\ sub' = [sub EXCEPT ![<<c, 1>>] = r]
      <3>1. call[c].kind = "str" /\ ~(Len(Found(call[c].path)) < Len(call[c].path))
        BY Zenon, <1>2, <1>6
      <3>2. /\ pc' = [pc EXCEPT ![c] = "acquire"]
            /\ counters' = [counters EXCEPT ![ids[1]] = @ + 1]
            /\ sub' = [sub EXCEPT ![<<c, 1>>] = [id |-> ids[1], st |-> "held", rel |-> 0]]
        BY ZenonT(30), <3>1 DEF Acquire
      <3> HIDE DEF ids
      <3> QED
        BY ZenonT(30), <3>2, <2>2
    <2> HIDE DEF ids
    <2>3. id \in Ids /\ id \in counted
      BY Zenon, <2>2, <1>4 DEF TypeOK, Counting
    <2>4. r \in SubType /\ r.id = id /\ r.st = "held" /\ r.rel = 0
      BY SMTT(30), <2>3 DEF SubType
    <2> HIDE DEF r
    <2>5. pc' \in [Tasks -> PcType] /\ pc'[c] = "acquire" /\ \A x \in Tasks \ {c} : pc'[x] = pc[x]
      BY Zenon, <2>1, <1>4 DEF TypeOK, PcType
    <2>6. counters' \in [Ids -> Int] /\ counters'[id] = counters[id] + 1
          /\ \A x \in Ids \ {id} : counters'[x] = counters[x]
      BY <2>1, <2>3, <1>4 DEF TypeOK
    <2>7. <<c, 1>> \in Subs /\ sub[<<c, 1>>].st = "none" /\ ~(sub[<<c, 1>>].rel > 0)
      <3>1. <<c, 1>> \in Subs /\ <<c, 1>>[1] = c
        OBVIOUS
      <3>2. PICK s \in Subs : s = <<c, 1>> /\ s[1] = c
        BY Zenon, <3>1
      <3>3. sub[s].st = "none" /\ ~(sub[s].rel > 0)
        BY Zenon, <3>2, <1>1 DEF IInv, CallsQuiet
      <3> QED
        BY Zenon, <3>2, <3>3
    <2>8. sub'[<<c, 1>>] = r /\ \A s \in Subs : s # <<c, 1>> => sub'[s] = sub[s]
      BY Zenon, <2>1, <2>7, <1>4 DEF TypeOK
    <2>9. /\ <<c, 1>> \notin Users(id) /\ Users(id)' = Users(id) \cup {<<c, 1>>}
          /\ \A x \in Ids \ {id} : Users(x)' = Users(x)
      <3> DEFINE u == <<c, 1>>
      <3>1. \A x : Users(x)' = {s \in Subs : sub'[s].id = x /\ (sub'[s].st \in {"held", "dispatched"} \/ sub'[s].rel > 0)}
        BY Zenon DEF Users, InUse
      <3>2. \A x : Users(x) = {s \in Subs : sub[s].id = x /\ (sub[s].st \in {"held", "dispatched"} \/ sub[s].rel > 0)}
        BY Zenon DEF Users, InUse
      <3>3. u \in Subs /\ sub[u].st = "none" /\ ~(sub[u].rel > 0) /\ sub'[u].id = id /\ sub'[u].st = "held"
            /\ \A s \in Subs : s # u => sub'[s] = sub[s]
        BY Zenon, <2>4, <2>7, <2>8
      <3> HIDE DEF u
      <3>4. u \notin Users(id)
        BY Zenon, <3>2, <3>3
      <3>5. \A x, s : s # u => (s \in Users(x)' <=> s \in Users(x))
        BY Zenon, <3>1, <3>2, <3>3
      <3>6. \A x : u \in Users(x)' <=> x = id
        BY Zenon, <3>1, <3>3
      <3>7. \A x : u \notin Users(x)
        BY Zenon, <3>2, <3>3
      <3>8. Users(id)' = Users(id) \cup {u} /\ \A x \in Ids \ {id} : Users(x)' = Users(x)
        BY <3>5, <3>6, <3>7
      <3> QED
        BY Zenon, <3>4, <3>8 DEF u
    <2>10. Cardinality(Users(id)') = Cardinality(Users(id)) + 1
      BY ZenonT(30), <2>3, <2>9, UsersFinite, FS_AddElement
    <2>11. \A x \in counted : counters'[x] = Cardinality(Users(x)')
      <3>1. counted \subseteq Ids /\ \A x \in counted : counters[x] = Cardinality(Users(x))
        BY Zenon, <1>4 DEF Counting, TypeOK
      <3>2. counters'[id] = Cardinality(Users(id)')
        BY Zenon, <2>3, <2>6, <2>10, <3>1
      <3>3. \A x \in counted \ {id} : counters'[x] = Cardinality(Users(x)')
        BY Zenon, <2>6, <2>9, <3>1
      <3> QED
        BY Zenon, <3>2, <3>3
    <2>12. 1 \in 0..MaxBatch
      BY SMTT(30)
    <2>13. sub' = [sub EXCEPT ![<<c, 1>>] = r]
      BY Zenon, <2>1
    <2>14. /\ UNCHANGED <<registry, counted, lora_ref_cache, backend, wire, replies, used,
                       lora_update_lock, op, call>>
           /\ pc[c] \in {"resolve", "acquire"}
      BY Zenon, <1>1
    <2>15. /\ r.st \notin {"none", "looked"} /\ r.rel <= 1 /\ (r.rel > 0 => r.st = "done")
           /\ (r.st \in {"held", "dispatched"} \/ r.rel > 0 => r.id \in counted)
      BY <2>3, <2>4
    <2> QED
      BY ZenonT(30), <2>4, <2>5, <2>6, <2>11, <2>12, <2>13, <2>14, <2>15, <1>3, SubStep, ZenonT(30)
  <1> QED
    BY Zenon, <1>5, <1>6

(* The requests that account for a counter, when one request changes.       *)
LEMMA UsersStep ==
  ASSUME TypeOK, NEW u \in Subs, NEW r \in SubType, sub' = [sub EXCEPT ![u] = r]
  PROVE  /\ \A x, s : s # u => (s \in Users(x)' <=> s \in Users(x))
         /\ \A x : u \in Users(x)' <=> r.id = x /\ (r.st \in {"held", "dispatched"} \/ r.rel > 0)
         /\ \A x : u \in Users(x) <=>
              sub[u].id = x /\ (sub[u].st \in {"held", "dispatched"} \/ sub[u].rel > 0)
  <1>1. \A x : Users(x)' = {s \in Subs : sub'[s].id = x
                            /\ (sub'[s].st \in {"held", "dispatched"} \/ sub'[s].rel > 0)}
    BY Zenon DEF Users, InUse
  <1>2. \A x : Users(x) = {s \in Subs : sub[s].id = x
                           /\ (sub[s].st \in {"held", "dispatched"} \/ sub[s].rel > 0)}
    BY Zenon DEF Users, InUse
  <1>3. sub'[u] = r /\ \A s \in Subs : s # u => sub'[s] = sub[s]
    BY Zenon DEF TypeOK
  <1> QED
    BY Zenon, <1>1, <1>2, <1>3

(* A request that goes on, or ends with one release to come, still counts.  *)
LEMMA StillCounts ==
  ASSUME IInv, NEW c \in Calls, NEW i \in 0..MaxBatch, NEW r \in SubType,
         sub' = [sub EXCEPT ![<<c, i>>] = r], InUse(<<c, i>>), r.id = sub[<<c, i>>].id,
         (r.st = "dispatched" /\ r.rel = 0) \/ (r.st = "done" /\ r.rel = 1),
         UNCHANGED <<registry, lru, counters, counted, lora_ref_cache, backend, wire, replies,
                     used, lora_update_lock, pc, op, call>>
  PROVE  IInv'
  <1>1. <<c, i>> \in Subs /\ TypeOK /\ Counting
    BY Zenon DEF IInv
  <1>2. sub[<<c, i>>].st \in {"held", "dispatched"}
    BY Zenon DEF InUse
  <1>3. pc[c] = "acquire"
    BY Zenon, <1>2 DEF IInv, CallsQuiet
  <1>4. /\ \A x, s : s # <<c, i>> => (s \in Users(x)' <=> s \in Users(x))
        /\ \A x : <<c, i>> \in Users(x)' <=>
             r.id = x /\ (r.st \in {"held", "dispatched"} \/ r.rel > 0)
        /\ \A x : <<c, i>> \in Users(x) <=> sub[<<c, i>>].id = x
             /\ (sub[<<c, i>>].st \in {"held", "dispatched"} \/ sub[<<c, i>>].rel > 0)
    BY Zenon, <1>1, UsersStep, ZenonT(30)
  <1>5. \A x, s : s \in Users(x)' <=> s \in Users(x)
    BY <1>2, <1>4
  <1>6. \A x \in counted : Users(x)' = Users(x)
    <2> SUFFICES ASSUME NEW x \in counted PROVE Users(x)' = Users(x)
      BY Zenon
    <2>1. \A s : s \in Users(x)' <=> s \in Users(x)
      BY Zenon, <1>5
    <2> QED
      BY Zenon, <2>1, Zenon
  <1>7. \A x \in counted : counters'[x] = Cardinality(Users(x)')
    BY Zenon, <1>1, <1>6 DEF Counting
  <1>8. /\ lru' \subseteq registry \X registry /\ counters' \in [Ids -> Int]
        /\ pc' \in [Tasks -> PcType] /\ \A x \in Tasks \ {c} : pc'[x] = pc[x]
        /\ pc[c] \in {"resolve", "acquire"} /\ pc'[c] = "acquire"
    BY Zenon, <1>1, <1>3 DEF TypeOK
  <1>9. sub[<<c, i>>].id \in counted
    BY Zenon, <1>1, ZenonT(30) DEF Counting
  <1>10. /\ r.st \notin {"none", "looked"} /\ r.rel <= 1 /\ (r.rel > 0 => r.st = "done")
         /\ (r.st \in {"held", "dispatched"} \/ r.rel > 0 => r.id \in counted)
    BY SMTT(30), <1>9
  <1>11. UNCHANGED <<registry, counted, lora_ref_cache, backend, wire, replies, used,
                     lora_update_lock, op, call>>
    BY Zenon
  <1> QED
    BY Zenon, <1>7, <1>8, <1>10, <1>11, SubStep, ZenonT(30)

(* Sending the sub-requests, whose adapters acquire has counted, keeps the
   invariant. *)
LEMMA DispatchInv ==
  ASSUME IInv, NEW c \in Calls, Dispatch(c)
  PROVE  IInv'
  <1>1. /\ pc[c] = "acquire"
        /\ UNCHANGED <<registry, lru, counters, counted, lora_ref_cache, backend, wire, replies,
                       used, lora_update_lock, pc, op, call>>
    BY Zenon DEF Dispatch, registryVars, backendVars
  <1>2. call[c].kind = "str"
    BY Zenon, <1>1 DEF IInv, CallsQuiet
  <1>3. PICK i \in 0..MaxBatch :
          sub[<<c, i>>].st = "held" /\ sub' = [sub EXCEPT ![<<c, i>>].st = "dispatched"]
    BY ZenonT(30), <1>2 DEF Dispatch
  <1>4. sub[<<c, i>>] \in SubType
    BY Zenon DEF IInv, TypeOK, SubType
  <1>5. PICK r \in SubType : r = [sub[<<c, i>>] EXCEPT !.st = "dispatched"]
    BY Zenon, <1>4 DEF SubType
  <1>6. sub' = [sub EXCEPT ![<<c, i>>] = r]
    BY Zenon, <1>3, <1>5
  <1>7. r.id = sub[<<c, i>>].id /\ r.st = "dispatched" /\ r.rel = sub[<<c, i>>].rel
    BY Zenon, <1>4, <1>5 DEF SubType
  <1>8. sub[<<c, i>>].rel = 0
    BY <1>3, <1>4 DEF IInv, CallsQuiet, SubType
  <1>9. InUse(<<c, i>>)
    BY Zenon, <1>3 DEF InUse
  <1>10. (r.st = "dispatched" /\ r.rel = 0) \/ (r.st = "done" /\ r.rel = 1)
    BY Zenon, <1>7, <1>8
  <1> QED
    BY Zenon, <1>1, <1>6, <1>7, <1>9, <1>10, StillCounts, ZenonT(30)

(* A request that ends schedules exactly one release.                       *)
LEMMA EndRequestInv ==
  ASSUME IInv, Quiet, NEW c \in Calls, EndRequest(c)
  PROVE  IInv'
  <1>1. UNCHANGED <<registry, lru, counters, counted, lora_ref_cache, backend, wire, replies,
                    used, lora_update_lock, pc, op, call>>
    BY Zenon DEF EndRequest, registryVars, backendVars
  <1>2. PICK s \in Subs, e \in Ends :
          /\ s[1] = c /\ sub[s].st = "dispatched"
          /\ sub' = [sub EXCEPT ![s] =
                       [id |-> sub[s].id, st |-> "done",
                        rel |-> (IF e \in {"output", "output5xx"} THEN 1 ELSE 0)
                                + (IF e \in {"output5xx", "echo5xx"} /\ pc[c] # "error"
                                   THEN 1 ELSE 0)]]
    BY Zenon DEF EndRequest
  <1>3. PICK i \in 0..MaxBatch : s = <<c, i>>
    BY SMTT(30), <1>2
  <1>4. pc[c] = "acquire"
    BY Zenon, <1>2, <1>3 DEF IInv, CallsQuiet
  <1>5. (IF e \in {"output", "output5xx"} THEN 1 ELSE 0)
         + (IF e \in {"output5xx", "echo5xx"} /\ pc[c] # "error" THEN 1 ELSE 0) = 1
    BY SMTT(30), <1>4 DEF Quiet
  <1>7. sub[s] \in SubType
    BY Zenon DEF IInv, TypeOK, SubType
  <1>8. PICK r \in SubType : r = [id |-> sub[s].id, st |-> "done", rel |-> 1]
    <2>1. [id |-> sub[s].id, st |-> "done", rel |-> 1] \in SubType
      BY <1>7 DEF SubType
    <2> QED
      BY Zenon, <2>1
  <1>9. sub' = [sub EXCEPT ![s] = r]
    BY ZenonT(30), <1>2, <1>5, <1>8
  <1>10. r.id = sub[s].id /\ r.st = "done" /\ r.rel = 1
    BY Zenon, <1>8
  <1>11. InUse(s) /\ ((r.st = "dispatched" /\ r.rel = 0) \/ (r.st = "done" /\ r.rel = 1))
    BY Zenon, <1>2, <1>10 DEF InUse
  <1> QED
    BY Zenon, <1>1, <1>3, <1>9, <1>10, <1>11, StillCounts, ZenonT(30)

(* A release takes the request out of the count.                            *)
LEMMA ReleaseInv ==
  ASSUME IInv, NEW c \in Calls, Release(c)
  PROVE  IInv'
  <1>1. UNCHANGED <<registry, lru, counted, lora_ref_cache, backend, wire, replies, used,
                    lora_update_lock, pc, op, call>>
    BY Zenon DEF Release, backendVars
  <1>2. PICK s \in Subs :
          /\ s[1] = c /\ sub[s].rel > 0
          /\ sub' = [sub EXCEPT ![s].rel = @ - 1]
          /\ counters' = IF sub[s].id \in counted
                         THEN [counters EXCEPT ![sub[s].id] = @ - 1] ELSE counters
    BY Zenon DEF Release
  <1>3. PICK i \in 0..MaxBatch : s = <<c, i>>
    BY <1>2
  <1>4. TypeOK /\ Counting /\ sub[s] \in SubType
    BY Zenon DEF IInv, TypeOK, SubType
  <1>5. sub[s].st = "done" /\ pc[c] = "acquire" /\ sub[s].rel = 1
    <2>1. sub[s].rel > 0 => sub[s].st = "done"
      BY Zenon, <1>3 DEF IInv, CallsQuiet
    <2>2. sub[s].rel <= 1 /\ (sub[s].st = "none" \/ pc[c] = "acquire")
      BY Zenon, <1>3 DEF IInv, CallsQuiet
    <2>3. sub[s].rel \in 0..2
      BY Zenon, <1>4 DEF SubType
    <2> QED
      BY SMTT(30), <2>1, <2>2, <2>3, <1>2
  <1>6. PICK id \in counted : id = sub[s].id
    BY Zenon, <1>2, <1>4 DEF Counting
  <1>7. id \in Ids
    BY Zenon, <1>4 DEF TypeOK
  <1>8. PICK r \in SubType : r = [sub[s] EXCEPT !.rel = 0]
    <2>1. [sub[s] EXCEPT !.rel = 0] \in SubType
      BY <1>4 DEF SubType
    <2> QED
      BY Zenon, <2>1
  <1>9. r.id = id /\ r.st = "done" /\ r.rel = 0
    BY Zenon, <1>4, <1>5, <1>6, <1>8 DEF SubType
  <1>10. sub' = [sub EXCEPT ![s] = r]
    BY <1>2, <1>5, <1>8
  <1>11. /\ counters' \in [Ids -> Int] /\ counters'[id] = counters[id] - 1
         /\ \A x \in Ids \ {id} : counters'[x] = counters[x]
    BY <1>2, <1>4, <1>6, <1>7 DEF TypeOK
  <1>12. /\ \A x, u : u # s => (u \in Users(x)' <=> u \in Users(x))
         /\ \A x : s \in Users(x)' <=>
              r.id = x /\ (r.st \in {"held", "dispatched"} \/ r.rel > 0)
         /\ \A x : s \in Users(x) <=>
              sub[s].id = x /\ (sub[s].st \in {"held", "dispatched"} \/ sub[s].rel > 0)
    BY Zenon, <1>4, <1>10, UsersStep, Zenon
  <1>13. s \in Users(id) /\ \A u : u \in Users(id)' <=> u \in Users(id) /\ u # s
    BY SMTT(30), <1>2, <1>6, <1>9, <1>12
  <1>14. Users(id)' = Users(id) \ {s}
    BY Zenon, <1>13
  <1>15. Cardinality(Users(id)') = Cardinality(Users(id)) - 1
    <2>1. IsFiniteSet(Users(id))
      BY Zenon, <1>7, UsersFinite
    <2>2. Cardinality(Users(id) \ {s}) = Cardinality(Users(id)) - 1
      BY ZenonT(30), <2>1, <1>13, FS_RemoveElement
    <2> QED
      BY Zenon, <2>2, <1>14
  <1>16. \A x \in counted : counters'[x] = Cardinality(Users(x)')
    <2> SUFFICES ASSUME NEW x \in counted PROVE counters'[x] = Cardinality(Users(x)')
      BY Zenon
    <2>1. counters[x] = Cardinality(Users(x)) /\ x \in Ids
      BY ZenonT(30), <1>4 DEF Counting, TypeOK
    <2>2. CASE x = id
      BY Zenon, <2>1, <2>2, <1>11, <1>15
    <2>3. CASE x # id
      <3>1. \A u : u \in Users(x)' <=> u \in Users(x)
        BY ZenonT(30), <2>3, <1>6, <1>9, <1>12
      <3>2. Users(x)' = Users(x)
        BY Zenon, <3>1, Zenon
      <3> QED
        BY Zenon, <2>1, <2>3, <3>2, <1>11
    <2> QED
      BY Zenon, <2>2, <2>3
  <1>17. /\ lru' \subseteq registry \X registry
         /\ pc' \in [Tasks -> PcType] /\ \A x \in Tasks \ {c} : pc'[x] = pc[x]
         /\ pc[c] \in {"resolve", "acquire"} /\ pc'[c] = "acquire"
    BY ZenonT(30), <1>1, <1>4, <1>5 DEF TypeOK
  <1>18. /\ r.st \notin {"none", "looked"} /\ r.rel <= 1 /\ (r.rel > 0 => r.st = "done")
         /\ (r.st \in {"held", "dispatched"} \/ r.rel > 0 => r.id \in counted)
    BY <1>9
  <1>19. UNCHANGED <<registry, counted, lora_ref_cache, backend, wire, replies, used,
                     lora_update_lock, op, call>>
    BY ZenonT(30), <1>1
  <1>20. sub' = [sub EXCEPT ![<<c, i>>] = r]
    BY Zenon, <1>3, <1>10
  <1> QED
    BY Zenon, <1>11, <1>16, <1>17, <1>18, <1>19, <1>20, SubStep, ZenonT(30)

(* Every step keeps the invariant when no release is doubled or lost. *)
LEMMA NextInv ==
  ASSUME IInv, Quiet, Next
  PROVE  IInv'
  <1>1. CASE \E t \in Ctls : BeginControl(t)
    BY Zenon, <1>1, BeginControlInv, Zenon
  <1>2. CASE \E t \in Tasks : UpdateStep(t)
    BY Zenon, <1>2, SendLoadInv, LoadReplyInv, UnloadLockedInv, WaitForUnloadInv, UnloadReplyInv,
       ZenonT(30)
    DEF UpdateStep
  <1>3. CASE Backend \/ DropReply
    BY Zenon, <1>3, BackendInv, DropReplyInv, Zenon
  <1>4. ASSUME NEW c \in Calls, Start(c) \/ CallStep(c) \/ Fail(c) PROVE IInv'
    <2>1. CASE Start(c)
      BY Zenon, <2>1, StartInv, Zenon
    <2>2. CASE Increment(c)
      <3>1. PICK s \in Subs : s[1] = c /\ sub[s].st = "looked"
        BY Zenon, <2>2 DEF Increment
      <3> QED
        BY Zenon, <3>1 DEF IInv, CallsQuiet
    <2>3. CASE Fail(c)
      BY Zenon, <2>3 DEF Fail, Quiet
    <2> QED
      BY ZenonT(30), <1>4, <2>1, <2>2, <2>3, ReloadInv, AcquireInv, DispatchInv, EndRequestInv,
         ReleaseInv,
         Zenon DEF CallStep
  <1> QED
    BY Zenon, <1>1, <1>2, <1>3, <1>4, Zenon DEF Next

(* A step that changes nothing keeps the invariant. *)
LEMMA StutterInv ==
  ASSUME IInv, UNCHANGED vars
  PROVE  IInv'
  <1>1. UNCHANGED <<registry, lru, counters, counted, lora_ref_cache, backend, wire, replies,
                    used, lora_update_lock, pc, op, call, sub>>
    BY ZenonT(30) DEF vars
  <1>2. TypeOK'
    BY ZenonT(30), <1>1 DEF IInv, TypeOK
  <1>3. Serial' /\ Updating'
    BY Zenon, <1>1, SideStep DEF SameHolder
  <1>4. CallsQuiet' /\ Counting'
    BY Zenon, <1>1, CallsKept, CountingKept DEF IInv, Counting
  <1> QED
    BY Zenon, <1>2, <1>3, <1>4 DEF IInv

(* So the invariant holds in every state of such a deployment. *)
LEMMA Invariance ==
  ASSUME Quiet
  PROVE  Spec => []IInv
  <1>1. IInv /\ [Next]_vars => IInv'
    BY Zenon, NextInv, StutterInv
  <1> QED
    BY <1>1, InitInv, PTL DEF Spec

(* No adapter is dropped from the scheduler while a request uses it: the
   unload is sent only after wait_for_unload saw the counter at zero, and the
   counter is exact.                                                        *)
THEOREM SafeUnload ==
  ASSUME Quiet
  PROVE  Spec => []InUseIsLoaded
  <1>1. IInv => InUseIsLoaded
    BY Zenon DEF IInv, Counting, InUseIsLoaded
  <1>2. Spec => []IInv
    BY Zenon, Invariance
  <1> QED
    BY <1>1, <1>2, PTL

(* acquire and release are paired: each counter is the number of requests
   between their acquire and their release.                                 *)
THEOREM ExactCounting ==
  ASSUME Quiet
  PROVE  Spec => []CounterExact
  <1>1. IInv => CounterExact
    BY Zenon DEF IInv, Counting, CounterExact, Users
  <1>2. Spec => []IInv
    BY Invariance
  <1> QED
    BY <1>1, <1>2, PTL
=============================================================================
