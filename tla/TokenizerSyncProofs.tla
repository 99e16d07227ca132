------------------------ MODULE TokenizerSyncProofs -------------------------
(***************************************************************************)
(* Proofs about the two primitives on which the tasks of the tokenizer     *)
(* manager wait for each other: the reader-writer lock, for any number of  *)
(* tasks and acquisitions, and the communicator, for every set of calls    *)
(* and every number of schedulers.                                         *)
(***************************************************************************)
EXTENDS RWLock, Communicator, FiniteSetTheorems, SequenceTheorems, TLAPS

-----------------------------------------------------------------------------
(* The reader-writer lock.  The counters are exact because every step moves
   one task between two of the sets At(s); mutual exclusion follows from the
   counters.  That no wake-up is lost needs to know who may sleep while the
   lock is free: readers only, since a free lock has all waiting writers
   signalled.                                                              *)

Places == {"idle", "read_wait", "reading", "write_wait", "writing"}

(* The invariant behind mutual exclusion.                                  *)
LockInv == TypeOK /\ CountsExact /\ Exclusive /\ woken \subseteq Waiting

(* A free lock has signalled every writer that waits.                      *)
Signalled == Holding = {} => At("write_wait") \subseteq woken

(* The invariant behind the wake-ups.                                      *)
WakeInv == LockInv /\ NoLostWakeup /\ Signalled

-----------------------------------------------------------------------------
(* The tasks at a place are finitely many, and none is there if and only   *)
(* if their number is zero.                                                *)
LEMMA AtFinite ==
  ASSUME NEW s
  PROVE  /\ IsFiniteSet(At(s)) /\ Cardinality(At(s)) \in Nat
         /\ Cardinality(At(s)) = 0 <=> At(s) = {}
  <1>1. IsFiniteSet(At(s))
    BY Zenon, RWLockAssumption, FS_Subset DEF At
  <1> QED
    BY Zenon, <1>1, FS_CardinalityType, FS_EmptySet

(* A step of task t from place o to place s takes t out of At(o) and puts  *)
(* it into At(s).                                                          *)
LEMMA Move ==
  ASSUME TypeOK, NEW t \in Tasks, NEW s \in Places, pc' = [pc EXCEPT ![t] = s]
  PROVE  /\ pc' \in [Tasks -> Places]
         /\ \A x \in Places : At(x)' = IF x = s THEN At(x) \cup {t} ELSE At(x) \ {t}
  BY Zenon DEF TypeOK, At, Places

(* And the numbers of tasks at the places change accordingly.              *)
LEMMA MoveCount ==
  ASSUME TypeOK, NEW t \in Tasks, NEW s \in Places, pc[t] # s, pc' = [pc EXCEPT ![t] = s],
         NEW x \in Places
  PROVE  Cardinality(At(x)') = Cardinality(At(x)) + (IF x = s THEN 1 ELSE 0)
                                                  - (IF x = pc[t] THEN 1 ELSE 0)
  <1>1. At(x)' = IF x = s THEN At(x) \cup {t} ELSE At(x) \ {t}
    BY Zenon, Move
  <1>2. IsFiniteSet(At(x)) /\ Cardinality(At(x)) \in Nat
    BY Zenon, AtFinite
  <1>3. CASE x = s
    <2>1. t \notin At(x)
      BY Zenon, <1>3 DEF At
    <2> QED
      BY <1>1, <1>2, <1>3, <2>1, FS_AddElement
  <1>4. CASE x # s /\ x = pc[t]
    <2>1. t \in At(x)
      BY Zenon, <1>4 DEF At
    <2>2. Cardinality(At(x) \ {t}) = Cardinality(At(x)) - 1
      BY Zenon, <1>2, <2>1, FS_RemoveElement
    <2> QED
      BY <1>1, <1>2, <1>4, <2>2
  <1>5. CASE x # s /\ x # pc[t]
    <2>1. At(x)' = At(x)
      BY Zenon, <1>1, <1>5 DEF At
    <2> QED
      BY <1>2, <1>5, <2>1
  <1> QED
    BY Zenon, <1>3, <1>4, <1>5

(* Task t goes from its place to place s: the counters follow it, it      *)
(* starts to write only in a free lock and to read only without a writer,  *)
(* and only waiting tasks are left signalled.                              *)
Moves(t, s) ==
  /\ pc[t] # s /\ pc' = [pc EXCEPT ![t] = s]
  /\ acquires' \in Nat /\ woken' \subseteq Waiting'
  /\ readers' = readers + (IF s = "reading" THEN 1 ELSE 0)
                        - (IF pc[t] = "reading" THEN 1 ELSE 0)
  /\ waiting_writers' = waiting_writers + (IF s = "write_wait" THEN 1 ELSE 0)
                                        - (IF pc[t] = "write_wait" THEN 1 ELSE 0)
  /\ writer_active' \in BOOLEAN
  /\ writer_active' <=> s = "writing" \/ (writer_active /\ pc[t] # "writing")
  /\ s = "writing" => Holding = {}
  /\ s = "reading" => ~writer_active

(* Such a step keeps the invariant.                                        *)
LEMMA MoveInv ==
  ASSUME LockInv, NEW t \in Tasks, NEW s \in Places, Moves(t, s)
  PROVE  LockInv'
  <1> USE DEF Moves
  <1>1. TypeOK /\ CountsExact /\ Exclusive
    BY Zenon DEF LockInv
  <1>2. /\ pc' \in [Tasks -> Places]
        /\ \A x \in Places : At(x)' = IF x = s THEN At(x) \cup {t} ELSE At(x) \ {t}
    BY Zenon, <1>1, Move
  <1>3. Cardinality(At("reading")') = readers' /\ Cardinality(At("write_wait")') = waiting_writers'
    <2>1. "reading" \in Places /\ "write_wait" \in Places
      BY Zenon DEF Places
    <2>2. Cardinality(At("reading")') = readers'
      BY ZenonT(30), <1>1, <2>1, MoveCount DEF CountsExact
    <2>3. Cardinality(At("write_wait")') = waiting_writers'
      BY ZenonT(30), <1>1, <2>1, MoveCount DEF CountsExact
    <2> QED
      BY Zenon, <2>2, <2>3
  <1>4. readers' \in Nat /\ waiting_writers' \in Nat
    <2>1. IsFiniteSet(At("reading")') /\ IsFiniteSet(At("write_wait")')
      <3>1. At("reading")' \subseteq Tasks /\ At("write_wait")' \subseteq Tasks
        BY Zenon DEF At
      <3> QED
        BY Zenon, <3>1, RWLockAssumption, FS_Subset
    <2> QED
      BY Zenon, <1>3, <2>1, FS_CardinalityType
  <1>5. TypeOK'
    <2>1. woken' \subseteq Tasks
      BY Zenon DEF Waiting, At
    <2> QED
      BY Zenon, <1>2, <1>4, <2>1 DEF TypeOK, Places
  <1>6. /\ At("writing")' = IF s = "writing" THEN At("writing") \cup {t} ELSE At("writing") \ {t}
        /\ At("reading")' = IF s = "reading" THEN At("reading") \cup {t} ELSE At("reading") \ {t}
    BY Zenon, <1>2 DEF Places
  <1>7. (writer_active <=> At("writing") # {}) /\ (\A w \in At("writing") : Holding = {w})
    BY Zenon, <1>1 DEF CountsExact, Exclusive
  <1>8. (writer_active' <=> At("writing")' # {}) /\ (\A w \in At("writing")' : Holding' = {w})
    <2>1. CASE s = "writing"
      BY Zenon, <2>1, <1>6 DEF Holding
    <2>2. CASE s # "writing" /\ pc[t] = "writing"
      <3>1. t \in At("writing")
        BY Zenon, <2>2 DEF At
      <3>2. At("writing") \subseteq {t}
        BY Zenon, <3>1, <1>7 DEF Holding
      <3> QED
        BY Zenon, <2>2, <3>2, <1>6
    <2>3. CASE s # "writing" /\ pc[t] # "writing"
      <3>1. At("writing")' = At("writing")
        BY Zenon, <2>3, <1>6 DEF At
      <3>2. At("writing") # {} => s # "reading"
        BY Zenon, <1>7
      <3>3. At("writing") # {} => At("reading")' \subseteq At("reading")
        BY Zenon, <3>2, <1>6
      <3> QED
        BY Zenon, <2>3, <3>1, <3>3, <1>7 DEF Holding
    <2> QED
      BY Zenon, <2>1, <2>2, <2>3
  <1> QED
    BY Zenon, <1>3, <1>5, <1>8 DEF LockInv, CountsExact, Exclusive

(* A step that moves no task keeps the invariant.                          *)
LEMMA StayInv ==
  ASSUME LockInv, UNCHANGED <<readers, writer_active, waiting_writers, pc>>,
         acquires' \in Nat, woken' \subseteq woken
  PROVE  LockInv'
  <1>1. \A x : At(x)' = At(x)
    BY Zenon DEF At
  <1>2. Waiting' = Waiting /\ Holding' = Holding
    BY Zenon, <1>1 DEF Waiting, Holding
  <1> QED
    BY Zenon, <1>1, <1>2 DEF LockInv, TypeOK, CountsExact, Exclusive

(* The tests of the lock say what they are meant to: MayRead that nobody   *)
(* writes or waits to write, MayWrite that nobody holds the lock.          *)
LEMMA Tests ==
  ASSUME LockInv
  PROVE  /\ MayRead <=> At("writing") = {} /\ At("write_wait") = {}
         /\ MayWrite <=> Holding = {}
  BY Zenon, AtFinite DEF LockInv, CountsExact, MayRead, MayWrite, Holding

(* What a task that was signalled leaves behind are waiting tasks.         *)
LEMMA WaitersLeft ==
  ASSUME LockInv, NEW t \in Tasks, NEW s \in Places, pc' = [pc EXCEPT ![t] = s]
  PROVE  /\ Waiting \ {t} \subseteq Waiting'
         /\ s \in {"read_wait", "write_wait"} => Waiting' = Waiting \cup {t}
         /\ s \notin {"read_wait", "write_wait"} => Waiting' = Waiting \ {t}
  <1>1. \A x \in Places : At(x)' = IF x = s THEN At(x) \cup {t} ELSE At(x) \ {t}
    BY Zenon, Move DEF LockInv
  <1>2. /\ At("read_wait")' = IF s = "read_wait" THEN At("read_wait") \cup {t} ELSE At("read_wait") \ {t}
        /\ At("write_wait")' = IF s = "write_wait" THEN At("write_wait") \cup {t} ELSE At("write_wait") \ {t}
    BY Zenon, <1>1 DEF Places
  <1> QED
    BY Zenon, <1>2 DEF Waiting

(* acquire_reader, at the call and after a wake-up, keeps the invariant.   *)
LEMMA TakeReadInv ==
  ASSUME LockInv, NEW t \in Tasks, pc[t] \in {"idle", "read_wait"}, TakeRead(t), acquires' \in Nat
  PROVE  LockInv'
  <1>1. woken \subseteq Waiting /\ pc \in [Tasks -> Places]
    BY Zenon DEF LockInv, TypeOK, Places
  <1>2. CASE MayRead
    <2>1. pc' = [pc EXCEPT ![t] = "reading"] /\ readers' = readers + 1 /\ woken' = woken \ {t}
          /\ UNCHANGED <<writer_active, waiting_writers>> /\ ~writer_active
      BY Zenon, <1>2 DEF TakeRead, MayRead
    <2>2. "reading" \in Places
      BY Zenon DEF Places
    <2>3. woken' \subseteq Waiting'
      BY Zenon, <1>1, <2>1, <2>2, WaitersLeft
    <2>4. readers \in Nat /\ waiting_writers \in Nat /\ writer_active \in BOOLEAN
      BY Zenon DEF LockInv, TypeOK
    <2>9. Moves(t, "reading")
      BY <2>1, <2>2, <2>3, <2>4 DEF Moves
    <2> QED
      BY Zenon, <2>9, MoveInv DEF Places
  <1>3. CASE ~MayRead /\ pc[t] = "read_wait"
    <2>1. pc' = pc
      BY Zenon, <1>1, <1>3 DEF TakeRead
    <2> QED
      BY Zenon, <1>3, <2>1, StayInv DEF TakeRead
  <1>4. CASE ~MayRead /\ pc[t] = "idle"
    <2>1. pc' = [pc EXCEPT ![t] = "read_wait"] /\ woken' = woken \ {t}
          /\ UNCHANGED <<readers, writer_active, waiting_writers>>
      BY Zenon, <1>4 DEF TakeRead
    <2>2. "read_wait" \in Places
      BY Zenon DEF Places
    <2>3. woken' \subseteq Waiting'
      BY Zenon, <1>1, <2>1, <2>2, WaitersLeft
    <2>4. readers \in Nat /\ waiting_writers \in Nat /\ writer_active \in BOOLEAN
      BY DEF LockInv, TypeOK
    <2>9. Moves(t, "read_wait")
      BY <1>4, <2>1, <2>2, <2>3, <2>4 DEF Moves
    <2> QED
      BY Zenon, <2>9, MoveInv DEF Places
  <1> QED
    BY Zenon, <1>2, <1>3, <1>4

(* acquire_writer, at the call and after a wake-up, keeps the invariant.   *)
LEMMA TakeWriteInv ==
  ASSUME LockInv, NEW t \in Tasks, AcquireWriter(t) \/ WakeWriter(t), acquires' \in Nat
  PROVE  LockInv'
  <1>1. /\ woken \subseteq Waiting /\ pc \in [Tasks -> Places]
        /\ readers \in Nat /\ waiting_writers \in Nat /\ writer_active \in BOOLEAN
    BY Zenon DEF LockInv, TypeOK, Places
  <1>2. "writing" \in Places /\ "write_wait" \in Places
    BY Zenon DEF Places
  <1>3. MayWrite => Holding = {} /\ ~writer_active
    BY Zenon, Tests DEF MayWrite
  <1>4. CASE AcquireWriter(t)
    <2>1. pc[t] = "idle" /\ readers' = readers /\ woken' = woken
      BY Zenon, <1>4 DEF AcquireWriter
    <2>2. t \notin Waiting
      BY Zenon, <2>1 DEF Waiting, At
    <2>3. CASE MayWrite
      <3>1. pc' = [pc EXCEPT ![t] = "writing"] /\ waiting_writers' = waiting_writers /\ writer_active' = TRUE
        BY Zenon, <1>4, <2>3 DEF AcquireWriter
      <3>2. woken' \subseteq Waiting'
        BY Zenon, <1>1, <1>2, <2>1, <2>2, <3>1, WaitersLeft
      <3>9. Moves(t, "writing")
        BY <1>1, <1>2, <1>3, <2>1, <2>3, <3>1, <3>2 DEF Moves
      <3> QED
        BY Zenon, <3>9, MoveInv DEF Places
    <2>4. CASE ~MayWrite
      <3>1. pc' = [pc EXCEPT ![t] = "write_wait"] /\ waiting_writers' = waiting_writers + 1
            /\ writer_active' = writer_active
        BY Zenon, <1>1, <1>4, <2>4 DEF AcquireWriter
      <3>2. woken' \subseteq Waiting'
        BY Zenon, <1>1, <1>2, <2>1, <3>1, WaitersLeft
      <3>9. Moves(t, "write_wait")
        BY <1>1, <1>2, <2>1, <3>1, <3>2 DEF Moves
      <3> QED
        BY Zenon, <3>9, MoveInv DEF Places
    <2> QED
      BY Zenon, <2>3, <2>4
  <1>5. CASE WakeWriter(t)
    <2>1. pc[t] = "write_wait" /\ readers' = readers /\ woken' = woken \ {t}
      BY Zenon, <1>5 DEF WakeWriter
    <2>2. CASE MayWrite
      <3>1. pc' = [pc EXCEPT ![t] = "writing"] /\ waiting_writers' = waiting_writers - 1
            /\ writer_active' = TRUE
        BY Zenon, <1>5, <2>2 DEF WakeWriter
      <3>2. woken' \subseteq Waiting'
        BY Zenon, <1>1, <1>2, <2>1, <3>1, WaitersLeft
      <3>9. Moves(t, "writing")
        BY <1>1, <1>2, <1>3, <2>1, <2>2, <3>1, <3>2 DEF Moves
      <3> QED
        BY Zenon, <3>9, MoveInv DEF Places
    <2>3. CASE ~MayWrite
      <3>1. UNCHANGED <<pc, waiting_writers, writer_active>>
        BY Zenon, <1>1, <1>5, <2>1, <2>3 DEF WakeWriter
      <3> QED
        BY Zenon, <2>1, <3>1, StayInv
    <2> QED
      BY <2>2, <2>3
  <1> QED
    BY Zenon, <1>4, <1>5

(* release_reader and release_writer keep the invariant.                   *)
LEMMA ReleaseInv ==
  ASSUME LockInv, NEW t \in Tasks, ReleaseReader(t) \/ ReleaseWriter(t), acquires' \in Nat
  PROVE  LockInv'
  <1>1. /\ woken \subseteq Waiting /\ readers \in Nat /\ waiting_writers \in Nat
        /\ writer_active \in BOOLEAN /\ "idle" \in Places
    BY Zenon DEF LockInv, TypeOK, Places
  <1>2. pc[t] \in {"reading", "writing"} /\ pc' = [pc EXCEPT ![t] = "idle"] /\ woken' \subseteq Waiting
    BY Zenon, <1>1 DEF ReleaseReader, ReleaseWriter, NotifyAll
  <1>3. t \notin Waiting
    BY Zenon, <1>2 DEF Waiting, At
  <1>4. woken' \subseteq Waiting'
    BY Zenon, <1>1, <1>2, <1>3, WaitersLeft
  <1>5. CASE ReleaseReader(t)
    <2>1. Moves(t, "idle")
      BY <1>1, <1>2, <1>4, <1>5 DEF Moves, ReleaseReader
    <2> QED
      BY Zenon, <1>1, <2>1, MoveInv
  <1>6. CASE ReleaseWriter(t)
    <2>2. pc[t] = "writing" /\ ~writer_active' /\ writer_active' \in BOOLEAN
          /\ UNCHANGED <<readers, waiting_writers>>
      BY Zenon, <1>6 DEF ReleaseWriter
    <2>1. Moves(t, "idle")
      BY <1>1, <1>2, <1>4, <2>2 DEF Moves
    <2> QED
      BY Zenon, <1>1, <2>1, MoveInv
  <1> QED
    BY <1>5, <1>6

(* What a cancelled wait does to the signals: its own is dropped, and with *)
(* Renotify another waiter that has none gets one.                         *)
LEMMA CancelSignals ==
  ASSUME NEW t \in Tasks, CancelWait(t)
  PROVE  /\ woken \ {t} \subseteq woken' /\ woken' \subseteq (woken \cup Waiting) \ {t}
         /\ Renotify /\ ~(Waiting \subseteq woken \cup {t}) => woken' # {}
  <1>1. CASE Renotify /\ Waiting \ (woken \cup {t}) # {}
    <2>1. PICK u \in Waiting \ (woken \cup {t}) : woken' = (woken \ {t}) \cup {u}
      BY Zenon, <1>1 DEF CancelWait
    <2> QED
      BY Zenon, <2>1
  <1>2. CASE ~(Renotify /\ Waiting \ (woken \cup {t}) # {})
    <2>1. woken' = woken \ {t}
      BY Zenon, <1>2 DEF CancelWait
    <2> QED
      BY Zenon, <1>2, <2>1
  <1> QED
    BY Zenon, <1>1, <1>2

(* A cancelled wait keeps the invariant.                                   *)
LEMMA CancelInv ==
  ASSUME LockInv, NEW t \in Tasks, CancelWait(t), acquires' \in Nat
  PROVE  LockInv'
  <1>1. /\ woken \subseteq Waiting /\ readers \in Nat /\ waiting_writers \in Nat
        /\ writer_active \in BOOLEAN /\ "idle" \in Places
    BY Zenon DEF LockInv, TypeOK, Places
  <1>2. /\ pc[t] \in {"read_wait", "write_wait"} /\ pc' = [pc EXCEPT ![t] = "idle"]
        /\ waiting_writers' = IF pc[t] = "write_wait" THEN waiting_writers - 1 ELSE waiting_writers
        /\ UNCHANGED <<readers, writer_active>>
    BY Zenon DEF CancelWait, Waiting, At
  <1>3. woken' \subseteq Waiting \ {t}
    BY Zenon, <1>1, CancelSignals
  <1>4. woken' \subseteq Waiting'
    BY Zenon, <1>1, <1>2, <1>3, WaitersLeft
  <1>5. Moves(t, "idle")
    BY <1>1, <1>2, <1>4 DEF Moves
  <1> QED
    BY Zenon, <1>1, <1>5, MoveInv

(* Every step keeps the invariant.                                         *)
LEMMA NextLockInv ==
  ASSUME LockInv, [Next]_vars
  PROVE  LockInv'
  <1>1. acquires \in Nat
    BY Zenon DEF LockInv, TypeOK
  <1>2. CASE UNCHANGED vars
    BY Zenon, <1>1, <1>2, StayInv DEF vars
  <1>3. ASSUME NEW t \in Tasks, Start(t) PROVE LockInv'
    <2>1. acquires' \in Nat /\ (AcquireReader(t) \/ AcquireWriter(t))
      BY <1>1, <1>3 DEF Start
    <2>2. AcquireReader(t) => LockInv'
      BY Zenon, <2>1, TakeReadInv DEF AcquireReader
    <2> QED
      BY Zenon, <2>1, <2>2, TakeWriteInv
  <1>4. ASSUME NEW t \in Tasks, Continue(t) PROVE LockInv'
    <2>1. acquires' \in Nat /\ (WakeReader(t) \/ WakeWriter(t) \/ ReleaseReader(t) \/ ReleaseWriter(t))
      BY Zenon, <1>1, <1>4 DEF Continue
    <2>2. WakeReader(t) => LockInv'
      BY Zenon, <2>1, TakeReadInv DEF WakeReader
    <2> QED
      BY Zenon, <2>1, <2>2, TakeWriteInv, ReleaseInv
  <1>5. ASSUME NEW t \in Tasks, Cancel(t) PROVE LockInv'
    BY Zenon, <1>1, <1>5, CancelInv DEF Cancel
  <1> QED
    BY Zenon, <1>2, <1>3, <1>4, <1>5 DEF Next

(* The lock starts free, with nobody waiting.                              *)
LEMMA InitLockInv == Init => LockInv
  <1> SUFFICES ASSUME Init PROVE LockInv
    BY Zenon
  <1>1. \A s \in Places \ {"idle"} : At(s) = {}
    BY Zenon DEF Init, LockInit, At
  <1>2. At("reading") = {} /\ At("writing") = {} /\ At("write_wait") = {}
    BY Zenon, <1>1 DEF Places
  <1> QED
    BY Zenon, <1>2, FS_EmptySet DEF Init, LockInit, LockInv, TypeOK, CountsExact, Exclusive

(* LockInv holds in every state.                                           *)
LEMMA LockInvariance == Spec => []LockInv
  BY InitLockInv, NextLockInv, PTL DEF Spec

(* Mutual exclusion, for any number of tasks and any cancellations: while  *)
(* a task is inside writer_lock, no other task is inside either context.   *)
THEOREM MutualExclusion == Spec => []Exclusive
  <1>1. LockInv => Exclusive
    BY Zenon DEF LockInv
  <1> QED
    BY <1>1, LockInvariance, PTL

(* _readers, _waiting_writers and _writer_active are exact in every state: *)
(* no cancellation leaves a count behind.                                  *)
THEOREM CountersExact == Spec => []CountsExact
  <1>1. LockInv => CountsExact
    BY Zenon DEF LockInv
  <1> QED
    BY <1>1, LockInvariance, PTL

(* Writer preference, as a property of every step: while a writer waits,   *)
(* acquire_reader lets nobody in, woken or new.                            *)
THEOREM WritersFirst == Spec => ReadersYield
  <1>1. ASSUME LockInv, [Next]_vars, At("write_wait") # {}, NEW t \in Tasks, pc'[t] = "reading"
        PROVE  pc[t] = "reading"
    <2>1. ~MayRead /\ pc \in [Tasks -> Places]
      BY Zenon, <1>1, Tests DEF LockInv, TypeOK, Places
    <2>2. ASSUME NEW u \in Tasks, NEW s, s # "reading", pc' = [pc EXCEPT ![u] = s]
          PROVE  pc[t] = "reading"
      BY Zenon, <1>1, <2>1, <2>2
    <2>3. ASSUME NEW u \in Tasks, Start(u) \/ Continue(u) \/ Cancel(u)
          PROVE  \E s : s # "reading" /\ pc' = [pc EXCEPT ![u] = s]
      <3>1. TakeRead(u) => pc' = [pc EXCEPT ![u] = "read_wait"]
        BY Zenon, <2>1 DEF TakeRead
      <3>2. AcquireWriter(u) \/ WakeWriter(u) =>
              pc' = [pc EXCEPT ![u] = "writing"] \/ pc' = [pc EXCEPT ![u] = "write_wait"]
        BY Zenon DEF AcquireWriter, WakeWriter
      <3>3. ReleaseReader(u) \/ ReleaseWriter(u) \/ CancelWait(u) => pc' = [pc EXCEPT ![u] = "idle"]
        BY Zenon DEF ReleaseReader, ReleaseWriter, CancelWait
      <3>4. TakeRead(u) \/ AcquireWriter(u) \/ WakeWriter(u) \/ ReleaseReader(u)
              \/ ReleaseWriter(u) \/ CancelWait(u)
        BY Zenon, <2>3 DEF Start, Continue, Cancel, AcquireReader, WakeReader
      <3> QED
        BY Zenon, <3>1, <3>2, <3>3, <3>4
    <2>4. CASE UNCHANGED vars
      BY Zenon, <1>1, <2>4 DEF vars
    <2>5. CASE Next
      BY Zenon, <2>2, <2>3, <2>5 DEF Next
    <2> QED
      BY Zenon, <1>1, <2>4, <2>5
  <1>2. LockInv /\ [Next]_vars => [At("write_wait") # {} => At("reading")' \subseteq At("reading")]_vars
    BY Zenon, <1>1 DEF At
  <1> QED
    BY <1>2, LockInvariance, PTL DEF Spec, ReadersYield

-----------------------------------------------------------------------------
(* Wake-ups.  A step that leaves the lock held owes nobody a wake-up.      *)
LEMMA HeldInv ==
  ASSUME Holding' # {}
  PROVE  NoLostWakeup' /\ Signalled'
  BY Zenon DEF NoLostWakeup, Signalled

(* acquire_reader: if the lock is free, a reader goes to sleep only behind *)
(* a waiting writer, and that one is signalled.                            *)
LEMMA TakeReadWakes ==
  ASSUME WakeInv, NEW t \in Tasks, pc[t] \in {"idle", "read_wait"}, TakeRead(t)
  PROVE  NoLostWakeup' /\ Signalled'
  <1>1. LockInv /\ TypeOK /\ "reading" \in Places /\ "read_wait" \in Places
    BY Zenon DEF WakeInv, LockInv, Places
  <1>2. CASE MayRead
    <2>1. pc' = [pc EXCEPT ![t] = "reading"]
      BY Zenon, <1>2 DEF TakeRead
    <2>2. t \in At("reading")'
      BY Zenon, <1>1, <2>1 DEF At, TypeOK
    <2> QED
      BY Zenon, <2>2, HeldInv DEF Holding
  <1>3. CASE ~MayRead
    <2>1. pc' = [pc EXCEPT ![t] = "read_wait"] /\ woken' = woken \ {t}
      BY Zenon, <1>3 DEF TakeRead
    <2>2. /\ At("reading")' = At("reading") /\ At("writing")' = At("writing")
          /\ At("write_wait")' = At("write_wait") /\ t \notin At("write_wait")
      BY Zenon, <1>1, <2>1 DEF At, TypeOK
    <2>3. Holding' = {} => At("write_wait") # {} /\ At("write_wait") \subseteq woken
      BY Zenon, <1>1, <1>3, <2>2, Tests DEF Holding, WakeInv, Signalled
    <2> QED
      BY Zenon, <2>1, <2>2, <2>3 DEF NoLostWakeup, Signalled
  <1> QED
    BY Zenon, <1>2, <1>3

(* acquire_writer: a writer goes to sleep only while the lock is held.     *)
LEMMA TakeWriteWakes ==
  ASSUME WakeInv, NEW t \in Tasks, AcquireWriter(t) \/ WakeWriter(t)
  PROVE  NoLostWakeup' /\ Signalled'
  <1>1. LockInv /\ TypeOK
    BY Zenon DEF WakeInv, LockInv
  <1>2. /\ pc[t] \in {"idle", "write_wait"}
        /\ pc' = [pc EXCEPT ![t] = IF MayWrite THEN "writing" ELSE "write_wait"]
    BY Zenon DEF AcquireWriter, WakeWriter
  <1>3. CASE MayWrite
    <2>1. t \in At("writing")'
      BY Zenon, <1>1, <1>2, <1>3 DEF At, TypeOK
    <2> QED
      BY Zenon, <2>1, HeldInv DEF Holding
  <1>4. CASE ~MayWrite
    <2>1. Holding # {}
      BY Zenon, <1>1, <1>4, Tests
    <2>2. At("reading")' = At("reading") /\ At("writing")' = At("writing")
      BY Zenon, <1>1, <1>2, <1>4 DEF At, TypeOK
    <2> QED
      BY Zenon, <2>1, <2>2, HeldInv DEF Holding
  <1> QED
    BY Zenon, <1>3, <1>4

(* The last holder to leave wakes everybody.                               *)
LEMMA ReleaseWakes ==
  ASSUME WakeInv, NEW t \in Tasks, ReleaseReader(t) \/ ReleaseWriter(t)
  PROVE  NoLostWakeup' /\ Signalled'
  <1>1. LockInv /\ TypeOK /\ "reading" \in Places /\ "idle" \in Places
    BY Zenon DEF WakeInv, LockInv, Places
  <1>2. pc[t] \in {"reading", "writing"} /\ pc' = [pc EXCEPT ![t] = "idle"]
    BY Zenon DEF ReleaseReader, ReleaseWriter
  <1>3. CASE NotifyAll
    <2>1. Waiting' = Waiting /\ At("write_wait")' = At("write_wait")
      BY Zenon, <1>1, <1>2 DEF Waiting, At, TypeOK
    <2> QED
      BY Zenon, <1>3, <2>1 DEF NotifyAll, NoLostWakeup, Signalled, Waiting
  <1>4. CASE ~NotifyAll
    <2>1. ReleaseReader(t) /\ pc[t] = "reading" /\ readers # 1
      BY Zenon, <1>4 DEF ReleaseReader, ReleaseWriter
    <2>2. Cardinality(At("reading")') = readers - 1 /\ readers \in Nat
      <3>1. Cardinality(At("reading")') = Cardinality(At("reading")) + (IF "reading" = "idle" THEN 1 ELSE 0)
                                            - (IF "reading" = pc[t] THEN 1 ELSE 0)
        BY ZenonT(30), <1>1, <1>2, <2>1, MoveCount
      <3> QED
        BY <1>1, <2>1, <3>1 DEF LockInv, CountsExact, TypeOK
    <2>3. At("reading")' # {}
      BY <2>1, <2>2, FS_EmptySet
    <2> QED
      BY Zenon, <2>3, HeldInv DEF Holding
  <1> QED
    BY <1>3, <1>4

(* A cancelled waiter that was the last one signalled signals another.     *)
LEMMA CancelWakes ==
  ASSUME WakeInv, Renotify, NEW t \in Tasks, CancelWait(t)
  PROVE  NoLostWakeup' /\ Signalled'
  <1>1. LockInv /\ TypeOK /\ "idle" \in Places
    BY Zenon DEF WakeInv, LockInv, Places
  <1>2. pc[t] \in {"read_wait", "write_wait"} /\ pc' = [pc EXCEPT ![t] = "idle"]
    BY Zenon DEF CancelWait, Waiting, At
  <1>3. /\ Waiting' = Waiting \ {t} /\ At("write_wait")' = At("write_wait") \ {t}
        /\ Holding' = Holding
    BY Zenon, <1>1, <1>2 DEF Waiting, Holding, At, TypeOK
  <1>4. /\ woken \ {t} \subseteq woken'
        /\ ~(Waiting \subseteq woken \cup {t}) => woken' # {}
    BY Zenon, CancelSignals
  <1>5. Signalled'
    BY Zenon, <1>3, <1>4 DEF WakeInv, Signalled
  <1>6. NoLostWakeup'
    BY Zenon, <1>3, <1>4 DEF NoLostWakeup
  <1> QED
    BY Zenon, <1>5, <1>6

(* Every step keeps the invariant if cancelled waits pass wake-ups on.     *)
LEMMA NextWakeInv ==
  ASSUME WakeInv, Renotify, [Next]_vars
  PROVE  WakeInv'
  <1>1. LockInv'
    BY Zenon, NextLockInv DEF WakeInv
  <1>2. CASE UNCHANGED vars
    BY Zenon, <1>1, <1>2 DEF WakeInv, vars, NoLostWakeup, Signalled, Waiting, Holding, At
  <1>3. ASSUME NEW t \in Tasks, Start(t) \/ Continue(t) \/ Cancel(t) PROVE NoLostWakeup' /\ Signalled'
    <2>1. \/ pc[t] \in {"idle", "read_wait"} /\ TakeRead(t)
          \/ AcquireWriter(t) \/ WakeWriter(t)
          \/ ReleaseReader(t) \/ ReleaseWriter(t)
          \/ CancelWait(t)
      BY Zenon, <1>3 DEF Start, Continue, Cancel, AcquireReader, WakeReader
    <2> QED
      BY Zenon, <2>1, TakeReadWakes, TakeWriteWakes, ReleaseWakes, CancelWakes
  <1>4. CASE Next
    BY Zenon, <1>1, <1>3, <1>4 DEF Next, WakeInv
  <1> QED
    BY Zenon, <1>2, <1>4

(* No wake-up is lost, on a Python whose Condition.wait passes the wake-up *)
(* of a cancelled task on: a free lock with tasks waiting for it always    *)
(* has one of them on its way.                                             *)
THEOREM WakeupsKept ==
  ASSUME Renotify
  PROVE  Spec => []NoLostWakeup
  <1>1. Init => WakeInv
    <2> SUFFICES ASSUME Init PROVE WakeInv
      BY Zenon
    <2>1. Waiting = {}
      BY Zenon DEF Init, LockInit, Waiting, At
    <2> QED
      BY Zenon, <2>1, InitLockInv DEF WakeInv, NoLostWakeup, Signalled, Waiting
  <1>2. WakeInv /\ [Next]_vars => WakeInv'
    BY Zenon, NextWakeInv
  <1>3. WakeInv => NoLostWakeup
    BY Zenon DEF WakeInv
  <1> QED
    BY <1>1, <1>2, <1>3, PTL DEF Spec

-----------------------------------------------------------------------------
(* The communicator: nobody is overtaken in the queue, one request is in
   flight, and every call returns the replies to its own request.          *)

Replies == [rank : Ranks, call : Calls]

TypeInv ==
  /\ mode \in {"queueing", "watching"} /\ fan_out \in Ranks
  /\ queueing_lock \in Seq(Calls) /\ asked \in Seq(Calls)
  /\ holder \in Calls \cup {None} /\ result_event \in Calls \cup {None}
  /\ result_fan_out \in Nat /\ is_set \subseteq Calls
  /\ values \in [Calls -> Seq(Replies)] /\ result \in [Calls -> Seq(Replies)]
  /\ joined \in [Calls -> Calls] /\ pipe \in [Ranks -> Seq(Calls)]
  /\ at \in [Calls -> {"new", "queued", "waiting", "returned", "cancelled"}]

(* A queued call is among the waiters of the lock; a call that has not     *)
(* arrived has sent nothing.                                               *)
Queued ==
  \A c \in Calls :
    /\ at[c] = "queued" => c \in ToSet(queueing_lock) /\ mode = "queueing"
    /\ at[c] = "new" => c \notin ToSet(asked)

(* A call that has sent nothing has no list, no event, and joined nobody.  *)
Fresh ==
  \A c \in Calls : at[c] \in {"new", "queued"} =>
    values[c] = <<>> /\ c \notin is_set /\ c # result_event /\ joined[c] = c

RanksOf(s) == {s[i].rank : i \in DOMAIN s}

Answered == {k \in 1..result_fan_out : pipe[k] = <<>>}

(* The request of call e is in flight: a scheduler has answered it and the *)
(* reply is in the list of e, or has yet to answer it.                     *)
InFlight(e) ==
  /\ result_fan_out \in Ranks
  /\ \A k \in Ranks : pipe[k] = <<>> \/ (k <= result_fan_out /\ pipe[k] = <<e>>)
  /\ \A i \in DOMAIN values[e] : values[e][i].call = e
  /\ RanksOf(values[e]) = Answered
  /\ Len(values[e]) = Cardinality(Answered)
  /\ e \in is_set <=> Answered = 1..result_fan_out

Idle == \A k \in Ranks : pipe[k] = <<>>

(* The event of d is set: its list is whole and nothing of it in flight.   *)
Complete(d) ==
  /\ values[d] # <<>>
  /\ \A i \in DOMAIN values[d] : values[d][i].call = d
  /\ RanksOf(values[d]) = 1..Len(values[d])
  /\ \A k \in Ranks : d \notin ToSet(pipe[k])

(* In queueing mode the holder of the lock is the one call that waits.     *)
Turns ==
  mode = "queueing" =>
    /\ holder = None => result_event = None
    /\ \A c \in Calls : joined[c] = c /\ (at[c] = "waiting" => holder = c /\ result_event = c)

Returned(c) == joined[c] \in is_set /\ result[c] = values[joined[c]]

Flight ==
  /\ result_event = None => Idle
  /\ \A e \in Calls : result_event = e => InFlight(e)
  /\ \A d \in is_set : Complete(d)
  /\ \A c \in Calls : at[c] = "returned" => Returned(c)
  /\ Turns

IInv == TypeInv /\ Queued /\ Fresh /\ (Undisturbed => Flight)

-----------------------------------------------------------------------------

(* The elements of a sequence after an append, a pop and a removal.         *)
LEMMA ToSetAppend ==
  ASSUME NEW S, NEW s \in Seq(S), NEW x \in S
  PROVE  ToSet(Append(s, x)) = ToSet(s) \cup {x}
  <1>1. /\ DOMAIN Append(s, x) = 1..(Len(s) + 1) /\ DOMAIN s = 1..Len(s)
        /\ \A i \in 1..Len(s) : Append(s, x)[i] = s[i]
        /\ Append(s, x)[Len(s) + 1] = x /\ Len(s) \in Nat
    OBVIOUS
  <1>2. \A i \in 1..(Len(s) + 1) : i \in 1..Len(s) \/ i = Len(s) + 1
    BY <1>1
  <1>3. 1..Len(s) \subseteq 1..(Len(s) + 1) /\ Len(s) + 1 \in 1..(Len(s) + 1)
    BY <1>1
  <1> QED
    BY Zenon, <1>1, <1>2, <1>3 DEF ToSet

(* The elements of a queue are its head and those of its tail.            *)
LEMMA ToSetTail ==
  ASSUME NEW S, NEW s \in Seq(S), s # <<>>
  PROVE  ToSet(s) = {Head(s)} \cup ToSet(Tail(s))
  <1>1. /\ DOMAIN s = 1..Len(s) /\ DOMAIN Tail(s) = 1..(Len(s) - 1) /\ Len(s) \in Nat \ {0}
        /\ \A i \in 1..(Len(s) - 1) : Tail(s)[i] = s[i + 1] /\ i + 1 \in 1..Len(s)
        /\ Head(s) = s[1] /\ 1 \in 1..Len(s)
    OBVIOUS
  <1>2. \A i \in 1..Len(s) : i = 1 \/ \E j \in 1..(Len(s) - 1) : i = j + 1
    <2> TAKE i \in 1..Len(s)
    <2>1. i = 1 \/ (i - 1 \in 1..(Len(s) - 1) /\ i = (i - 1) + 1)
      BY <1>1
    <2> QED
      BY Zenon, <2>1
  <1>3. ASSUME NEW y \in ToSet(s) PROVE y \in {Head(s)} \cup ToSet(Tail(s))
    <2>1. PICK i \in 1..Len(s) : y = s[i]
      BY Zenon, <1>1 DEF ToSet
    <2>2. CASE i = 1
      BY Zenon, <1>1, <2>1, <2>2
    <2>3. ASSUME NEW j \in 1..(Len(s) - 1), i = j + 1 PROVE y \in ToSet(Tail(s))
      <3>1. y = Tail(s)[j] /\ j \in DOMAIN Tail(s)
        BY Zenon, <1>1, <2>1, <2>3
      <3> QED
        BY Zenon, <3>1 DEF ToSet
    <2> QED
      BY Zenon, <1>2, <2>2, <2>3
  <1>4. Head(s) \in ToSet(s)
    BY Zenon, <1>1 DEF ToSet
  <1>5. ASSUME NEW y \in ToSet(Tail(s)) PROVE y \in ToSet(s)
    <2>1. PICK j \in 1..(Len(s) - 1) : y = Tail(s)[j]
      BY Zenon, <1>1 DEF ToSet
    <2>2. y = s[j + 1] /\ j + 1 \in DOMAIN s
      BY Zenon, <1>1, <2>1
    <2> QED
      BY Zenon, <2>2 DEF ToSet
  <1> QED
    BY Zenon, <1>3, <1>4, <1>5

(* Taking a message out of a queue leaves a queue.                        *)
LEMMA RemoveAtSeq ==
  ASSUME NEW S, NEW s \in Seq(S), NEW k \in DOMAIN s
  PROVE  RemoveAt(s, k) \in Seq(S)
  <1>1. SubSeq(s, 1, k - 1) \in Seq(S) /\ SubSeq(s, k + 1, Len(s)) \in Seq(S)
    OBVIOUS
  <1> QED
    BY <1>1 DEF RemoveAt

(* Taking one message out of a queue leaves the others.                   *)
LEMMA ToSetRemoveAt ==
  ASSUME NEW S, NEW s \in Seq(S), NEW k \in DOMAIN s, NEW y \in ToSet(s), y # s[k]
  PROVE  RemoveAt(s, k) \in Seq(S) /\ y \in ToSet(RemoveAt(s, k))
  <1> DEFINE a == SubSeq(s, 1, k - 1)
             b == SubSeq(s, k + 1, Len(s))
  <1>1. /\ k \in 1..Len(s) /\ Len(s) \in Nat /\ \A i \in 1..Len(s) : s[i] \in S
    OBVIOUS
  <1>2. /\ a \in Seq(S) /\ Len(a) = k - 1 /\ \A i \in 1..(k - 1) : a[i] = s[i]
    BY <1>1
  <1>3. /\ b \in Seq(S) /\ Len(b) = Len(s) - k /\ \A i \in 1..(Len(s) - k) : b[i] = s[k + i]
    BY <1>1
  <1> HIDE DEF a, b
  <1>4. /\ a \o b \in Seq(S) /\ Len(a \o b) = Len(s) - 1
        /\ \A i \in 1..(Len(s) - 1) : (a \o b)[i] = IF i < k THEN s[i] ELSE s[i + 1]
    BY <1>1, <1>2, <1>3
  <1>5. PICK i \in 1..Len(s) : y = s[i] /\ i # k
    BY DEF ToSet
  <1>6. \E j \in 1..(Len(s) - 1) : y = (a \o b)[j]
    <2>1. CASE i < k
      <3>1. i \in 1..(Len(s) - 1)
        BY <1>1, <2>1
      <3> QED
        BY Zenon, <1>4, <1>5, <2>1, <3>1
    <2>2. CASE i > k
      <3>1. i - 1 \in 1..(Len(s) - 1) /\ ~(i - 1 < k) /\ (i - 1) + 1 = i
        BY <1>1, <2>2
      <3> QED
        BY Zenon, <1>4, <1>5, <3>1
    <2>3. i < k \/ i > k
      BY <1>1, <1>5
    <2> QED
      BY Zenon, <2>1, <2>2, <2>3
  <1>7. DOMAIN (a \o b) = 1..(Len(s) - 1)
    BY <1>4
  <1> QED
    BY Zenon, <1>4, <1>6, <1>7 DEF ToSet, RemoveAt, a, b

-----------------------------------------------------------------------------
(* Sending keeps the types and records the call as asked.                 *)
LEMMA SendTypes ==
  ASSUME TypeInv, NEW c \in Calls, Send(c)
  PROVE  /\ pipe' \in [Ranks -> Seq(Calls)] /\ asked' \in Seq(Calls)
         /\ result_event' \in Calls \cup {None} /\ result_fan_out' \in Nat
         /\ ToSet(asked') = ToSet(asked) \cup {c}
  <1>1. \A k \in Ranks : Append(pipe[k], c) \in Seq(Calls) /\ pipe[k] \in Seq(Calls)
    BY DEF TypeInv
  <1>2. pipe' \in [Ranks -> Seq(Calls)]
    BY Zenon, <1>1 DEF Send
  <1>3. asked' \in Seq(Calls) /\ result_event' \in Calls \cup {None} /\ result_fan_out' \in Nat
    BY DEF Send, TypeInv, Ranks
  <1>4. ToSet(Append(asked, c)) = ToSet(asked) \cup {c}
    BY ToSetAppend DEF TypeInv
  <1> QED
    BY Zenon, <1>2, <1>3, <1>4 DEF Send

(* Every step keeps the types.                                            *)
LEMMA TypeStep == TypeInv /\ Queued /\ [CommNext]_commVars => TypeInv'
  <1> SUFFICES ASSUME TypeInv, Queued, [CommNext]_commVars PROVE TypeInv'
    BY Zenon
  <1>1. ASSUME NEW c \in Calls, Enter(c) PROVE TypeInv'
    <2>1. CASE holder = None /\ queueing_lock = <<>>
      BY Zenon, <1>1, <2>1, SendTypes DEF Enter, TypeInv
    <2>2. CASE ~(holder = None /\ queueing_lock = <<>>)
      <3>1. Append(queueing_lock, c) \in Seq(Calls)
        BY DEF TypeInv
      <3> QED
        BY Zenon, <1>1, <2>2, <3>1 DEF Enter, TypeInv
    <2> QED
      BY Zenon, <2>1, <2>2
  <1>2. ASSUME NEW c \in Calls, Locked(c), c \in ToSet(queueing_lock) PROVE TypeInv'
    <2>1. queueing_lock # <<>>
      BY <1>2 DEF ToSet
    <2>2. Tail(queueing_lock) \in Seq(Calls)
      BY <2>1 DEF TypeInv
    <2> QED
      BY Zenon, <1>2, <2>2, SendTypes DEF Locked, TypeInv
  <1>3. ASSUME NEW c \in Calls, Watch(c) PROVE TypeInv'
    <2>1. CASE result_event = None
      BY Zenon, <1>3, <2>1, SendTypes DEF Watch, TypeInv
    <2>2. CASE result_event # None
      BY Zenon, <1>3, <2>2 DEF Watch, TypeInv
    <2> QED
      BY Zenon, <2>1, <2>2
  <1>4. ASSUME NEW c \in Calls, Return(c) PROVE TypeInv'
    BY Zenon, <1>4 DEF Return, TypeInv
  <1>5. ASSUME NEW c \in Calls, CancelCall(c) PROVE TypeInv'
    <2>1. queueing_lock' \in Seq(Calls)
      BY ZenonT(30), <1>5, RemoveAtSeq DEF CancelCall, TypeInv
    <2> QED
      BY Zenon, <1>5, <2>1 DEF CancelCall, TypeInv
  <1>6. ASSUME NEW k \in Ranks, HandleRecv(k) PROVE TypeInv'
    <2>1. /\ pipe[k] \in Seq(Calls) /\ Tail(pipe[k]) \in Seq(Calls) /\ Head(pipe[k]) \in Calls
      BY <1>6 DEF HandleRecv, TypeInv
    <2>2. pipe' \in [Ranks -> Seq(Calls)]
      BY Zenon, <1>6, <2>1 DEF HandleRecv, TypeInv
    <2>3. Reply(k, Head(pipe[k])) \in Replies
      BY Zenon, <2>1 DEF Reply, Replies
    <2>4. result_event # None =>
            Append(values[result_event], Reply(k, Head(pipe[k]))) \in Seq(Replies)
      BY <2>3 DEF TypeInv
    <2>5. values' \in [Calls -> Seq(Replies)] /\ is_set' \subseteq Calls
      BY Zenon, <1>6, <2>4 DEF HandleRecv, TypeInv
    <2> QED
      BY Zenon, <1>6, <2>2, <2>5 DEF HandleRecv, TypeInv
  <1>7. ASSUME NEW k \in Ranks, SetFanOut(k) PROVE TypeInv'
    BY Zenon, <1>7 DEF SetFanOut, TypeInv
  <1>8. CASE UNCHANGED commVars
    BY Zenon, <1>8 DEF commVars, TypeInv
  <1> QED
    BY Zenon, <1>1, <1>2, <1>3, <1>4, <1>5, <1>6, <1>7, <1>8 DEF CommNext, Step, Locked, Queued

(* Every step keeps the queue of waiting callers exact.                   *)
LEMMA QueuedStep == TypeInv /\ Queued /\ [CommNext]_commVars => Queued'
  <1> SUFFICES ASSUME TypeInv, Queued, [CommNext]_commVars PROVE Queued'
    BY Zenon
  <1>1. ASSUME NEW c \in Calls, Enter(c) PROVE Queued'
    <2>1. CASE holder = None /\ queueing_lock = <<>>
      BY ZenonT(30), <1>1, <2>1, SendTypes DEF Enter, Queued, TypeInv
    <2>2. CASE ~(holder = None /\ queueing_lock = <<>>)
      <3>1. ToSet(Append(queueing_lock, c)) = ToSet(queueing_lock) \cup {c}
        BY ToSetAppend DEF TypeInv
      <3> QED
        BY Zenon, <1>1, <2>2, <3>1 DEF Enter, TypeInv, Queued
    <2> QED
      BY Zenon, <2>1, <2>2
  <1>2. ASSUME NEW c \in Calls, Locked(c) PROVE Queued'
    <2>1. queueing_lock # <<>>
      BY <1>2 DEF Locked, Queued, ToSet
    <2>2. ToSet(queueing_lock) = {c} \cup ToSet(Tail(queueing_lock))
      BY Zenon, <1>2, <2>1, ToSetTail DEF TypeInv, Locked
    <2> QED
      BY Zenon, <1>2, <2>2, SendTypes DEF Locked, TypeInv, Queued
  <1>3. ASSUME NEW c \in Calls, Watch(c) PROVE Queued'
    <2>1. CASE result_event = None
      BY Zenon, <1>3, <2>1, SendTypes DEF Watch, TypeInv, Queued
    <2>2. CASE result_event # None
      BY Zenon, <1>3, <2>2 DEF Watch, TypeInv, Queued
    <2> QED
      BY Zenon, <2>1, <2>2
  <1>4. ASSUME NEW c \in Calls, Return(c) PROVE Queued'
    BY Zenon, <1>4 DEF Return, TypeInv, Queued
  <1>5. ASSUME NEW c \in Calls, CancelCall(c) PROVE Queued'
    <2>1. ASSUME NEW d \in Calls, d # c, d \in ToSet(queueing_lock)
          PROVE  d \in ToSet(queueing_lock')
      <3>1. CASE UNCHANGED queueing_lock
        BY Zenon, <2>1, <3>1
      <3>2. ASSUME NEW i \in DOMAIN queueing_lock, queueing_lock[i] = c,
                   queueing_lock' = RemoveAt(queueing_lock, i)
            PROVE  d \in ToSet(queueing_lock')
        BY Zenon, <2>1, <3>2, ToSetRemoveAt DEF TypeInv
      <3> QED
        BY Zenon, <1>5, <3>1, <3>2 DEF CancelCall
    <2> QED
      BY Zenon, <1>5, <2>1 DEF CancelCall, TypeInv, Queued
  <1>6. ASSUME NEW k \in Ranks, HandleRecv(k) \/ SetFanOut(k) PROVE Queued'
    BY Zenon, <1>6 DEF HandleRecv, SetFanOut, Queued
  <1>7. CASE UNCHANGED commVars
    BY Zenon, <1>7 DEF commVars, Queued
  <1> QED
    BY Zenon, <1>1, <1>2, <1>3, <1>4, <1>5, <1>6, <1>7 DEF CommNext, Step

(* Every step keeps a call that was never sent out of the channels.       *)
LEMMA FreshStep == TypeInv /\ Fresh /\ [CommNext]_commVars => Fresh'
  <1> SUFFICES ASSUME TypeInv, Fresh, [CommNext]_commVars PROVE Fresh'
    OBVIOUS
  <1>1. ASSUME NEW c \in Calls, Enter(c) \/ Locked(c) \/ Watch(c) PROVE Fresh'
    BY ZenonT(30), <1>1, SMTT(30) DEF Enter, Locked, Watch, Send, Fresh, TypeInv
  <1>2. ASSUME NEW c \in Calls, Return(c) PROVE Fresh'
    BY Zenon, <1>2, CommunicatorAssumption DEF Return, TypeInv, Fresh
  <1>3. ASSUME NEW c \in Calls, CancelCall(c) PROVE Fresh'
    BY Zenon, <1>3 DEF CancelCall, TypeInv, Fresh
  <1>4. ASSUME NEW k \in Ranks, HandleRecv(k) PROVE Fresh'
    <2>1. \A c \in Calls : c # result_event =>
            values'[c] = values[c] /\ (c \in is_set' <=> c \in is_set)
      BY <1>4 DEF HandleRecv, TypeInv
    <2>2. UNCHANGED <<at, joined, result_event>>
      BY Zenon, <1>4 DEF HandleRecv
    <2> QED
      BY Zenon, <2>1, <2>2 DEF Fresh
  <1>5. ASSUME NEW k \in Ranks, SetFanOut(k) PROVE Fresh'
    BY Zenon, <1>5 DEF SetFanOut, Fresh
  <1>6. CASE UNCHANGED commVars
    BY Zenon, <1>6 DEF commVars, Fresh
  <1> QED
    BY Zenon, <1>1, <1>2, <1>3, <1>4, <1>5, <1>6 DEF CommNext, Step

(* Nothing undoes a cancellation, so a step that ends undisturbed began so.*)
LEMMA StaysDisturbed == TypeInv /\ [CommNext]_commVars /\ Undisturbed' => Undisturbed
  <1> SUFFICES ASSUME TypeInv, [CommNext]_commVars, Undisturbed', NEW c \in Calls,
                      mode = "queueing", at[c] = "cancelled"
               PROVE  FALSE
    BY Zenon DEF Undisturbed, TypeInv
  <1>1. mode' = mode /\ at'[c] = at[c]
    BY Zenon DEF CommNext, Step, Enter, Locked, Watch, Return, CancelCall, HandleRecv, SetFanOut,
                    commVars, TypeInv
  <1> QED
    BY Zenon, <1>1 DEF Undisturbed

(* A request is sent when nothing is in flight, by a call with a new list. *)
LEMMA SendFlight ==
  ASSUME TypeInv, Flight, result_event = None, NEW c \in Calls, Send(c),
         values[c] = <<>>, c \notin is_set,
         UNCHANGED <<values, is_set, mode>>
  PROVE  /\ InFlight(c)' /\ result_event' = c
         /\ \A d \in is_set' : Complete(d)'
  <1>1. \A k \in Ranks : pipe[k] = <<>>
    BY Zenon DEF Flight, Idle
  <1>2. \A k \in Ranks : pipe'[k] = IF k <= fan_out THEN <<c>> ELSE <<>>
    <2>1. Append(<<>>, c) = <<c>>
      OBVIOUS
    <2>2. \A k \in Ranks : pipe'[k] = IF k <= fan_out THEN Append(pipe[k], c) ELSE pipe[k]
      BY Zenon DEF Send
    <2> QED
      BY Zenon, <1>1, <2>1, <2>2
  <1>3. /\ result_event' = c /\ result_fan_out' = fan_out /\ fan_out \in Ranks
        /\ values' = values /\ is_set' = is_set
    BY Zenon DEF Send, TypeInv
  <1>4. \A k \in 1..fan_out : k \in Ranks /\ k <= fan_out
    BY <1>3, CommunicatorAssumption DEF Ranks
  <1>5. Answered' = {}
    BY <1>2, <1>3, <1>4 DEF Answered
  <1>6. 1..fan_out # {}
    BY <1>3 DEF Ranks
  <1>7. RanksOf(values[c]) = {} /\ Len(values[c]) = 0 /\ DOMAIN values[c] = {}
    BY DEF RanksOf
  <1>8. Cardinality({}) = 0
    BY Zenon, FS_EmptySet
  <1>9. InFlight(c)'
    BY Zenon, <1>2, <1>3, <1>5, <1>6, <1>7, <1>8 DEF InFlight, RanksOf
  <1>10. ASSUME NEW d \in is_set PROVE Complete(d)'
    <2>1. Complete(d) /\ d # c
      BY Zenon DEF Flight
    <2>2. \A k \in Ranks : d \notin ToSet(pipe'[k])
      BY <1>2, <2>1 DEF ToSet
    <2> QED
      BY Zenon, <1>3, <2>1, <2>2 DEF Complete, RanksOf
  <1> QED
    BY Zenon, <1>3, <1>9, <1>10

(* A call that is sent at once, or when it gets the lock, is the only one in
   flight.                                                                *)
LEMMA EnterFlight ==
  ASSUME TypeInv, Queued, Fresh, Flight, NEW c \in Calls,
         Enter(c) \/ Locked(c)
  PROVE  Flight'
  <1>1. mode = "queueing" /\ at[c] \in {"new", "queued"}
    BY Zenon DEF Enter, Locked, Queued
  <1>2. CASE /\ holder = None /\ holder' = c /\ Send(c) /\ at' = [at EXCEPT ![c] = "waiting"]
             /\ UNCHANGED <<mode, fan_out, values, is_set, joined, result>>
    <2>1. result_event = None
      BY Zenon, <1>1, <1>2 DEF Flight, Turns
    <2>2. values[c] = <<>> /\ c \notin is_set
      BY Zenon, <1>1 DEF Fresh
    <2>3. /\ InFlight(c)' /\ result_event' = c /\ \A d \in is_set' : Complete(d)'
      BY Zenon, <1>2, <2>1, <2>2, SendFlight
    <2>4. ASSUME NEW d \in Calls, at'[d] = "returned" PROVE Returned(d)'
      BY Zenon, <1>2, <2>4 DEF TypeInv, Flight, Returned
    <2>5. Turns'
      BY Zenon, <1>1, <1>2, <2>3, CommunicatorAssumption DEF Flight, Turns, TypeInv
    <2> QED
      BY Zenon, <2>3, <2>4, <2>5, CommunicatorAssumption DEF Flight
  <1>3. CASE /\ at' = [at EXCEPT ![c] = "queued"]
             /\ UNCHANGED <<holder, result_event, result_fan_out, pipe, asked,
                            mode, fan_out, values, is_set, joined, result>>
    <2>1. Idle' = Idle /\ Answered' = Answered /\ \A e : InFlight(e)' = InFlight(e)
      BY <1>3 DEF Idle, InFlight, Answered, RanksOf
    <2>2. \A d : Complete(d)' = Complete(d) /\ Returned(d)' = Returned(d)
      BY Zenon, <1>3 DEF Complete, RanksOf, Returned
    <2>3. \A d \in Calls : at'[d] \in {"waiting", "returned"} => at'[d] = at[d]
      BY Zenon, <1>3 DEF TypeInv
    <2> QED
      BY Zenon, <1>3, <2>1, <2>2, <2>3 DEF Flight, Turns
  <1> QED
    BY Zenon, <1>2, <1>3 DEF Enter, Locked

(* A watching call joins the request in flight or sends the only one.     *)
LEMMA WatchFlight ==
  ASSUME TypeInv, Queued, Fresh, Flight, NEW c \in Calls, Watch(c)
  PROVE  Flight'
  <1>1. mode = "watching" /\ at[c] = "new" /\ mode' = mode /\ Turns'
    BY Zenon DEF Watch, Turns
  <1>2. ASSUME NEW d \in Calls, at'[d] = "returned" PROVE Returned(d)'
    <2>1. at[d] = "returned" /\ d # c
      BY Zenon, <1>2 DEF Watch, TypeInv
    <2>2. joined'[d] = joined[d] /\ UNCHANGED <<values, is_set, result>>
      BY Zenon, <2>1 DEF Watch, TypeInv
    <2> QED
      BY Zenon, <2>1, <2>2 DEF Flight, Returned
  <1>3. CASE result_event = None
    <2>1. values[c] = <<>> /\ c \notin is_set
      BY Zenon, <1>1 DEF Fresh
    <2>2. Send(c) /\ UNCHANGED <<values, is_set, mode>>
      BY Zenon, <1>3 DEF Watch
    <2>3. /\ InFlight(c)' /\ result_event' = c /\ \A d \in is_set' : Complete(d)'
      BY Zenon, <1>3, <2>1, <2>2, SendFlight
    <2> QED
      BY Zenon, <1>1, <1>2, <2>3, CommunicatorAssumption DEF Flight
  <1>4. CASE result_event # None
    <2>1. UNCHANGED <<result_event, result_fan_out, pipe, values, is_set>>
      BY Zenon, <1>4 DEF Watch
    <2>2. Idle' = Idle /\ Answered' = Answered /\ \A e : InFlight(e)' = InFlight(e)
      BY <2>1 DEF Idle, InFlight, Answered, RanksOf
    <2>3. \A d : Complete(d)' = Complete(d)
      BY Zenon, <2>1 DEF Complete, RanksOf
    <2> QED
      BY Zenon, <1>1, <1>2, <2>1, <2>2, <2>3 DEF Flight
  <1> QED
    BY Zenon, <1>3, <1>4

(* What has been answered by all is in no pipe.                            *)
LEMMA SetIsIdle ==
  ASSUME TypeInv, Flight, NEW e \in Calls, result_event = e, e \in is_set
  PROVE  Idle
  <1>1. InFlight(e) /\ Answered = 1..result_fan_out /\ result_fan_out \in Nat
    BY Zenon DEF Flight, InFlight, TypeInv
  <1>2. ASSUME NEW k \in Ranks PROVE pipe[k] = <<>>
    <2>1. pipe[k] = <<>> \/ k \in 1..result_fan_out
      BY <1>1 DEF InFlight, Ranks
    <2> QED
      BY Zenon, <1>1, <2>1 DEF Answered
  <1> QED
    BY Zenon, <1>2 DEF Idle

(* A call returns with the complete answers of the request that it joined.*)
LEMMA ReturnFlight ==
  ASSUME TypeInv, Flight, NEW c \in Calls, Return(c)
  PROVE  Flight'
  <1>1. /\ at[c] = "waiting" /\ joined[c] \in is_set /\ joined[c] \in Calls
        /\ UNCHANGED <<mode, values, is_set, joined, pipe>>
    BY Zenon DEF Return, TypeInv
  <1>2. Clears(c) => result_event = joined[c]
    BY Zenon, <1>1 DEF Clears, Flight, Turns
  <1>3. Clears(c) => Idle /\ result_event' = None
    BY Zenon, <1>1, <1>2, SetIsIdle DEF Return
  <1>4. ~Clears(c) => UNCHANGED <<result_event, result_fan_out>>
    BY Zenon DEF Return
  <1>5. Idle' = Idle /\ \A d : Complete(d)' = Complete(d)
    BY Zenon, <1>1 DEF Idle, Complete, RanksOf
  <1>6. ASSUME NEW e \in Calls, result_event' = e PROVE InFlight(e)'
    <2>1. InFlight(e) /\ UNCHANGED <<result_event, result_fan_out>>
      BY Zenon, <1>3, <1>4, <1>6, CommunicatorAssumption DEF Flight
    <2> QED
      BY ZenonT(30), <1>1, <2>1 DEF InFlight, Answered, RanksOf
  <1>7. result_event' = None => Idle'
    BY Zenon, <1>3, <1>4, <1>5 DEF Flight
  <1>8. ASSUME NEW d \in Calls, at'[d] = "returned" PROVE Returned(d)'
    <2>1. CASE d = c
      BY Zenon, <1>1, <2>1 DEF Return, Returned, TypeInv
    <2>2. CASE d # c
      <3>1. at[d] = "returned" /\ result'[d] = result[d]
        BY Zenon, <1>8, <2>2 DEF Return, TypeInv
      <3> QED
        BY Zenon, <1>1, <3>1 DEF Flight, Returned
    <2> QED
      BY Zenon, <2>1, <2>2
  <1>9. Turns'
    <2> SUFFICES ASSUME mode = "queueing" PROVE Turns'
      BY Zenon, <1>1 DEF Turns
    <2>1. Turns /\ holder = c /\ result_event = c /\ Clears(c)
      BY Zenon, <1>1 DEF Flight, Turns, Clears
    <2>2. \A d \in Calls : at'[d] = "waiting" => at[d] = "waiting" /\ d # c
      BY Zenon DEF Return, TypeInv
    <2>3. \A d \in Calls : at'[d] # "waiting"
      BY Zenon, <2>1, <2>2 DEF Turns
    <2> QED
      BY Zenon, <1>1, <1>3, <2>1, <2>3 DEF Turns
  <1> QED
    BY Zenon, <1>1, <1>5, <1>6, <1>7, <1>8, <1>9 DEF Flight

(* A cancelled watcher leaves everything else as it is.                    *)
LEMMA CancelFlight ==
  ASSUME TypeInv, Flight, NEW c \in Calls, CancelCall(c), Undisturbed'
  PROVE  Flight'
  <1>1. at'[c] = "cancelled" /\ mode' = mode
    BY Zenon DEF CancelCall, TypeInv
  <1>2. mode = "watching" /\ Turns'
    BY Zenon, <1>1 DEF Undisturbed, Turns
  <1>3. UNCHANGED <<mode, result_event, result_fan_out, values, is_set, joined, result, pipe>>
    BY Zenon DEF CancelCall
  <1>4. Idle' = Idle /\ Answered' = Answered /\ \A e : InFlight(e)' = InFlight(e)
    BY <1>3 DEF Idle, InFlight, Answered, RanksOf
  <1>5. \A d : Complete(d)' = Complete(d) /\ Returned(d)' = Returned(d)
    BY Zenon, <1>3 DEF Complete, RanksOf, Returned
  <1>6. \A d \in Calls : at'[d] = "returned" => at[d] = "returned"
    BY Zenon DEF CancelCall, TypeInv
  <1> QED
    BY Zenon, <1>2, <1>3, <1>4, <1>5, <1>6 DEF Flight

(* A reply appended to the answers adds its rank, and no other call's reply.*)
LEMMA RanksOfAppend ==
  ASSUME NEW s \in Seq(Replies), NEW r \in Replies
  PROVE  /\ RanksOf(Append(s, r)) = RanksOf(s) \cup {r.rank}
         /\ Len(Append(s, r)) = Len(s) + 1
         /\ \A e : (\A i \in DOMAIN s : s[i].call = e) /\ r.call = e =>
                      \A i \in DOMAIN Append(s, r) : Append(s, r)[i].call = e
  <1>1. /\ DOMAIN Append(s, r) = 1..(Len(s) + 1) /\ DOMAIN s = 1..Len(s)
        /\ \A i \in 1..Len(s) : Append(s, r)[i] = s[i]
        /\ Append(s, r)[Len(s) + 1] = r /\ Len(s) \in Nat
        /\ Len(Append(s, r)) = Len(s) + 1
    OBVIOUS
  <1>2. \A i \in 1..(Len(s) + 1) : i \in 1..Len(s) \/ i = Len(s) + 1
    BY <1>1
  <1>3. 1..Len(s) \subseteq 1..(Len(s) + 1) /\ Len(s) + 1 \in 1..(Len(s) + 1)
    BY <1>1
  <1>4. RanksOf(Append(s, r)) = RanksOf(s) \cup {r.rank}
    BY Zenon, <1>1, <1>2, <1>3 DEF RanksOf
  <1> QED
    BY Zenon, <1>1, <1>2, <1>4

(* A reply reaches the list of the one request in flight; the last one     *)
(* completes the list.                                                     *)
LEMMA RecvFlight ==
  ASSUME TypeInv, Flight, NEW k \in Ranks, HandleRecv(k)
  PROVE  Flight'
  <1>1. pipe[k] # <<>> /\ UNCHANGED <<mode, result_event, result_fan_out, joined, at, result, holder>>
    BY Zenon DEF HandleRecv
  <1>2. PICK e \in Calls : result_event = e
    BY Zenon, <1>1 DEF Flight, Idle, TypeInv
  <1>3. /\ InFlight(e) /\ k <= result_fan_out /\ pipe[k] = <<e>> /\ result_fan_out \in Ranks
        /\ result_event # None
    BY Zenon, <1>1, <1>2, CommunicatorAssumption DEF Flight, InFlight
  <1>4. k \in 1..result_fan_out /\ k \notin Answered
    <2>1. k \in 1..result_fan_out
      BY <1>3 DEF Ranks
    <2> QED
      BY Zenon, <1>1, <2>1 DEF Answered
  <1>5. e \notin is_set
    BY Zenon, <1>3, <1>4 DEF InFlight
  <1>6. Head(pipe[k]) = e /\ Tail(pipe[k]) = <<>>
    BY <1>3
  <1>7. \A j \in Ranks : pipe'[j] = IF j = k THEN <<>> ELSE pipe[j]
    BY Zenon, <1>6 DEF HandleRecv, TypeInv
  <1> DEFINE r == Reply(k, e)
  <1>8. r \in Replies /\ r.rank = k /\ r.call = e /\ values[e] \in Seq(Replies)
    BY Zenon DEF Reply, Replies, TypeInv
  <1>9. /\ values' = [values EXCEPT ![e] = Append(@, r)]
        /\ is_set' = IF Len(values[e]) + 1 = result_fan_out THEN is_set \cup {e} ELSE is_set
    BY Zenon, <1>2, <1>3, <1>6 DEF HandleRecv
  <1> HIDE DEF r
  <1>10. /\ values'[e] = Append(values[e], r)
         /\ \A d \in Calls : d # e => values'[d] = values[d] /\ (d \in is_set' <=> d \in is_set)
    BY Zenon, <1>9 DEF TypeInv
  <1>11. /\ RanksOf(values'[e]) = RanksOf(values[e]) \cup {k}
         /\ Len(values'[e]) = Len(values[e]) + 1
         /\ \A i \in DOMAIN values'[e] : values'[e][i].call = e
    BY <1>3, <1>8, <1>10, RanksOfAppend DEF InFlight
  <1>12. Answered' = Answered \cup {k}
    BY <1>1, <1>3, <1>4, <1>7, CommunicatorAssumption DEF Answered, Ranks
  <1>13. /\ IsFiniteSet(1..result_fan_out) /\ Cardinality(1..result_fan_out) = result_fan_out
         /\ IsFiniteSet(Answered)
    <2>1. IsFiniteSet(1..result_fan_out) /\ Cardinality(1..result_fan_out) = result_fan_out
      BY <1>3, FS_Interval DEF Ranks
    <2> QED
      BY Zenon, <2>1, FS_Subset DEF Answered
  <1>14. Cardinality(Answered') = Cardinality(Answered) + 1
    BY Zenon, <1>4, <1>12, <1>13, FS_AddElement
  <1>15. Answered' = 1..result_fan_out <=> Cardinality(Answered') = result_fan_out
    <2>1. Answered' \subseteq 1..result_fan_out
      BY Zenon, <1>4, <1>12 DEF Answered
    <2> QED
      BY Zenon, <1>13, <2>1, FS_Subset
  <1>16. e \in is_set' <=> Answered' = 1..result_fan_out
    <2>1. Len(values[e]) = Cardinality(Answered)
      BY Zenon, <1>3 DEF InFlight
    <2> QED
      BY Zenon, <1>5, <1>9, <1>14, <1>15, <2>1
  <1>17. InFlight(e)'
    BY ZenonT(30), <1>1, <1>3, <1>7, <1>11, <1>12, <1>14, <1>16 DEF InFlight
  <1>18. ASSUME NEW d \in is_set' PROVE Complete(d)'
    <2>1. CASE d = e
      <3>1. Answered' = 1..result_fan_out /\ Len(values'[e]) = result_fan_out
        BY Zenon, <1>3, <1>11, <1>13, <1>14, <1>16, <2>1 DEF InFlight
      <3>2. RanksOf(values'[e]) = 1..Len(values'[e])
        BY Zenon, <1>3, <1>11, <1>12, <3>1 DEF InFlight
      <3>3. values'[e] # <<>>
        BY <1>3, <3>1 DEF Ranks
      <3>4. \A j \in Ranks : pipe'[j] = <<>>
        <4>1. ASSUME NEW j \in Ranks, j <= result_fan_out PROVE pipe'[j] = <<>>
          <5>1. j \in 1..result_fan_out
            BY <1>3, <4>1 DEF Ranks
          <5> QED
            BY Zenon, <1>1, <3>1, <5>1 DEF Answered
        <4> QED
          BY Zenon, <1>1, <1>17, <4>1 DEF InFlight
      <3> QED
        BY <1>11, <2>1, <3>2, <3>3, <3>4 DEF Complete, ToSet, RanksOf
    <2>2. CASE d # e
      <3>1. Complete(d) /\ values'[d] = values[d]
        BY Zenon, <1>9, <1>10, <2>2 DEF Flight, TypeInv
      <3>2. \A j \in Ranks : d \notin ToSet(pipe'[j])
        BY <1>7, <3>1 DEF Complete, ToSet
      <3> QED
        BY Zenon, <3>1, <3>2 DEF Complete, RanksOf
    <2> QED
      BY Zenon, <2>1, <2>2
  <1>19. ASSUME NEW c \in Calls, at'[c] = "returned" PROVE Returned(c)'
    <2>1. joined[c] \in is_set /\ result[c] = values[joined[c]]
      BY Zenon, <1>1, <1>19 DEF Flight, Returned
    <2>2. joined[c] # e /\ joined[c] \in Calls
      BY Zenon, <1>5, <2>1 DEF TypeInv
    <2> QED
      BY Zenon, <1>1, <1>10, <2>1, <2>2 DEF Returned
  <1>20. Turns'
    BY Zenon, <1>1 DEF Flight, Turns
  <1> QED
    BY Zenon, <1>1, <1>2, <1>3, <1>17, <1>18, <1>19, <1>20 DEF Flight

(* The invariant holds before the first call.                             *)
LEMMA InitIInv == CommInit => IInv
  <1> SUFFICES ASSUME CommInit PROVE IInv
    OBVIOUS
  <1>1. <<>> \in Seq(Calls) /\ <<>> \in Seq(Replies) /\ ToSet(<<>>) = {}
    BY DEF ToSet
  <1>2. TypeInv
    BY Zenon, <1>1 DEF CommInit, TypeInv
  <1>3. Queued /\ Fresh
    BY Zenon, <1>1, CommunicatorAssumption DEF CommInit, Queued, Fresh
  <1>4. Flight
    BY Zenon, CommunicatorAssumption DEF CommInit, Flight, Idle, Turns
  <1> QED
    BY Zenon, <1>2, <1>3, <1>4 DEF IInv

(* While set_fan_out disturbs no request, every step keeps the request in
   flight and its answers exact.                                          *)
LEMMA FlightStep == TypeInv /\ Queued /\ Fresh /\ Flight /\ [CommNext]_commVars /\ Undisturbed' => Flight'
  <1> SUFFICES ASSUME TypeInv, Queued, Fresh, Flight, [CommNext]_commVars, Undisturbed' PROVE Flight'
    BY Zenon
  <1>1. ASSUME UNCHANGED <<mode, holder, result_event, result_fan_out, values, is_set, joined,
                           at, result, pipe>>
        PROVE  Flight'
    <2>1. Idle' = Idle /\ Answered' = Answered /\ \A e : InFlight(e)' = InFlight(e)
      BY <1>1 DEF Idle, InFlight, Answered, RanksOf
    <2>2. \A d : Complete(d)' = Complete(d) /\ Returned(d)' = Returned(d)
      BY Zenon, <1>1 DEF Complete, RanksOf, Returned
    <2> QED
      BY Zenon, <1>1, <2>1, <2>2 DEF Flight, Turns
  <1>2. CASE UNCHANGED commVars \/ \E k \in Ranks : SetFanOut(k)
    BY Zenon, <1>1, <1>2 DEF commVars, SetFanOut
  <1> QED
    BY Zenon, <1>2, EnterFlight, WatchFlight, ReturnFlight, CancelFlight, RecvFlight
       DEF CommNext, Step

(* Every step keeps the inductive invariant.                              *)
LEMMA StepIInv == IInv /\ [CommNext]_commVars => IInv'
  BY Zenon, TypeStep, QueuedStep, FreshStep, FlightStep, StaysDisturbed DEF IInv

(* The inductive invariant always holds.                                  *)
LEMMA SpecIInv == CommSpec => []IInv
  BY InitIInv, StepIInv, PTL DEF CommSpec

-----------------------------------------------------------------------------
(* Whatever the number of calls and of schedulers, however the callers and *)
(* the replies interleave and however often set_fan_out is called, one     *)
(* request of queueing_call or watching_call is in flight at a time.       *)
THEOREM OneRequestInFlight == CommSpec => []OneInFlight
  <1>1. ASSUME IInv PROVE OneInFlight
    <2> SUFFICES ASSUME Undisturbed
                 PROVE  Cardinality(UNION {ToSet(pipe[k]) : k \in Ranks}) <= 1
      BY Zenon DEF OneInFlight
    <2>1. Flight /\ TypeInv
      BY Zenon, <1>1 DEF IInv
    <2>2. ASSUME NEW e, \A k \in Ranks : pipe[k] = <<>> \/ pipe[k] = <<e>>
          PROVE  Cardinality(UNION {ToSet(pipe[k]) : k \in Ranks}) <= 1
      <3>1. ToSet(<<>>) = {} /\ ToSet(<<e>>) = {e}
        BY DEF ToSet
      <3>2. UNION {ToSet(pipe[k]) : k \in Ranks} \subseteq {e}
        BY Zenon, <2>2, <3>1
      <3>3. UNION {ToSet(pipe[k]) : k \in Ranks} = {} \/ UNION {ToSet(pipe[k]) : k \in Ranks} = {e}
        BY Zenon, <3>2
      <3>4. Cardinality({}) = 0 /\ Cardinality({e}) = 1
        BY Zenon, FS_EmptySet, FS_Singleton
      <3> QED
        BY <3>3, <3>4
    <2> QED
      BY Zenon, <2>1, <2>2 DEF Flight, Idle, InFlight, TypeInv
  <1> QED
    BY <1>1, SpecIInv, PTL

(* Every call returns the replies to the request it sent or joined, one    *)
(* from each scheduler the request went to, and leaves none of them behind *)
(* to be taken for the answer to a later request.                          *)
THEOREM CallsReturnOwnReplies == CommSpec => []OwnReplies
  <1>1. ASSUME IInv PROVE OwnReplies
    <2> SUFFICES ASSUME NEW c \in Calls, at[c] = "returned", Undisturbed
                 PROVE  /\ result[c] # <<>>
                        /\ \A i \in DOMAIN result[c] : result[c][i].call = joined[c]
                        /\ {result[c][i].rank : i \in DOMAIN result[c]} = 1..Len(result[c])
                        /\ \A k \in Ranks : joined[c] \notin ToSet(pipe[k])
      BY Zenon DEF OwnReplies
    <2>1. Returned(c) /\ Complete(joined[c])
      BY Zenon, <1>1 DEF IInv, Flight, Returned
    <2> QED
      BY <2>1 DEF Returned, Complete, RanksOf
  <1> QED
    BY <1>1, SpecIInv, PTL

(* A call that arrives never has its request sent before that of one that  *)
(* is already queued for the lock.                                         *)
THEOREM ServedInArrivalOrder == CommSpec => ArrivalOrder
  <1>1. ASSUME IInv, [CommNext]_commVars, NEW c \in Calls, NEW d \in Calls,
               at[c] = "queued", at[d] = "new", d \in ToSet(asked')
        PROVE  c \in ToSet(asked')
    <2>1. /\ TypeInv /\ c \in ToSet(queueing_lock) /\ mode = "queueing" /\ d \notin ToSet(asked)
      BY Zenon, <1>1 DEF IInv, Queued
    <2>2. queueing_lock # <<>>
      BY <2>1 DEF ToSet
    <2>3. asked' # asked
      BY Zenon, <1>1, <2>1
    <2>4. PICK x \in Calls : Locked(x)
      BY Zenon, <1>1, <2>1, <2>2, <2>3
         DEF CommNext, Step, Enter, Watch, Return, CancelCall, HandleRecv, SetFanOut, commVars
    <2>5. ToSet(asked') = ToSet(asked) \cup {x} /\ at[x] = "queued"
      BY Zenon, <2>1, <2>4, SendTypes DEF Locked
    <2> QED
      BY Zenon, <1>1, <2>1, <2>5
  <1>2. IInv /\ [CommNext]_commVars =>
          [\A c, d \in Calls : at[c] = "queued" /\ at[d] = "new" =>
             ~(d \in ToSet(asked') /\ c \notin ToSet(asked'))]_commVars
    BY Zenon, <1>1
  <1> QED
    BY <1>2, SpecIInv, PTL DEF CommSpec, ArrivalOrder
=============================================================================
