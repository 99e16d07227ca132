------------------------------- MODULE RWLock -------------------------------
(***************************************************************************)
(* The asyncio reader-writer lock of sglang/srt/utils/aio_rwlock.py.       *)
(*                                                                         *)
(* Every method body runs under the internal asyncio.Lock and suspends only*)
(* in Condition.wait, which gives that lock up first.  The event loop has  *)
(* one thread, so the internal lock is never contended and a method is one *)
(* atomic step up to the wait; what happens after a wake-up is a step of   *)
(* its own, in any order with the steps of the other tasks.                *)
(*                                                                         *)
(* A task waiting in the condition may be cancelled at any moment, woken or*)
(* not.  In newer CPython releases asyncio.Condition.wait then passes the  *)
(* wake-up on to one other waiter; in older ones that the package admits   *)
(* (3.11.6, say) it does not, and Renotify is FALSE.                       *)
(***************************************************************************)
EXTENDS Integers, FiniteSets

CONSTANTS
  Tasks,        \* the asyncio tasks that use the lock
  MaxAcquires,  \* bound: how many acquisitions are started in a behaviour
  Renotify      \* does a cancelled wait pass its wake-up on?

ASSUME RWLockAssumption ==
  /\ IsFiniteSet(Tasks)
  /\ MaxAcquires \in Nat
  /\ Renotify \in BOOLEAN

VARIABLES
  readers,          \* _readers
  writer_active,    \* _writer_active
  waiting_writers,  \* _waiting_writers
  pc,               \* where each task is in the lock's methods
  woken,            \* the waiting tasks whose wake-up is pending
  acquires          \* acquisitions started so far (the bound)

lockvars == <<readers, writer_active, waiting_writers, pc, woken>>
vars == <<readers, writer_active, waiting_writers, pc, woken, acquires>>

At(s) == {t \in Tasks : pc[t] = s}
Waiting == At("read_wait") \cup At("write_wait")
Holding == At("reading") \cup At("writing")

LockInit ==
  /\ readers = 0
  /\ writer_active = FALSE
  /\ waiting_writers = 0
  /\ pc = [t \in Tasks |-> "idle"]
  /\ woken = {}

Init == LockInit /\ acquires = 0

-----------------------------------------------------------------------------
MayReadPastWriters == ~writer_active

(* acquire_reader: the loop's test, and what follows it.                   *)
MayRead == ~writer_active /\ waiting_writers = 0

TakeRead(t) ==
  /\ readers' = IF MayRead THEN readers + 1 ELSE readers
  /\ pc' = [pc EXCEPT ![t] = IF MayRead THEN "reading" ELSE "read_wait"]
  /\ woken' = woken \ {t}
  /\ UNCHANGED <<writer_active, waiting_writers>>

AcquireReader(t) == pc[t] = "idle" /\ TakeRead(t)
WakeReader(t) == pc[t] = "read_wait" /\ t \in woken /\ TakeRead(t)

(* notify_all wakes every waiter.                                          *)
NotifyAll == woken' = Waiting

ReleaseReaderSilent(t) ==
  /\ pc[t] = "reading"
  /\ readers' = readers - 1
  /\ pc' = [pc EXCEPT ![t] = "idle"]
  /\ UNCHANGED <<writer_active, waiting_writers, woken>>

ReleaseReader(t) ==
  /\ pc[t] = "reading"
  /\ readers' = readers - 1
  /\ pc' = [pc EXCEPT ![t] = "idle"]
  /\ IF readers = 1 THEN NotifyAll ELSE woken' = woken
  /\ UNCHANGED <<writer_active, waiting_writers>>

MayWriteBesideReaders == ~writer_active

(* acquire_writer: the task counts among the waiting writers only while it *)
(* waits; the finally clause takes it off on success and on cancellation.  *)
MayWrite == ~writer_active /\ readers = 0

AcquireWriter(t) ==
  /\ pc[t] = "idle"
  /\ writer_active' = (writer_active \/ MayWrite)
  /\ waiting_writers' = IF MayWrite THEN waiting_writers ELSE waiting_writers + 1
  /\ pc' = [pc EXCEPT ![t] = IF MayWrite THEN "writing" ELSE "write_wait"]
  /\ UNCHANGED <<readers, woken>>

WakeWriter(t) ==
  /\ pc[t] = "write_wait" /\ t \in woken
  /\ writer_active' = (writer_active \/ MayWrite)
  /\ waiting_writers' = IF MayWrite THEN waiting_writers - 1 ELSE waiting_writers
  /\ pc' = [pc EXCEPT ![t] = IF MayWrite THEN "writing" ELSE "write_wait"]
  /\ woken' = woken \ {t}
  /\ UNCHANGED readers

ReleaseWriterSilent(t) ==
  /\ pc[t] = "writing"
  /\ writer_active' = FALSE
  /\ pc' = [pc EXCEPT ![t] = "idle"]
  /\ UNCHANGED <<readers, waiting_writers, woken>>

ReleaseWriter(t) ==
  /\ pc[t] = "writing"
  /\ writer_active' = FALSE
  /\ pc' = [pc EXCEPT ![t] = "idle"]
  /\ NotifyAll
  /\ UNCHANGED <<readers, waiting_writers>>

CancelWaitStillCounted(t) ==
  /\ t \in Waiting
  /\ pc' = [pc EXCEPT ![t] = "idle"]
  /\ woken' = woken \ {t}
  /\ UNCHANGED <<readers, writer_active, waiting_writers>>

(* task.cancel() on a task suspended in _cond.wait().                      *)
CancelWait(t) ==
  /\ t \in Waiting
  /\ pc' = [pc EXCEPT ![t] = "idle"]
  /\ waiting_writers' = IF pc[t] = "write_wait" THEN waiting_writers - 1
                                                ELSE waiting_writers
  /\ LET rest == Waiting \ (woken \cup {t})
     IN  IF Renotify /\ rest # {}
           THEN \E u \in rest : woken' = (woken \ {t}) \cup {u}
           ELSE woken' = woken \ {t}
  /\ UNCHANGED <<readers, writer_active>>

(* is_locked                                                               *)
IsLocked == writer_active \/ readers > 0

-----------------------------------------------------------------------------
Start(t) ==
  /\ acquires < MaxAcquires
  /\ acquires' = acquires + 1
  /\ AcquireReader(t) \/ AcquireWriter(t)

Continue(t) ==
  /\ \/ WakeReader(t) \/ WakeWriter(t)
     \/ ReleaseReader(t) \/ ReleaseWriter(t)
  /\ UNCHANGED acquires

Cancel(t) == CancelWait(t) /\ UNCHANGED acquires

Next == \E t \in Tasks : Start(t) \/ Continue(t) \/ Cancel(t)

(* The event loop runs every ready task, and every holder leaves its       *)
(* critical section; nobody is obliged to ask for the lock or to cancel.   *)
Fairness == \A t \in Tasks : WF_vars(Continue(t))

Spec == Init /\ [][Next]_vars
FairSpec == Spec /\ Fairness

-----------------------------------------------------------------------------
TypeOK ==
  /\ readers \in Nat
  /\ writer_active \in BOOLEAN
  /\ waiting_writers \in Nat
  /\ pc \in [Tasks -> {"idle", "read_wait", "reading", "write_wait", "writing"}]
  /\ woken \subseteq Tasks
  /\ acquires \in Nat

(* A writer holds the lock alone: no second writer and no reader.          *)
Exclusive == \A t \in At("writing") : Holding = {t}

(* The three counters are the numbers of tasks they stand for, also after  *)
(* cancellations: a count left too high would block the lock for ever.     *)
CountsExact ==
  /\ readers = Cardinality(At("reading"))
  /\ waiting_writers = Cardinality(At("write_wait"))
  /\ writer_active <=> At("writing") # {}

(* No lost wake-up: when tasks wait and nobody holds the lock, some waiter *)
(* has a wake-up pending, so the lock cannot stay free with tasks asleep.  *)
NoLostWakeup == Waiting # {} /\ Holding = {} => woken # {}

(* Writer preference ("to ensure fairness"): no task becomes a reader      *)
(* while a writer waits, so readers cannot keep a writer out for ever.     *)
ReadersYield ==
  [][At("write_wait") # {} => At("reading")' \subseteq At("reading")]_vars

(* Every task that waits is served or cancelled in the end.                *)
WaitersServed == \A t \in Tasks : t \in Waiting ~> t \notin Waiting
=============================================================================
